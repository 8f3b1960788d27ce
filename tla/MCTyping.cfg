\* Two users type to each other or to a third one; one of them may log out or
\* lose the network at any step.
SPECIFICATION FairSpec
CONSTANTS
  alice = alice  bob = bob  carol = carol  a1 = a1  b1 = b1
  None = None
  User = {alice, bob, carol}
  Tab = {a1, b1}
  TabUser <- MCTabUser
  MayLeave = {a1}
  MaxQueue = 2
INVARIANTS TypeOK BurstHasTimer IndicatorBacked
PROPERTY IndicatorClears
