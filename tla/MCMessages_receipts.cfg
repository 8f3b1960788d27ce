\* Alice sends; two tabs of bob on two nodes and alice herself ask for receipts.
SPECIFICATION Spec
CONSTANTS
  alice = alice  bob = bob  carol = carol  n1 = n1  n2 = n2
  a1 = a1  a2 = a2  b1 = b1  c1 = c1
  m1 = m1  mSelf = mSelf  d1 = d1  r1 = r1  rH = rH  rA = rA
  User = {alice, bob, carol}
  Node = {n1, n2}
  Tab = {a1, b1, c1}
  TabUser <- MCTabUser
  TabNode <- MCTabNode
  Msg = {m1, mSelf}
  From <- MCFrom
  To <- MCTo
  Call = {d1, r1, rH, rA}
  By <- MCBy
  Kind <- MCKind
  On <- MCOn
  Live <- MCLive
INVARIANTS TypeOK ReadImpliesDelivered StatusNotAhead AckIsDurable OnlyParticipants 
PROPERTY LifecycleSpec
\* Nothing is left to do once every request is answered and every event shown.
CHECK_DEADLOCK FALSE
