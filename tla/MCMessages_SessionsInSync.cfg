\* Two receipts of one message from one tab.
SPECIFICATION Spec
CONSTANTS
  alice = alice  bob = bob  carol = carol  n1 = n1  n2 = n2
  a1 = a1  a2 = a2  b1 = b1  c1 = c1
  m1 = m1  mSelf = mSelf  d1 = d1  r1 = r1  rH = rH  rA = rA
  User = {alice, bob}
  Node = {n1, n2}
  Tab = {a1, b1}
  TabUser <- MCTabUser
  TabNode <- MCTabNode
  Msg = {m1}
  From <- MCFrom
  To <- MCTo
  Call = {d1, r1}
  By <- MCBy
  Kind <- MCKind
  On <- MCOn
  Live <- MCLive
INVARIANT SessionsInSync
\* Nothing is left to do once every request is answered and every event shown.
CHECK_DEADLOCK FALSE
