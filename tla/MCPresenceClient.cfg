\* Two sockets of one user on two nodes, watched by a tab on the first; another
\* user, who only registers.
SPECIFICATION ClientSpec
CONSTANTS
  n1 = n1  n2 = n2  ann = ann  bob = bob  s1 = s1  s2 = s2
  Node = {n1, n2}
  User = {ann, bob}
  Socket = {s1, s2}
  UserOf <- OneUser
  MayStop = {}
  At = n1
  MaxLogins = 2
SYMMETRY SocketSymmetry
INVARIANTS TabTypeOK FoldIsTruth ExactCount SettledTruth
PROPERTY AnnouncedOnce
\* A socket connects once, and sessions are bounded.
CHECK_DEADLOCK FALSE
