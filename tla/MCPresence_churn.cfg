\* Three sockets of one user come and go on two nodes; one node may stop.
SPECIFICATION Spec
CONSTANTS
  n1 = n1  n2 = n2  ann = ann  s1 = s1  s2 = s2  s3 = s3
  Node = {n1, n2}
  User = {ann}
  Socket = {s1, s2, s3}
  UserOf <- OneUser
  MayStop = {n2}
SYMMETRY SocketSymmetry
INVARIANTS TypeOK CountBound OnlineIsBacked NegativeIsTransient LeavingIsSeen
\* Sockets are finite: the system stops when all have closed.
CHECK_DEADLOCK FALSE
