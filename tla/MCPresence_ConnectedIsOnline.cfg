SPECIFICATION Spec
CONSTANTS
  n1 = n1  n2 = n2  ann = ann  s1 = s1  s2 = s2  s3 = s3
  Node = {n1, n2}
  User = {ann}
  Socket = {s1, s2}
  UserOf <- OneUser
  MayStop = {}
INVARIANT ConnectedIsOnline
CHECK_DEADLOCK FALSE
