\* Fair Redis and event loops; two sockets of a user, two nodes.
SPECIFICATION FairSpec
CONSTANTS
  n1 = n1  n2 = n2  ann = ann  s1 = s1  s2 = s2  s3 = s3
  Node = {n1, n2}
  User = {ann}
  Socket = {s1, s2}
  UserOf <- OneUser
  MayStop = {}
PROPERTY EventuallyOffline
CHECK_DEADLOCK FALSE
