\* The conversation stays open, App renders again.
SPECIFICATION Spec
CONSTANTS
  bob = bob  carol = carol  theirs = theirs  mine = mine  sealed = sealed
  None = None
  Peer = {bob, carol}
  Msg = {theirs, mine, sealed}
  PeerOf <- MCPeerOf
  Mine = {mine, sealed}
  Readable = {theirs, mine}
  Old = {sealed}
  Time = {1, 2}
  Limit = 2
  MaxReqs = 2
PROPERTY ResetOnlyOnChange
