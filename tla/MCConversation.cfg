\* A tab selects two peers, with a message each way with one of them and an
\* older one it cannot open; a page of history holds two.
SPECIFICATION FairSpec
CONSTANTS
  bob = bob  carol = carol  theirs = theirs  mine = mine  sealed = sealed
  None = None
  Peer = {bob, carol}
  Msg = {theirs, mine, sealed}
  PeerOf <- MCPeerOf
  Mine = {mine, sealed}
  Readable = {theirs, mine}
  Old = {sealed}
  Time = {1, 2}
  Limit = 2
  MaxReqs = 2
INVARIANTS TypeOK OnlyThisConversation OnceUnlessTied ShownIsRead Complete
PROPERTIES ReadsAreShown LoadingEnds
