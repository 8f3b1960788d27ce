--------------------------- MODULE MCConversation ---------------------------
(* Conversation on a small instance: a tab with bob and carol to talk to.   *)
EXTENDS Conversation
CONSTANTS bob, carol, theirs, mine, sealed

\* One message of bob and two to bob, of which one was sealed with keys that this
\* device no longer has.
MCPeerOf == [m \in Msg |-> bob]
=============================================================================
