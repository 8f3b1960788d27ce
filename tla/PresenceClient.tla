--------------------------- MODULE PresenceClient ---------------------------
(***************************************************************************)
(* The presence map of one tab (App): a snapshot fetched over HTTP when    *)
(* the session begins, folded with the presence:update events of the       *)
(* tab's socket.  The two travel on different connections, nothing orders  *)
(* them, and nothing is fetched again when the socket reconnects.          *)
(*                                                                         *)
(* The tab watches the users of PresenceCalm, whose counter is exact: what *)
(* the map shows wrong here is the tab's own doing.  An answer outlives    *)
(* the session that asked for it: the effect that asks has no cleanup.     *)
(*                                                                         *)
(*    sent --findMany--> listed --HMGET--> counted --MGET--> read          *)
(*         --> merged                                       (or failed)    *)
(*                                                                         *)
(* The handler asks Redis only for the users PostgreSQL listed before; a   *)
(* user may register, and come online, at any time after.                  *)
(***************************************************************************)
EXTENDS PresenceCalm

CONSTANTS
    At,         \* the node nginx sends the tab to
    MaxLogins   \* bound: sessions of the tab

ASSUME AtAssumption == At \in Node
ASSUME MaxLoginsAssumption == MaxLogins \in Nat

VARIABLES
    registered, \* the users that have a row
    logged,   \* the tab has a session
    logins,   \* the sessions so far; a session is named by its number
    joined,   \* its socket is connected and in PRESENCE_ROOM
    wire,     \* events sent to the tab, not yet handled
    fetch,    \* per session: its GET /presence
    presence, \* the map: what the tab shows for each user
    missed    \* history: the users the map may be wrong about, see FoldIsTruth

tab == <<registered, logged, logins, joined, wire, fetch, presence, missed>>
all == <<vars, tab>>

\* An entry of the map: absent, online, offline with the time, or without.
Entry == {"none", "online", "seen", "unseen"}
Absent == [u \in User |-> "none"]
Session == 1..MaxLogins
FetchPC == {"idle", "sent", "listed", "counted", "read", "merged", "failed"}

(***************************************************************************)
(* The type of the state of the tab.                                       *)
(***************************************************************************)
TabTypeOK ==
    /\ registered \subseteq User
    /\ logged \in BOOLEAN
    /\ logins \in 0..MaxLogins
    /\ joined \in BOOLEAN
    /\ wire \in Seq(Event)
    /\ fetch \in [Session -> [pc : FetchPC, got : [User -> Entry]]]
    /\ presence \in [User -> Entry]
    /\ missed \subseteq User

\* Some users registered long ago.
TabInit ==
    /\ registered \in SUBSET User
    /\ logged = FALSE
    /\ logins = 0
    /\ joined = FALSE
    /\ wire = <<>>
    /\ fetch = [i \in Session |-> [pc |-> "idle", got |-> Absent]]
    /\ presence = Absent
    /\ missed = {}

-----------------------------------------------------------------------------
(* The users it watches.                                                   *)

\* POST /auth/register commits the row.
Register(u) ==
    /\ u \notin registered
    /\ registered' = registered \cup {u}
    /\ UNCHANGED <<vars, logged, logins, joined, wire, fetch, presence, missed>>

\* The handshake takes a token, and a token is given to who has a row.
Sockets ==
    /\ \E s \in Socket : UserOf[s] \in registered /\ CalmSocket(s)
    /\ UNCHANGED tab

-----------------------------------------------------------------------------
(* The session begins and ends.                                            *)

\* setSession: the socket of a session still there is closed, a new one opened
\* and the snapshot asked for.  The map is left as it is.
Login ==
    /\ logins < MaxLogins
    /\ logged' = TRUE
    /\ logins' = logins + 1
    /\ joined' = FALSE
    /\ wire' = <<>>
    /\ fetch' = [fetch EXCEPT ![logins + 1].pc = "sent"]
    /\ missed' = IF logged THEN User ELSE missed
    /\ UNCHANGED <<vars, registered, presence>>

\* Mutant: the map is kept.
LogoutKeepsMap ==
    /\ logged
    /\ logged' = FALSE
    /\ joined' = FALSE
    /\ wire' = <<>>
    /\ missed' = {}
    /\ UNCHANGED <<vars, registered, logins, fetch, presence>>

\* logout: the socket is closed and the map emptied; a request goes on.
Logout ==
    /\ logged
    /\ logged' = FALSE
    /\ joined' = FALSE
    /\ wire' = <<>>
    /\ presence' = Absent
    /\ missed' = {}
    /\ UNCHANGED <<vars, registered, logins, fetch>>

\* The users the answer of session i says nothing of, as far as it is known.
Unlisted(i) ==
    {u \in User : /\ fetch[i].pc \in {"listed", "counted", "read", "merged"}
                  /\ fetch[i].got[u] = "none"}

\* The handshake completes: the connection handler joins the room.
Join ==
    /\ logged /\ ~joined
    /\ joined' = TRUE
    /\ missed' = missed \cup (registered \cap Unlisted(logins))
    /\ UNCHANGED <<vars, registered, logged, logins, wire, fetch, presence>>

\* The connection is lost and what was under way with it.  The client will
\* reconnect; no effect depends on it.
Drop ==
    /\ joined
    /\ joined' = FALSE
    /\ wire' = <<>>
    /\ missed' = User
    /\ UNCHANGED <<vars, registered, logged, logins, fetch, presence>>

-----------------------------------------------------------------------------
(* GET /presence awaits findMany; getPresenceFor awaits HMGET, then MGET.   *)
(* The reads wait their turn on the node's connections; here they may run  *)
(* at any time, which includes every order the queues allow.               *)

Step(i, from, to) ==
    /\ fetch[i].pc = from
    /\ fetch' = [fetch EXCEPT ![i] = to]

\* findMany: who is not listed will not be in the answer.  Of nobody, Redis is
\* asked nothing.
ReadUsers(i) ==
    /\ Step(i, "sent",
            [pc |-> IF registered = {} THEN "read" ELSE "listed",
             got |-> [u \in User |-> IF u \in registered THEN "unseen" ELSE "none"]])
    /\ UNCHANGED <<vars, registered, logged, logins, joined, wire, presence, missed>>

\* HMGET presence:counts of the users listed; one with no count, or none left,
\* is offline.
ReadCounts(i) ==
    /\ Step(i, "listed",
            [pc |-> "counted",
             got |-> [u \in User |->
                        IF fetch[i].got[u] = "unseen" /\ counts[u] > 0
                        THEN "online" ELSE fetch[i].got[u]]])
    /\ missed' = IF i = logins /\ logged /\ ~joined
                 THEN missed \cup (User \ Unlisted(i)) ELSE missed
    /\ UNCHANGED <<vars, registered, logged, logins, joined, wire, presence>>

\* MGET presence:lastSeen:*, for the users read as offline.
ReadLastSeen(i) ==
    /\ Step(i, "counted",
            [pc |-> "read",
             got |-> [u \in User |->
                        IF fetch[i].got[u] = "unseen" /\ u \in lastSeen
                        THEN "seen" ELSE fetch[i].got[u]]])
    /\ UNCHANGED <<vars, registered, logged, logins, joined, wire, presence, missed>>

\* Mutant: the snapshot wins.
SnapshotWins(live, snapshot) ==
    [u \in User |-> IF snapshot[u] # "none" THEN snapshot[u] ELSE live[u]]

\* What the live socket has already pushed in wins over the snapshot.
Merged(live, snapshot) ==
    [u \in User |-> IF live[u] # "none" THEN live[u] ELSE snapshot[u]]

\* The answer arrives, whatever has become of the session that asked.
Merge(i) ==
    /\ Step(i, "read", [pc |-> "merged", got |-> Absent])
    /\ presence' = Merged(presence, fetch[i].got)
    /\ missed' = IF i = logins /\ logged THEN missed
                 ELSE missed \cup {u \in User : presence'[u] # presence[u]}
    /\ UNCHANGED <<vars, registered, logged, logins, joined, wire>>

\* The request fails, or a statement of its handler: only the error is shown.
Fail(i) ==
    /\ fetch[i].pc \in {"sent", "listed", "counted", "read"}
    /\ fetch' = [fetch EXCEPT ![i] = [pc |-> "failed", got |-> Absent]]
    /\ UNCHANGED <<vars, registered, logged, logins, joined, wire, presence, missed>>

-----------------------------------------------------------------------------
(* The live stream.                                                        *)

\* Mutant: the time of an offline event is not kept.
HearFlag ==
    /\ wire # <<>>
    /\ wire' = Tail(wire)
    /\ presence' = [presence EXCEPT ![Head(wire).user] =
                      IF Head(wire).online THEN "online" ELSE "offline"]
    /\ UNCHANGED <<vars, registered, logged, logins, joined, fetch, missed>>

\* onPresence: the event replaces the entry.
Hear ==
    /\ wire # <<>>
    /\ wire' = Tail(wire)
    /\ LET e == Head(wire)
       IN  presence' = [presence EXCEPT ![e.user] =
                          IF e.online THEN "online" ELSE "seen"]
    /\ UNCHANGED <<vars, registered, logged, logins, joined, fetch, missed>>

\* The node of the tab emits presence:update to its local sockets in the room.
Push(u, online) ==
    /\ wire' = IF joined THEN Append(wire, [user |-> u, online |-> online])
               ELSE wire
    /\ UNCHANGED <<registered, logged, logins, joined, fetch, presence, missed>>

Emits(n) ==
    \/ OnDelReply(n) /\ Push(UserOf[Head(replyq[n]).sock], TRUE)
    \/ OnOfflineReply(n) /\ Push(UserOf[Head(replyq[n]).sock], FALSE)
    \/ Receive(n) /\ Push(Head(inbox[n]).user, Head(inbox[n]).online)

\* The other users' sockets, the nodes and Redis, as in PresenceCalm.
Others ==
    \/ Emits(At)
    \/ Sockets
    \/ /\ \/ \E n \in Node : Redis(n) \/ OnIncrReply(n) \/ OnDecrReply(n)
          \/ \E n \in Node \ {At} : OnDelReply(n) \/ OnOfflineReply(n) \/ Receive(n)
       /\ UNCHANGED tab

Tab ==
    \/ Login \/ Logout \/ Join \/ Drop \/ Hear
    \/ \E i \in Session : \/ ReadUsers(i) \/ ReadCounts(i) \/ ReadLastSeen(i)
                          \/ Merge(i) \/ Fail(i)

ClientInit == Init /\ TabInit
ClientNext == Others \/ Tab \/ \E u \in User : Register(u)
ClientSpec == ClientInit /\ [][ClientNext]_all

-----------------------------------------------------------------------------
\* What the tab should show of a user.
Truth(u) ==
    IF \E s \in SocketsOf(u) : phase[s] = "open" THEN "online"
    ELSE IF \E s \in SocketsOf(u) : phase[s] = "closed" THEN "seen"
    ELSE "unseen"

\* What UserList shows of a user: with no entry, the same as of one never seen.
Status(u) == IF presence[u] = "none" THEN "unseen" ELSE presence[u]

Corrected(u) ==
    \/ Arriving(u) \/ Leaving(u)
    \/ \E i \in DOMAIN wire : wire[i].user = u

\* The fold of snapshot and live stream is right, whichever comes first and
\* between whichever two reads a user came or went: an entry is the truth or
\* its correction is on the way.  Of whom it need not be (missed): of anyone
\* once the tab lost its socket, or if the session began over another one; of
\* whom an answer to an earlier session brought an entry; of the users whose
\* counts were read before the tab was in the room; and of a user who
\* registered after the answer's users were listed, and before the tab was in
\* the room.
FoldIsTruth ==
    logged /\ joined =>
        \A u \in User \ missed :
            \/ Status(u) = Truth(u)
            \/ presence[u] = "none" /\ fetch[logins].pc # "merged"
            \/ Corrected(u)
=============================================================================
