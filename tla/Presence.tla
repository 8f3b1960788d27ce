------------------------------ MODULE Presence ------------------------------
(***************************************************************************)
(* The shared online/offline counter of the backend nodes.                 *)
(*                                                                         *)
(* Every node keeps one Redis connection (pubClient).  ioredis writes      *)
(* commands to it in the order the code issues them and Redis answers in   *)
(* that order, so a node is a FIFO of commands waiting for Redis (cmdq)    *)
(* and a FIFO of answers waiting for the node's event loop (replyq).  A    *)
(* handler that awaits a Redis call is two steps with anything between.    *)
(*                                                                         *)
(*   connection  --> incr --[count = 1]--> del --> say online              *)
(*   disconnect  --> decr --[count <= 0]--> offline --> say offline        *)
(*                                                                         *)
(* "offline" is the MULTI that runs HDEL and SET lastSeen as one step.     *)
(* Saying is io.to(PRESENCE_ROOM).emit: the Redis adapter publishes on     *)
(* pubClient and hands the event to the local sockets at once; the other   *)
(* nodes get it from their subscriber connection (inbox).                  *)
(***************************************************************************)
EXTENDS Integers, Sequences, FiniteSets

CONSTANTS
    Node,     \* backend processes; a restarted node is another member
    User,
    Socket,   \* Socket.IO connections, one per tab and (re)connection
    UserOf,   \* the authenticated user of each socket
    MayStop   \* the nodes that may be killed or shut down

ASSUME SocketAssumption == IsFiniteSet(Socket)
ASSUME UserOfAssumption == UserOf \in [Socket -> User]
ASSUME MayStopAssumption == MayStop \subseteq Node

VARIABLES
    phase,    \* of each socket: not yet connected, open, or closed
    home,     \* the node nginx sends each socket to (ip_hash: fixed)
    alive,    \* the nodes whose process is running
    cmdq,     \* per node: commands issued on pubClient, not yet executed
    replyq,   \* per node: answers the event loop has not handled
    inbox,    \* per node: events received by subClient, not yet emitted
    counts,   \* the hash presence:counts; 0 stands for an absent field
    lastSeen, \* the users whose presence:lastSeen:<id> exists
    view,     \* per node: what a client listening there was last told
    counted   \* history: sockets with an INCR executed and no DECR

vars == <<phase, home, alive, cmdq, replyq, inbox, counts, lastSeen, view,
          counted>>

SocketsOf(u) == {s \in Socket : UserOf[s] = u}

Ops == {"incr", "del", "sayOnline", "decr", "offline", "sayOffline"}
Command == [op : Ops, sock : Socket]
Reply == [op : Ops, sock : Socket, count : Int]
Event == [user : User, online : BOOLEAN]
Told == {"nothing", "online", "offline"}

(***************************************************************************)
(* The type of the state.                                                  *)
(***************************************************************************)
TypeOK ==
    /\ phase \in [Socket -> {"new", "open", "closed"}]
    /\ home \in [Socket -> Node]
    /\ alive \subseteq Node
    /\ cmdq \in [Node -> Seq(Command)]
    /\ replyq \in [Node -> Seq(Reply)]
    /\ inbox \in [Node -> Seq(Event)]
    /\ counts \in [User -> Int]
    /\ lastSeen \subseteq User
    /\ view \in [Node -> [User -> Told]]
    /\ counted \subseteq Socket

Init ==
    /\ phase = [s \in Socket |-> "new"]
    /\ home \in [Socket -> Node]
    /\ alive = Node
    /\ cmdq = [n \in Node |-> <<>>]
    /\ replyq = [n \in Node |-> <<>>]
    /\ inbox = [n \in Node |-> <<>>]
    /\ counts = [u \in User |-> 0]
    /\ lastSeen = {}
    /\ view = [n \in Node |-> [u \in User |-> "nothing"]]
    /\ counted = {}

-----------------------------------------------------------------------------
(* What the steps are made of.                                             *)

\* Mutant: the command overtakes those already sent.
IssueFirst(n, op, s) ==
    cmdq' = [cmdq EXCEPT ![n] = <<[op |-> op, sock |-> s]>> \o @]

Issue(n, op, s) ==
    cmdq' = [cmdq EXCEPT ![n] = Append(@, [op |-> op, sock |-> s])]

HeadIs(n, op) == cmdq[n] # <<>> /\ Head(cmdq[n]).op = op
HeadSock(n) == Head(cmdq[n]).sock
HeadUser(n) == UserOf[HeadSock(n)]

\* Redis answers a node that is still there; the answer of a dead one is lost.
Answer(n, count) ==
    /\ cmdq' = [cmdq EXCEPT ![n] = Tail(@)]
    /\ replyq' = IF n \in alive
                 THEN [replyq EXCEPT ![n] =
                         Append(@, [op |-> Head(cmdq[n]).op,
                                    sock |-> HeadSock(n),
                                    count |-> count])]
                 ELSE replyq

Tell(n, u, online) ==
    view' = [view EXCEPT ![n][u] = IF online THEN "online" ELSE "offline"]

-----------------------------------------------------------------------------
(* Sockets come and go.                                                    *)

\* Mutant: trackConnect is called twice.
ConnectTwice(s) ==
    /\ phase[s] = "new"
    /\ home[s] \in alive
    /\ phase' = [phase EXCEPT ![s] = "open"]
    /\ LET incr == [op |-> "incr", sock |-> s]
       IN  cmdq' = [cmdq EXCEPT ![home[s]] = @ \o <<incr, incr>>]
    /\ UNCHANGED <<home, alive, replyq, inbox, counts, lastSeen, view, counted>>

\* A client completes the handshake: the connection handler calls trackConnect.
Connect(s) ==
    /\ phase[s] = "new"
    /\ home[s] \in alive
    /\ phase' = [phase EXCEPT ![s] = "open"]
    /\ Issue(home[s], "incr", s)
    /\ UNCHANGED <<home, alive, replyq, inbox, counts, lastSeen, view, counted>>

\* Mutant: a socket that leaves before its INCR is executed is not counted out.
DisconnectEarly(s) ==
    /\ phase[s] = "open"
    /\ phase' = [phase EXCEPT ![s] = "closed"]
    /\ IF \E i \in DOMAIN cmdq[home[s]] :
            cmdq[home[s]][i] = [op |-> "incr", sock |-> s]
       THEN UNCHANGED cmdq
       ELSE Issue(home[s], "decr", s)
    /\ UNCHANGED <<home, alive, replyq, inbox, counts, lastSeen, view, counted>>

\* The tab closes, logs out or loses the network: the disconnect handler
\* calls trackDisconnect, whether or not trackConnect has finished.
Disconnect(s) ==
    /\ phase[s] = "open"
    /\ phase' = [phase EXCEPT ![s] = "closed"]
    /\ Issue(home[s], "decr", s)
    /\ UNCHANGED <<home, alive, replyq, inbox, counts, lastSeen, view, counted>>

\* The process is killed, leaves by process.exit after SIGTERM, or dies of the
\* unhandled rejection of an async route.  Its sockets close without a
\* disconnect handler; Redis may still execute what was sent.
Stop(n) ==
    /\ n \in MayStop \cap alive
    /\ alive' = alive \ {n}
    /\ phase' = [s \in Socket |-> IF home[s] = n /\ phase[s] = "open"
                                  THEN "closed" ELSE phase[s]]
    /\ \E k \in 0..Len(cmdq[n]) :
         cmdq' = [cmdq EXCEPT ![n] = SubSeq(@, 1, k)]
    /\ replyq' = [replyq EXCEPT ![n] = <<>>]
    /\ inbox' = [inbox EXCEPT ![n] = <<>>]
    /\ UNCHANGED <<home, counts, lastSeen, view, counted>>

-----------------------------------------------------------------------------
(* Redis executes the oldest command of one connection at a time.          *)

\* HINCRBY presence:counts user 1
ExecIncr(n) ==
    /\ HeadIs(n, "incr")
    /\ counts' = [counts EXCEPT ![HeadUser(n)] = @ + 1]
    /\ counted' = counted \cup {HeadSock(n)}
    /\ Answer(n, counts[HeadUser(n)] + 1)
    /\ UNCHANGED <<phase, home, alive, inbox, lastSeen, view>>

\* HINCRBY presence:counts user -1
ExecDecr(n) ==
    /\ HeadIs(n, "decr")
    /\ counts' = [counts EXCEPT ![HeadUser(n)] = @ - 1]
    /\ counted' = counted \ {HeadSock(n)}
    /\ Answer(n, counts[HeadUser(n)] - 1)
    /\ UNCHANGED <<phase, home, alive, inbox, lastSeen, view>>

\* Mutant: the DEL names another key.
ExecDelOther(n) ==
    /\ HeadIs(n, "del")
    /\ Answer(n, 0)
    /\ UNCHANGED <<phase, home, alive, inbox, counts, lastSeen, view, counted>>

\* DEL presence:lastSeen:<id>
ExecDel(n) ==
    /\ HeadIs(n, "del")
    /\ lastSeen' = lastSeen \ {HeadUser(n)}
    /\ Answer(n, 0)
    /\ UNCHANGED <<phase, home, alive, inbox, counts, view, counted>>

\* MULTI; HDEL presence:counts user; SET presence:lastSeen:<id> now; EXEC
ExecOffline(n) ==
    /\ HeadIs(n, "offline")
    /\ counts' = [counts EXCEPT ![HeadUser(n)] = 0]
    /\ lastSeen' = lastSeen \cup {HeadUser(n)}
    /\ Answer(n, 0)
    /\ UNCHANGED <<phase, home, alive, inbox, view, counted>>

\* PUBLISH by the adapter: every other running node's subClient gets the event,
\* in Redis's order.  The publisher ignores its own.  Nobody awaits the answer.
ExecPublish(n) ==
    /\ HeadIs(n, "sayOnline") \/ HeadIs(n, "sayOffline")
    /\ cmdq' = [cmdq EXCEPT ![n] = Tail(@)]
    /\ inbox' = [m \in Node |->
                   IF m # n /\ m \in alive
                   THEN Append(inbox[m], [user |-> HeadUser(n),
                                          online |-> HeadIs(n, "sayOnline")])
                   ELSE inbox[m]]
    /\ UNCHANGED <<phase, home, alive, replyq, counts, lastSeen, view, counted>>

-----------------------------------------------------------------------------
(* The node's event loop resumes a handler with the oldest answer.         *)

ReplyIs(n, op) == replyq[n] # <<>> /\ Head(replyq[n]).op = op
Resume(n) == replyq' = [replyq EXCEPT ![n] = Tail(@)]

\* Mutant: every connection is taken for the first.
OnIncrReplyAlways(n) ==
    /\ ReplyIs(n, "incr")
    /\ Resume(n)
    /\ Issue(n, "del", Head(replyq[n]).sock)
    /\ UNCHANGED <<phase, home, alive, inbox, counts, lastSeen, view, counted>>

\* trackConnect: only the transition to 1 goes on, to the DEL.
OnIncrReply(n) ==
    /\ ReplyIs(n, "incr")
    /\ Resume(n)
    /\ IF Head(replyq[n]).count = 1
       THEN Issue(n, "del", Head(replyq[n]).sock)
       ELSE UNCHANGED cmdq
    /\ UNCHANGED <<phase, home, alive, inbox, counts, lastSeen, view, counted>>

\* Mutants: the test of the count is = 0, or <= 1; HDEL is sent on its own.
OnDecrReplyAt(n, leaves(_), op) ==
    /\ ReplyIs(n, "decr")
    /\ Resume(n)
    /\ IF leaves(Head(replyq[n]).count)
       THEN Issue(n, op, Head(replyq[n]).sock)
       ELSE UNCHANGED cmdq
    /\ UNCHANGED <<phase, home, alive, inbox, counts, lastSeen, view, counted>>
OnDecrReplyZero(n) == OnDecrReplyAt(n, LAMBDA k : k = 0, "offline")
OnDecrReplyOne(n) == OnDecrReplyAt(n, LAMBDA k : k <= 1, "offline")
OnDecrReplyHdel(n) == OnDecrReplyAt(n, LAMBDA k : k <= 0, "hdel")

\* trackDisconnect: only a count at or below 0 goes on, to the MULTI.
OnDecrReply(n) ==
    /\ ReplyIs(n, "decr")
    /\ Resume(n)
    /\ IF Head(replyq[n]).count <= 0
       THEN Issue(n, "offline", Head(replyq[n]).sock)
       ELSE UNCHANGED cmdq
    /\ UNCHANGED <<phase, home, alive, inbox, counts, lastSeen, view, counted>>

\* trackConnect returned true: emit presence:update, online.
OnDelReply(n) ==
    /\ ReplyIs(n, "del")
    /\ Resume(n)
    /\ Issue(n, "sayOnline", Head(replyq[n]).sock)
    /\ Tell(n, UserOf[Head(replyq[n]).sock], TRUE)
    /\ UNCHANGED <<phase, home, alive, inbox, counts, lastSeen, counted>>

\* trackDisconnect returned a timestamp: emit presence:update, offline.
OnOfflineReply(n) ==
    /\ ReplyIs(n, "offline")
    /\ Resume(n)
    /\ Issue(n, "sayOffline", Head(replyq[n]).sock)
    /\ Tell(n, UserOf[Head(replyq[n]).sock], FALSE)
    /\ UNCHANGED <<phase, home, alive, inbox, counts, lastSeen, counted>>

\* The adapter hands an event of another node to the local sockets.
Receive(n) ==
    /\ inbox[n] # <<>>
    /\ inbox' = [inbox EXCEPT ![n] = Tail(@)]
    /\ Tell(n, Head(inbox[n]).user, Head(inbox[n]).online)
    /\ UNCHANGED <<phase, home, alive, cmdq, replyq, counts, lastSeen, counted>>

-----------------------------------------------------------------------------
Redis(n) == \/ ExecIncr(n) \/ ExecDecr(n) \/ ExecDel(n) \/ ExecOffline(n)
            \/ ExecPublish(n)
EventLoop(n) == \/ OnIncrReply(n) \/ OnDecrReply(n)
                \/ OnDelReply(n) \/ OnOfflineReply(n)

Next ==
    \/ \E s \in Socket : Connect(s) \/ Disconnect(s)
    \/ \E n \in Node : Redis(n) \/ EventLoop(n) \/ Receive(n) \/ Stop(n)

\* Redis and the event loops keep running; users are free to do nothing.
Fairness == \A n \in Node : /\ WF_vars(Redis(n))
                            /\ WF_vars(EventLoop(n))
                            /\ WF_vars(Receive(n))

Spec == Init /\ [][Next]_vars
FairSpec == Spec /\ Fairness

-----------------------------------------------------------------------------
(* What the counter promises.                                              *)

Queued(n, op, s) == \E i \in DOMAIN cmdq[n] : cmdq[n][i] = [op |-> op, sock |-> s]
Gone(u) == \A s \in SocketsOf(u) : phase[s] # "open"
Quiet == \A n \in Node : cmdq[n] = <<>> /\ replyq[n] = <<>> /\ inbox[n] = <<>>
OneHome(u) == \A s, t \in SocketsOf(u) : home[s] = home[t]

\* The hash never counts more sockets of a user than have been counted in and
\* not out, whatever HDEL does between (trackConnect, trackDisconnect).
CountBound ==
    \A u \in User : counts[u] <= Cardinality(counted \cap SocketsOf(u))

\* A user who reads as online has a socket that is open, or is just leaving,
\* or was lost with its node: nothing else turns the dot green.
OnlineIsBacked ==
    \A u \in User : counts[u] > 0 =>
        \E s \in SocketsOf(u) : \/ phase[s] = "open"
                                \/ Queued(home[s], "decr", s)
                                \/ home[s] \notin alive

\* HDEL can leave a later DECR below zero.  Every negative count has a cleanup
\* on its way; were one to stay, the next connection would read 0, not 1, and
\* the user's return would never be announced.
NegativeIsTransient ==
    \A u \in User : counts[u] < 0 =>
        \/ alive # Node
        \/ \E s \in SocketsOf(u), n \in Node :
             \/ Queued(n, "offline", s)
             \/ \E i \in DOMAIN replyq[n] :
                  /\ replyq[n][i].op = "decr"
                  /\ replyq[n][i].sock = s
                  /\ replyq[n][i].count <= 0

\* If all of a user's tabs reach one node, then once the system is quiet after
\* the last one left, the hash entry is gone, lastSeen is recorded and every
\* listener was last told "offline", in whatever order tabs came and went.
LeavingIsSeen ==
    \A u \in User :
        /\ Quiet /\ Gone(u) /\ OneHome(u)
        /\ \E s \in SocketsOf(u) : phase[s] = "closed"
        /\ alive = Node
        => /\ counts[u] = 0
           /\ u \in lastSeen
           /\ \A n \in Node : view[n][u] = "offline"

\* A user who stops connecting goes offline in Redis and stays so, on however
\* many nodes the sockets were, and everything in flight settles.
EventuallyOffline ==
    \A u \in User : <>[]Gone(u) => <>[](counts[u] = 0)

-----------------------------------------------------------------------------
(* What the repository says of the counter and the code does not do.       *)

\* docs/api-and-socket-contract.md:249: online is true while at least one of
\* the user's sockets is connected (read when no command is in flight).
ConnectedIsOnline ==
    \A u \in User : Quiet /\ ~Gone(u) => counts[u] > 0
=============================================================================
