------------------------------ MODULE Messages ------------------------------
(***************************************************************************)
(* Messages and their receipts: the handlers of message:send,              *)
(* message:delivered and message:read, the Message rows they create and    *)
(* update through Prisma, the events they emit to the two users' rooms,    *)
(* and what the open conversation of each tab shows.                       *)
(*                                                                         *)
(* A handler awaits each Prisma call, so any number of them interleave on  *)
(* one node and on several.  findUnique and update are two database        *)
(* statements without a transaction: what a handler read may be old when   *)
(* it writes.                                                              *)
(***************************************************************************)
EXTENDS Integers, SequencesExt

CONSTANTS
    User,
    Node,      \* backend processes
    Tab,       \* browser sessions with the conversation open, connected
    TabUser,   \* the user of each tab
    TabNode,   \* the node each tab is connected to
    Msg,       \* message:send requests, and the rows they create
    From,      \* the tab that sends each message
    To,        \* the user each message is addressed to
    Call,      \* message:delivered and message:read requests
    By,        \* the tab that makes each request
    Kind,      \* which of the two it is
    On,        \* the message it names
    Live       \* the requests that onNew makes when its tab hears the message

Kinds == {"delivered", "read"}

ASSUME TabAssumption == /\ TabUser \in [Tab -> User]
                        /\ TabNode \in [Tab -> Node]
ASSUME MsgAssumption == From \in [Msg -> Tab] /\ To \in [Msg -> User]
ASSUME CallAssumption == /\ By \in [Call -> Tab]
                         /\ Kind \in [Call -> Kinds]
                         /\ On \in [Call -> Msg]
\* A tab of the recipient asks for both receipts of every message it hears.
ASSUME LiveAssumption ==
    /\ Live \subseteq Call
    /\ \A t \in Tab, m \in Msg :
         TabUser[t] = To[m] /\ TabUser[From[m]] # To[m] =>
           \A k \in Kinds :
             \E c \in Live : By[c] = t /\ On[c] = m /\ Kind[c] = k

VARIABLES
    sendpc,   \* per message: where its message:send handler is
    stored,   \* the messages that have a row
    row,      \* deliveredAt and readAt of each row; 0 is null
    clock,    \* the last timestamp taken by new Date()
    callpc,   \* per request: whether it was emitted, where its handler is
    held,     \* per request: the receipts its handler read, then returned
    stamp,    \* per request: its new Date()
    pubq,     \* per node: events published, not yet executed by Redis
    wire,     \* per tab: events sent to the browser, not yet handled
    known,    \* per tab: the messages it shows
    shown     \* per tab: the receipts it shows for each

vars == <<sendpc, stored, row, clock, callpc, held, stamp, pubq, wire,
          known, shown>>
rows == <<stored, row, clock>>
calls == <<callpc, held, stamp>>
bus == <<pubq, wire>>
screen == <<known, shown>>

Receipts == [d : Nat, r : Nat]
Unset == [d |-> 0, r |-> 0]
Sender(m) == TabUser[From[m]]

\* copy is the user whose keypair opens the ciphertext of a message:new.
Event == [type : {"new", "status"}, to : User, msg : Msg, copy : User,
          receipts : Receipts]

SendPC == {"idle", "creating", "created", "ok", "refused", "failed"}
CallPC == {"idle", "sent", "found", "updating", "updated", "ok", "refused", "failed"}

(***************************************************************************)
(* The type of the state.                                                  *)
(***************************************************************************)
TypeOK ==
    /\ sendpc \in [Msg -> SendPC]
    /\ stored \subseteq Msg
    /\ row \in [Msg -> Receipts]
    /\ clock \in Nat
    /\ callpc \in [Call -> CallPC]
    /\ held \in [Call -> Receipts]
    /\ stamp \in [Call -> Nat]
    /\ pubq \in [Node -> Seq(Event)]
    /\ wire \in [Tab -> Seq(Event)]
    /\ known \in [Tab -> SUBSET Msg]
    /\ shown \in [Tab -> [Msg -> Receipts]]

Init ==
    /\ sendpc = [m \in Msg |-> "idle"]
    /\ stored = {}
    /\ row = [m \in Msg |-> Unset]
    /\ clock = 0
    /\ callpc = [c \in Call |-> "idle"]
    /\ held = [c \in Call |-> Unset]
    /\ stamp = [c \in Call |-> 0]
    /\ pubq = [n \in Node |-> <<>>]
    /\ wire = [t \in Tab |-> <<>>]
    /\ known = [t \in Tab |-> {}]
    /\ shown = [t \in Tab |-> [m \in Msg |-> Unset]]

-----------------------------------------------------------------------------
(* io.to(userRoom(u)).emit, through the Redis adapter.                     *)

\* Mutant: an emit to every socket instead of a room.
SendToAll(nodes, e, w) ==
    [t \in Tab |-> IF TabNode[t] \in nodes THEN Append(w[t], e) ELSE w[t]]

\* The sockets of user e.to at one of these nodes are sent e.
SendTo(nodes, e, w) ==
    [t \in Tab |-> IF TabNode[t] \in nodes /\ TabUser[t] = e.to
                   THEN Append(w[t], e) ELSE w[t]]

\* Two emits in a row on node n: published, and handed to local sockets.
Emit2(n, e1, e2) ==
    /\ pubq' = [pubq EXCEPT ![n] = Append(Append(@, e1), e2)]
    /\ wire' = SendTo({n}, e2, SendTo({n}, e1, wire))

\* Redis executes a PUBLISH: every other node hands the event on.
Publish(n) ==
    /\ pubq[n] # <<>>
    /\ pubq' = [pubq EXCEPT ![n] = Tail(@)]
    /\ wire' = SendTo(Node \ {n}, Head(pubq[n]), wire)
    /\ UNCHANGED <<sendpc, rows, calls, screen>>

-----------------------------------------------------------------------------
(* message:send                                                            *)

\* Mutant: persistMessage is not awaited.
SendUnawaited(m) ==
    /\ sendpc[m] = "idle"
    /\ \E valid \in BOOLEAN :
         sendpc' = [sendpc EXCEPT ![m] =
                      IF valid /\ To[m] # Sender(m) THEN "created" ELSE "refused"]
    /\ UNCHANGED <<rows, calls, bus, screen>>

\* The payload is validated and a message to oneself refused; then
\* persistMessage is awaited.
Send(m) ==
    /\ sendpc[m] = "idle"
    /\ \E valid \in BOOLEAN :
         sendpc' = [sendpc EXCEPT ![m] =
                      IF valid /\ To[m] # Sender(m) THEN "creating" ELSE "refused"]
    /\ UNCHANGED <<rows, calls, bus, screen>>

\* PostgreSQL commits the new row; both receipts are null.
Create(m) ==
    /\ sendpc[m] = "creating"
    /\ sendpc' = [sendpc EXCEPT ![m] = "created"]
    /\ stored' = stored \cup {m}
    /\ UNCHANGED <<row, clock, calls, bus, screen>>

\* Mutant: each room gets the other user's copy.
AnnounceSwapped(m) ==
    /\ sendpc[m] = "created"
    /\ sendpc' = [sendpc EXCEPT ![m] = "ok"]
    /\ LET new(u, v) == [type |-> "new", to |-> u, msg |-> m, copy |-> v,
                         receipts |-> Unset]
       IN  Emit2(TabNode[From[m]], new(To[m], Sender(m)), new(Sender(m), To[m]))
    /\ UNCHANGED <<rows, calls, screen>>

\* The handler resumes: message:new to both rooms, each with the copy its
\* user can open and the receipts as created, and the ack.
Announce(m) ==
    /\ sendpc[m] = "created"
    /\ sendpc' = [sendpc EXCEPT ![m] = "ok"]
    /\ LET new(u) == [type |-> "new", to |-> u, msg |-> m, copy |-> u,
                      receipts |-> Unset]
       IN  Emit2(TabNode[From[m]], new(To[m]), new(Sender(m)))
    /\ UNCHANGED <<rows, calls, screen>>

\* The create is rejected, or its answer is lost after the commit: the catch
\* acks persist_failed and emits nothing.
FailSend(m) ==
    /\ sendpc[m] \in {"creating", "created"}
    /\ sendpc' = [sendpc EXCEPT ![m] = "failed"]
    /\ UNCHANGED <<rows, calls, bus, screen>>

-----------------------------------------------------------------------------
(* message:delivered and message:read, with markDelivered and markRead     *)

Goto(c, pc) == callpc' = [callpc EXCEPT ![c] = pc]

\* A client emits a request of its own accord: ChatView when a history it
\* loaded shows the message unread, another client at any time.
Ask(c) ==
    /\ c \notin Live /\ callpc[c] = "idle"
    /\ Goto(c, "sent")
    /\ UNCHANGED <<sendpc, rows, held, stamp, bus, screen>>

\* Mutant: any user may ask.
FindAnyone(c) ==
    /\ callpc[c] = "sent"
    /\ \E valid \in BOOLEAN :
         /\ c \in Live => valid
         /\ IF valid /\ On[c] \in stored
            THEN Goto(c, "found") /\ held' = [held EXCEPT ![c] = row[On[c]]]
            ELSE Goto(c, "refused") /\ UNCHANGED held
    /\ UNCHANGED <<sendpc, rows, stamp, bus, screen>>

\* findUnique; a message that is missing or not addressed to the caller, like
\* an invalid payload, is refused.  Requests of one socket are begun in their
\* order, their statements run on any connection of the pool in any.
Find(c) ==
    /\ callpc[c] = "sent"
    /\ \E valid \in BOOLEAN :
         /\ c \in Live => valid
         /\ IF valid /\ On[c] \in stored /\ To[On[c]] = TabUser[By[c]]
            THEN Goto(c, "found") /\ held' = [held EXCEPT ![c] = row[On[c]]]
            ELSE Goto(c, "refused") /\ UNCHANGED held
    /\ UNCHANGED <<sendpc, rows, stamp, bus, screen>>

AlreadySet(c) == IF Kind[c] = "delivered" THEN held[c].d # 0 ELSE held[c].r # 0

\* Mutant: the handler answers what it is about to write, and does not wait.
DecideUnawaited(c) ==
    /\ callpc[c] = "found"
    /\ Goto(c, "updated")
    /\ IF AlreadySet(c)
       THEN UNCHANGED <<clock, stamp, held>>
       ELSE /\ clock' = clock + 1
            /\ stamp' = [stamp EXCEPT ![c] = clock + 1]
            /\ held' = [held EXCEPT ![c] = [d |-> clock + 1, r |-> @.r]]
    /\ UNCHANGED <<sendpc, stored, row, bus, screen>>

\* The handler resumes: a receipt it read as set is returned as it is;
\* otherwise it takes the time and awaits the update.
Decide(c) ==
    /\ callpc[c] = "found"
    /\ IF AlreadySet(c)
       THEN Goto(c, "updated") /\ UNCHANGED <<clock, stamp>>
       ELSE /\ Goto(c, "updating")
            /\ clock' = clock + 1
            /\ stamp' = [stamp EXCEPT ![c] = clock + 1]
    /\ UNCHANGED <<sendpc, stored, row, held, bus, screen>>

\* Mutants: markRead leaves deliveredAt alone; the update selects one field.
UpdatedReadOnly(c) ==
    IF Kind[c] = "delivered"
    THEN [row[On[c]] EXCEPT !.d = stamp[c]]
    ELSE [row[On[c]] EXCEPT !.r = stamp[c]]
UpdatedOneField(c) ==
    IF Kind[c] = "delivered" THEN [d |-> stamp[c]] ELSE [r |-> stamp[c]]

\* What the update of this handler leaves in the row.
Updated(c) ==
    IF Kind[c] = "delivered"
    THEN [row[On[c]] EXCEPT !.d = stamp[c]]
    ELSE [d |-> IF held[c].d # 0 THEN held[c].d ELSE stamp[c], r |-> stamp[c]]

\* PostgreSQL commits the update and returns the row.
Commit(c) ==
    /\ callpc[c] = "updating"
    /\ Goto(c, "updated")
    /\ row' = [row EXCEPT ![On[c]] = Updated(c)]
    /\ held' = [held EXCEPT ![c] = Updated(c)]
    /\ UNCHANGED <<sendpc, stored, clock, stamp, bus, screen>>

\* Mutant: a request that changed nothing is not answered.
FinishChanged(c) ==
    /\ callpc[c] = "updated" /\ stamp[c] # 0
    /\ Goto(c, "ok")
    /\ LET status(u) == [type |-> "status", to |-> u, msg |-> On[c], copy |-> u,
                         receipts |-> held[c]]
       IN  Emit2(TabNode[By[c]], status(Sender(On[c])), status(To[On[c]]))
    /\ UNCHANGED <<sendpc, rows, held, stamp, screen>>

\* emitStatus to both ends of the conversation, then the ack.
Finish(c) ==
    /\ callpc[c] = "updated"
    /\ Goto(c, "ok")
    /\ LET status(u) == [type |-> "status", to |-> u, msg |-> On[c], copy |-> u,
                         receipts |-> held[c]]
       IN  Emit2(TabNode[By[c]], status(Sender(On[c])), status(To[On[c]]))
    /\ UNCHANGED <<sendpc, rows, held, stamp, screen>>

\* A statement is rejected, or an answer lost: update_failed, no event.
FailCall(c) ==
    /\ \/ callpc[c] \in {"found", "updating"}
       \/ callpc[c] = "updated" /\ stamp[c] # 0
    /\ Goto(c, "failed")
    /\ UNCHANGED <<sendpc, rows, held, stamp, bus, screen>>

-----------------------------------------------------------------------------
(* The tab handles the oldest event its socket received.                   *)

\* The receipts onNew asks for: both, if the tab is the recipient's.
Asks(t, m) ==
    {c \in Live : /\ callpc[c] = "idle" /\ By[c] = t /\ On[c] = m
                  /\ TabUser[t] = To[m]}


\* An event whose ciphertext this user cannot open is dropped; another is
\* shown, and the recipient's tab emits message:delivered and message:read.
OnNew(t, e) ==
    IF e.copy = TabUser[t]
    THEN /\ known' = [known EXCEPT ![t] = @ \cup {e.msg}]
         /\ shown' = [shown EXCEPT ![t][e.msg] = e.receipts]
         /\ callpc' = [c \in Call |-> IF c \in Asks(t, e.msg) THEN "sent"
                                      ELSE callpc[c]]
    ELSE UNCHANGED <<callpc, screen>>

\* The message is patched if it is shown; the event is lost otherwise.
OnStatus(t, e) ==
    /\ shown' = IF e.msg \in known[t]
                THEN [shown EXCEPT ![t][e.msg] = e.receipts] ELSE shown
    /\ UNCHANGED <<callpc, known>>

Hear(t) ==
    /\ wire[t] # <<>>
    /\ wire' = [wire EXCEPT ![t] = Tail(@)]
    /\ LET e == Head(wire[t])
       IN  IF e.type = "new" THEN OnNew(t, e) ELSE OnStatus(t, e)
    /\ UNCHANGED <<sendpc, rows, held, stamp, pubq>>

-----------------------------------------------------------------------------
SendStep(m) == Create(m) \/ Announce(m) \/ FailSend(m)
CallStep(c) == Find(c) \/ Decide(c) \/ Commit(c) \/ Finish(c) \/ FailCall(c)

Next ==
    \/ \E m \in Msg : Send(m) \/ SendStep(m)
    \/ \E c \in Call : Ask(c) \/ CallStep(c)
    \/ \E n \in Node : Publish(n)
    \/ \E t \in Tab : Hear(t)

\* A handler that has begun goes on, a request that was emitted is handled, and
\* Redis and the browsers go on; a client need not send anything unasked.
Fairness ==
    /\ \A m \in Msg : WF_vars(SendStep(m))
    /\ \A c \in Call : WF_vars(CallStep(c))
    /\ \A n \in Node : WF_vars(Publish(n))
    /\ \A t \in Tab : WF_vars(Hear(t))

Spec == Init /\ [][Next]_vars
FairSpec == Spec /\ Fairness

-----------------------------------------------------------------------------
(* What the receipts promise.                                              *)

InFlight == (UNION {ToSet(pubq[n]) : n \in Node})
              \cup (UNION {ToSet(wire[t]) : t \in Tab})

\* A read receipt implies delivery: in no row, event or screen is a message
\* read and not delivered, although markRead writes deliveredAt from what it
\* read before and markDelivered knows nothing of readAt.
ReadImpliesDelivered ==
    LET ok(rc) == rc.r # 0 => rc.d # 0
    IN  /\ \A m \in Msg : ok(row[m])
        /\ \A e \in InFlight : ok(e.receipts)
        /\ \A t \in Tab, m \in Msg : ok(shown[t][m])

\* Nobody is ever told more than the database holds: a receipt in an event or
\* on a screen is set in the row too, in whatever order handlers and events
\* overtook each other.
StatusNotAhead ==
    LET within(rc, m) == /\ rc.d # 0 => row[m].d # 0
                         /\ rc.r # 0 => row[m].r # 0
    IN  /\ \A e \in InFlight : e.msg \in stored /\ within(e.receipts, e.msg)
        /\ \A t \in Tab, m \in Msg : within(shown[t][m], m)

\* An ack ok is about something durable: the message has its row, the receipt
\* asked for is set in it, at every later moment.
AckIsDurable ==
    /\ \A m \in Msg : sendpc[m] = "ok" => m \in stored
    /\ \A c \in Call : callpc[c] = "ok" =>
         /\ On[c] \in stored
         /\ row[On[c]].d # 0
         /\ Kind[c] = "read" => row[On[c]].r # 0

\* Neither a message nor its receipts reach anyone but its two users: rooms
\* are by user, on the node of the emit and through the adapter.
OnlyParticipants ==
    \A t \in Tab :
        /\ \A e \in ToSet(wire[t]) : TabUser[t] \in {Sender(e.msg), To[e.msg]}
        /\ \A m \in known[t] : TabUser[t] \in {Sender(m), To[m]}

\* What the screen calls a receipt.
Label(rc) == IF rc.r # 0 THEN "read" ELSE IF rc.d # 0 THEN "delivered" ELSE "sent"

\* Nothing is under way: no event, no handler, no request emitted.
Settled == /\ InFlight = {}
           /\ \A c \in Call : callpc[c] \notin {"sent", "found", "updating", "updated"}
           /\ \A m \in Msg : sendpc[m] \notin {"creating", "created"}


\* Each message goes through the life the documentation gives it, and only at
\* its recipient's request.
Stage == [m \in Msg |-> IF m \notin stored THEN "none" ELSE Label(row[m])]
Asked == [m \in Msg |->
            {<<TabUser[By[c]], Kind[c]>> : c \in
               {x \in Call : On[x] = m /\ callpc[x] \notin {"idle", "sent", "refused"}}}]
Lifecycle == INSTANCE ReceiptLifecycle WITH stage <- Stage, asked <- Asked
LifecycleSpec == Lifecycle!Spec

\* Every request the server begins to handle is answered.
Answered ==
    /\ \A m \in Msg : sendpc[m] # "idle" ~> sendpc[m] \in {"ok", "refused", "failed"}
    /\ \A c \in Call : callpc[c] # "idle" ~> callpc[c] \in {"ok", "refused", "failed"}

\* A message acked to its sender reaches every tab of both users, on any node,
\* in the copy they can open.
AckedIsShown ==
    \A m \in Msg, t \in Tab :
        sendpc[m] = "ok" /\ TabUser[t] \in {Sender(m), To[m]} ~> m \in known[t]

-----------------------------------------------------------------------------
(* What the comments say of the code and it does not do.                   *)

\* messages.service.ts:60-61 and 94: a receipt that is set is preserved.
TimestampsPreserved ==
    [][\A m \in Msg : /\ row[m].d # 0 => row'[m].d = row[m].d
                      /\ row[m].r # 0 => row'[m].r = row[m].r]_vars

\* server.ts:250-252: the sender sees the transition and the recipient's other
\* sessions stay in sync; so once nothing is under way and nothing failed, a
\* tab that shows a message calls it what its row is.
SessionsInSync ==
    Settled /\ (\A c \in Call : callpc[c] # "failed") =>
      \A t \in Tab : \A m \in known[t] : Label(shown[t][m]) = Label(row[m])
=============================================================================
