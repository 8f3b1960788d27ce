---------------------------- MODULE Conversation ----------------------------
(***************************************************************************)
(* The conversation one tab shows.  Opening it asks for its history; while *)
(* the request is under way, and after, message:new events append to what  *)
(* is on the screen, and the answer replaces it.  The list is sorted and   *)
(* stripped of duplicates each time it is rendered.                        *)
(*                                                                         *)
(* The effect that loads the history depends on an object that App makes   *)
(* anew in every render, so a presence:update, or any other change of      *)
(* App's state, resets the conversation as selecting another one does.     *)
(***************************************************************************)
EXTENDS Integers, FiniteSets, SequencesExt

CONSTANTS
    Peer,
    Msg,
    PeerOf,    \* the other user of each message
    Mine,      \* the messages of this tab's user; the others are to that user
    Readable,  \* the messages this device has the key of
    Old,       \* the messages from before the tab was opened
    Time,      \* bound: values of createdAt
    Limit,     \* the rows getConversation returns at most
    MaxReqs,   \* bound: history requests under way
    None

ASSUME MsgAssumption == /\ PeerOf \in [Msg -> Peer]
                        /\ Mine \subseteq Msg /\ Readable \subseteq Msg
                        /\ Old \subseteq Msg /\ IsFiniteSet(Msg)
ASSUME NumberAssumption == /\ Time \subseteq Nat \ {0}
                           /\ Limit \in Nat /\ MaxReqs \in Nat
ASSUME NoneAssumption == None \notin Peer

VARIABLES
    at,         \* createdAt of each row; 0 before it is stored
    announced,  \* messages whose message:new was emitted
    readRows,   \* rows with a readAt
    online,     \* whether the tab's socket is connected
    wire,       \* message:new events sent to the tab, not yet handled
    open,       \* the selected peer, or None
    reqs,       \* history requests without an outcome, oldest first
    list,       \* the state variable messages
    loading,
    asked,      \* history: messages whose message:read the tab has emitted
    failed,     \* history: the last history request failed
    lost        \* history: messages the tab could not hear, or had and dropped

db == <<at, announced, readRows>>
net == <<online, wire>>
view == <<open, reqs, list, loading, asked, failed>>
vars == <<db, net, view, lost>>

Request == [peer : Peer, live : BOOLEAN, answered : BOOLEAN,
            rows : Seq(Msg), unread : SUBSET Msg]

TypeOK ==
    /\ at \in [Msg -> Time \cup {0}]
    /\ announced \subseteq Msg /\ readRows \subseteq Msg \ Mine
    /\ online \in BOOLEAN /\ wire \subseteq Msg
    /\ open \in Peer \cup {None}
    /\ reqs \in Seq(Request) /\ Len(reqs) <= MaxReqs
    /\ list \in Seq(Readable)
    /\ loading \in BOOLEAN /\ failed \in BOOLEAN
    /\ asked \subseteq Msg \ Mine
    /\ lost \subseteq Msg

Init ==
    /\ at \in [Msg -> Time \cup {0}] /\ \A m \in Msg : at[m] # 0 <=> m \in Old
    /\ announced = Old /\ readRows = {}
    /\ online = TRUE /\ wire = {}
    /\ open = None /\ reqs = <<>> /\ list = <<>> /\ loading = TRUE
    /\ asked = {} /\ failed = FALSE /\ lost = {}

-----------------------------------------------------------------------------
(* What is rendered: the list sorted by createdAt, without equal neighbours.*)

\* Mutant: in the order of arrival.
AsArrived(s) == s

\* The elements of s at the places in I, in the order R of the places.
Arrange(s, I, R) ==
    LET Before(i) == {j \in I : <<j, i>> \in R}
    IN  [k \in 1..Cardinality(I) |-> s[CHOOSE i \in I : Cardinality(Before(i)) = k - 1]]

\* A filter: the elements at the places in I, in the order they have.
InOrder(I) == {p \in I \X I : p[1] < p[2]}
Kept(s, I) == Arrange(s, I, InOrder(I))

\* The sort of JavaScript is stable: equals stay in the order of arrival.
TimeOrder(s) ==
    {p \in (DOMAIN s) \X (DOMAIN s) :
        \/ at[s[p[1]]] < at[s[p[2]]]
        \/ at[s[p[1]]] = at[s[p[2]]] /\ p[1] < p[2]}
ByTime(s) == Arrange(s, DOMAIN s, TimeOrder(s))

\* The filter compares with the neighbour in the array before filtering.
Thread(s) ==
    LET t == ByTime(s)
    IN  Kept(t, {i \in DOMAIN t : i = 1 \/ t[i] # t[i - 1]})

Shown == ToSet(Thread(list))

-----------------------------------------------------------------------------
(* The server: rows, their announcements, receipts.                        *)

Stored(p) == {m \in Msg : PeerOf[m] = p /\ at[m] # 0}

\* createdAt is the clock of one of several nodes: it need not grow, and two
\* messages may share one.
Store(m) ==
    /\ at[m] = 0
    /\ \E t \in Time : at' = [at EXCEPT ![m] = t]
    /\ UNCHANGED <<announced, readRows, net, view, lost>>

\* message:new to the sender's and the recipient's rooms.
Announce(m) ==
    /\ at[m] # 0 /\ m \notin announced
    /\ announced' = announced \cup {m}
    /\ IF online
       THEN wire' = wire \cup {m} /\ UNCHANGED lost
       ELSE lost' = lost \cup {m} /\ UNCHANGED wire
    /\ UNCHANGED <<at, readRows, online, view>>

\* markRead, for this tab or another one of the same user.
MarkRead(m) ==
    /\ at[m] # 0 /\ m \notin Mine \cup readRows
    /\ readRows' = readRows \cup {m}
    /\ UNCHANGED <<at, announced, net, view, lost>>

\* getConversation: the oldest Limit rows; rows of one createdAt come in any
\* order.
Conversation(p) ==
    {SubSeq(s, 1, IF Len(s) < Limit THEN Len(s) ELSE Limit) :
        s \in {q \in SetToSeqs(Stored(p)) :
                  \A i, j \in DOMAIN q : i < j => at[q[i]] <= at[q[j]]}}

Query(i) ==
    /\ ~reqs[i].answered
    /\ \E rows \in Conversation(reqs[i].peer) :
         reqs' = [reqs EXCEPT ![i].answered = TRUE, ![i].rows = rows,
                              ![i].unread = ToSet(rows) \ readRows]
    /\ UNCHANGED <<db, net, open, list, loading, asked, failed, lost>>

-----------------------------------------------------------------------------
(* The effects of ChatView.                                                *)

\* What the cleanup sets: the outcome of the request will be ignored.
Cancelled == [i \in DOMAIN reqs |-> [reqs[i] EXCEPT !.live = FALSE]]

\* The cleanup of the last run of the effect, and its next run.
Reset(p) ==
    /\ Len(reqs) < MaxReqs
    /\ list' = <<>> /\ loading' = TRUE /\ failed' = FALSE
    /\ reqs' = Append(Cancelled, [peer |-> p, live |-> TRUE, answered |-> FALSE,
                                  rows |-> <<>>, unread |-> {}])

\* App renders the new peer, and ChatView's passive effect runs; the frame in
\* between, with the old list under the new peer, is left out.
Select(p) ==
    /\ p # open
    /\ open' = p
    /\ Reset(p)
    /\ UNCHANGED <<db, net, asked, lost>>

\* App renders again: me is another object, and a dependency of the effect.
Rerender ==
    /\ open # None
    /\ Reset(open)
    /\ UNCHANGED <<db, net, open, asked, lost>>

Done(i) == reqs' = RemoveAt(reqs, i)

\* decryptStored, and the filter that drops the rows it cannot open.
Decrypted(rows) == Kept(rows, {i \in DOMAIN rows : rows[i] \in Readable})

\* The rows take the place of the list, whatever was heard meanwhile.
Replace(rows) ==
    /\ list' = Decrypted(rows)
    /\ lost' = (lost \cup ToSet(list)) \ ToSet(rows)

\* Mutants: the answer is taken although it was cancelled; no receipts are sent.
LoadAnyway(i) ==
    /\ reqs[i].answered /\ Done(i)
    /\ Replace(reqs[i].rows)
    /\ asked' = asked \cup ((ToSet(list') \cap reqs[i].unread) \ Mine)
    /\ loading' = FALSE
    /\ UNCHANGED <<db, net, open, failed>>
LoadUnread(i) ==
    /\ reqs[i].answered /\ Done(i)
    /\ IF reqs[i].live
       THEN Replace(reqs[i].rows) /\ loading' = FALSE
       ELSE UNCHANGED <<list, loading, lost>>
    /\ UNCHANGED <<db, net, open, asked, failed>>

\* An answer that is still wanted is shown, and its messages to this user that
\* were unread are reported read.
Load(i) ==
    /\ reqs[i].answered /\ Done(i)
    /\ IF reqs[i].live
       THEN /\ Replace(reqs[i].rows)
            /\ asked' = asked \cup ((ToSet(list') \cap reqs[i].unread) \ Mine)
            /\ loading' = FALSE
       ELSE UNCHANGED <<list, asked, loading, lost>>
    /\ UNCHANGED <<db, net, open, failed>>

\* Mutant: the spinner is hidden by an answer only.
LoadFailsLoading(i) ==
    /\ Done(i)
    /\ failed' = (failed \/ reqs[i].live)
    /\ UNCHANGED <<db, net, open, list, loading, asked, lost>>

LoadFails(i) ==
    /\ Done(i)
    /\ IF reqs[i].live THEN loading' = FALSE /\ failed' = TRUE
                       ELSE UNCHANGED <<loading, failed>>
    /\ UNCHANGED <<db, net, open, list, asked, lost>>

\* Mutants: the peer's messages only; the receipt goes out before the test; own
\* messages are reported read as well.
OnNewTheirs(m) ==
    IF PeerOf[m] = open /\ m \in Readable \ Mine
    THEN /\ list' = Append(list, m)
         /\ asked' = asked \cup {m}
    ELSE UNCHANGED <<list, asked>>
OnNewEager(m) ==
    /\ asked' = asked \cup ({m} \ Mine)
    /\ list' = IF PeerOf[m] = open /\ m \in Readable THEN Append(list, m) ELSE list

OnNewOwn(m) ==
    IF PeerOf[m] = open /\ m \in Readable
    THEN list' = Append(list, m) /\ asked' = asked \cup {m}
    ELSE UNCHANGED <<list, asked>>

\* onNew: a message of the open conversation that opens with this device's key
\* is shown, and reported read if it is the peer's.
OnNew(m) ==
    IF PeerOf[m] = open /\ m \in Readable
    THEN /\ list' = Append(list, m)
         /\ asked' = asked \cup ({m} \ Mine)
    ELSE UNCHANGED <<list, asked>>

Hear(m) ==
    /\ m \in wire
    /\ wire' = wire \ {m}
    /\ OnNew(m)
    /\ UNCHANGED <<db, online, open, reqs, loading, failed, lost>>

-----------------------------------------------------------------------------
(* The connection and the session.                                         *)

\* What is on its way to a socket that closes is lost.
Unplug == online' = FALSE /\ wire' = {} /\ lost' = lost \cup wire

Drop == online /\ Unplug /\ UNCHANGED <<db, view>>

\* The socket is the same object after a reconnection: no effect runs again.
Connect == ~online /\ online' = TRUE /\ UNCHANGED <<db, wire, view, lost>>

\* ChatView unmounts: its cleanup runs and its state goes.
Logout ==
    /\ open # None
    /\ Unplug
    /\ open' = None /\ list' = <<>> /\ loading' = TRUE /\ failed' = FALSE
    /\ reqs' = Cancelled
    /\ UNCHANGED <<db, asked>>

-----------------------------------------------------------------------------
Server == \E m \in Msg : Store(m) \/ Announce(m) \/ MarkRead(m)
Answer == \E i \in DOMAIN reqs : Query(i) \/ Load(i) \/ LoadFails(i)
Resets == Rerender \/ \E p \in Peer : Select(p)

Next ==
    \/ Server \/ Answer \/ Resets
    \/ \E m \in Msg : Hear(m)
    \/ Drop \/ Connect \/ Logout

\* A request is answered or fails, and a connected browser handles its events.
Spec == Init /\ [][Next]_vars
FairSpec == Spec /\ WF_vars(Answer) /\ (\A m \in Msg : WF_vars(Hear(m)))

-----------------------------------------------------------------------------
\* No message of another conversation is ever on the screen, however late the
\* answer to a request for it comes: the effect's cancelled flag.
OnlyThisConversation == \A m \in ToSet(list) : PeerOf[m] = open

\* A message that came from history and live is shown once, unless another one
\* of the conversation has its createdAt.
OnceUnlessTied ==
    LET t == Thread(list) IN
    \A i, j \in DOMAIN t : i # j /\ t[i] = t[j] =>
        \E k \in DOMAIN t : t[k] # t[i] /\ at[t[k]] = at[t[i]]

\* The peer's messages that are shown have been reported read, by this tab or by
\* another: from history on the answer, live at once.
ShownIsRead == Shown \ Mine \subseteq asked \cup readRows

\* A message is reported read by a tab only at the moment it shows it.
ReadsAreShown == [][asked' \ asked \subseteq ToSet(list')]_vars

\* A conversation that does not load and did not fail to shows every announced
\* message it can open: but for those on the way, those beyond the limit, and
\* those the tab did not hear or had on the screen when the answer came.
Complete ==
    ~loading /\ ~failed =>
        \A m \in announced \cap Readable :
            \/ PeerOf[m] # open
            \/ m \in Shown \cup wire \cup lost
            \/ Cardinality({n \in Stored(open) : at[n] <= at[m]}) > Limit

\* If the conversation is no longer reset, it stops loading.
LoadingEnds == <>[][~Resets /\ ~Logout]_vars => <>[](open # None => ~loading)

\* The comment on the effect, "Reset when the active recipient changes": once a
\* conversation has loaded, nothing on the screen goes while it stays open.
ResetOnlyOnChange ==
    [][~loading /\ open' = open => ToSet(list) \subseteq ToSet(list')]_vars
=============================================================================
