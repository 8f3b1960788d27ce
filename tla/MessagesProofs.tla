--------------------------- MODULE MessagesProofs ---------------------------
(* Theorems about Messages, for any users, nodes, tabs and requests. *)
EXTENDS Messages, TLAPS, QueueLemmas

-----------------------------------------------------------------------------
(* Type correctness.                                                       *)

LEMMA RequestTypes ==
    /\ \A m \in Msg : /\ Sender(m) \in User /\ To[m] \in User
                      /\ From[m] \in Tab /\ TabNode[From[m]] \in Node
    /\ \A c \in Call : /\ On[c] \in Msg /\ Kind[c] \in Kinds /\ By[c] \in Tab
                       /\ TabNode[By[c]] \in Node
    /\ Unset \in Receipts
  BY TabAssumption, MsgAssumption, CallAssumption DEF Sender, Unset, Receipts

LEMMA EventType ==
    ASSUME NEW type \in {"new", "status"}, NEW u \in User, NEW m \in Msg,
           NEW rc \in Receipts
    PROVE  [type |-> type, to |-> u, msg |-> m, copy |-> u, receipts |-> rc]
             \in Event
  BY DEF Event

LEMMA SendToType ==
    ASSUME NEW e \in Event, NEW w \in [Tab -> Seq(Event)], NEW nodes
    PROVE  SendTo(nodes, e, w) \in [Tab -> Seq(Event)]
  <1>1. \A t \in Tab : Append(w[t], e) \in Seq(Event)
    BY QueueAppend
  <1> QED
    BY <1>1 DEF SendTo

LEMMA Emit2Type ==
    ASSUME TypeOK, NEW n \in Node, NEW e1 \in Event, NEW e2 \in Event,
           Emit2(n, e1, e2)
    PROVE  pubq' \in [Node -> Seq(Event)] /\ wire' \in [Tab -> Seq(Event)]
  <1>1. Append(Append(pubq[n], e1), e2) \in Seq(Event)
    BY QueueAppend DEF TypeOK
  <1>2. wire' \in [Tab -> Seq(Event)]
    BY SendToType DEF Emit2, TypeOK
  <1> QED
    BY <1>1, <1>2 DEF Emit2, TypeOK

LEMMA UpdatedType ==
    ASSUME TypeOK, NEW c \in Call
    PROVE  Updated(c) \in Receipts
  BY RequestTypes DEF TypeOK, Updated, Receipts

LEMMA InitType == Init => TypeOK
  BY RequestTypes, EmptySeq DEF Init, TypeOK, SendPC, CallPC

\* What the browser does with an event to the requests: some are emitted.
LEMMA HearCalls ==
    ASSUME TypeOK, NEW t \in Tab, Hear(t)
    PROVE  /\ callpc' \in [Call -> CallPC]
           /\ \A c \in Call : \/ callpc'[c] = callpc[c]
                              \/ callpc[c] = "idle" /\ callpc'[c] = "sent"
           /\ UNCHANGED <<held, stamp>>
  <1>1. UNCHANGED <<held, stamp>>
    BY DEF Hear
  <1>2. \/ callpc' = callpc
        \/ callpc' = [c \in Call |-> IF c \in Asks(t, Head(wire[t]).msg)
                                    THEN "sent" ELSE callpc[c]]
    BY DEF Hear, OnNew, OnStatus
  <1>3. \A c \in Asks(t, Head(wire[t]).msg) : callpc[c] = "idle"
    BY DEF Asks
  <1> QED
    BY <1>1, <1>2, <1>3 DEF TypeOK, CallPC

LEMMA StepType == TypeOK /\ [Next]_vars => TypeOK'
  <1> SUFFICES ASSUME TypeOK, [Next]_vars PROVE TypeOK'
    OBVIOUS
  <1> USE DEF rows, calls, bus, screen
  <1>1. ASSUME NEW m \in Msg, Send(m) PROVE TypeOK'
    BY <1>1 DEF Send, TypeOK, SendPC
  <1>2. ASSUME NEW m \in Msg, Create(m) PROVE TypeOK'
    BY <1>2 DEF Create, TypeOK, SendPC
  <1>3. ASSUME NEW m \in Msg, Announce(m) PROVE TypeOK'
    <2> DEFINE new(u) == [type |-> "new", to |-> u, msg |-> m, copy |-> u,
                          receipts |-> Unset]
    <2>1. new(To[m]) \in Event /\ new(Sender(m)) \in Event
      BY RequestTypes, EventType
    <2>2. Emit2(TabNode[From[m]], new(To[m]), new(Sender(m)))
      BY <1>3 DEF Announce
    <2> HIDE DEF new
    <2>3. pubq' \in [Node -> Seq(Event)] /\ wire' \in [Tab -> Seq(Event)]
      BY <2>1, <2>2, Emit2Type, RequestTypes
    <2> QED
      BY <1>3, <2>3 DEF Announce, TypeOK, SendPC
  <1>4. ASSUME NEW m \in Msg, FailSend(m) PROVE TypeOK'
    BY <1>4 DEF FailSend, TypeOK, SendPC
  <1>5. ASSUME NEW c \in Call, Find(c) PROVE TypeOK'
    <2>1. row[On[c]] \in Receipts
      BY RequestTypes DEF TypeOK
    <2> QED
      BY <1>5, <2>1 DEF Find, Goto, TypeOK, CallPC
  <1>13. ASSUME NEW c \in Call, Ask(c) PROVE TypeOK'
    BY <1>13 DEF Ask, Goto, TypeOK, CallPC
  <1>6. ASSUME NEW c \in Call, Decide(c) PROVE TypeOK'
    <2>1. clock + 1 \in Nat
      BY DEF TypeOK
    <2>2. callpc' \in [Call -> CallPC]
      BY <1>6 DEF Decide, Goto, TypeOK, CallPC
    <2>3. clock' \in Nat /\ stamp' \in [Call -> Nat]
      BY <1>6, <2>1 DEF Decide, TypeOK
    <2> QED
      BY <1>6, <2>2, <2>3 DEF Decide, TypeOK
  <1>7. ASSUME NEW c \in Call, Commit(c) PROVE TypeOK'
    <2>1. Updated(c) \in Receipts /\ On[c] \in Msg
      BY UpdatedType, RequestTypes
    <2> QED
      BY <1>7, <2>1 DEF Commit, Goto, TypeOK, CallPC
  <1>8. ASSUME NEW c \in Call, Finish(c) PROVE TypeOK'
    <2> DEFINE status(u) == [type |-> "status", to |-> u, msg |-> On[c],
                             copy |-> u, receipts |-> held[c]]
    <2>1. status(To[On[c]]) \in Event /\ status(Sender(On[c])) \in Event
      BY RequestTypes, EventType DEF TypeOK
    <2>2. Emit2(TabNode[By[c]], status(Sender(On[c])), status(To[On[c]]))
      BY <1>8 DEF Finish
    <2> HIDE DEF status
    <2>3. pubq' \in [Node -> Seq(Event)] /\ wire' \in [Tab -> Seq(Event)]
      BY <2>1, <2>2, Emit2Type, RequestTypes
    <2> QED
      BY <1>8, <2>3 DEF Finish, Goto, TypeOK, CallPC
  <1>9. ASSUME NEW c \in Call, FailCall(c) PROVE TypeOK'
    BY <1>9 DEF FailCall, Goto, TypeOK, CallPC
  <1>10. ASSUME NEW n \in Node, Publish(n) PROVE TypeOK'
    <2>1. Head(pubq[n]) \in Event /\ Tail(pubq[n]) \in Seq(Event)
      BY <1>10, QueueTail DEF Publish, TypeOK
    <2>2. wire' \in [Tab -> Seq(Event)]
      BY <1>10, <2>1, SendToType DEF Publish, TypeOK
    <2> QED
      BY <1>10, <2>1, <2>2 DEF Publish, TypeOK
  <1>11. ASSUME NEW t \in Tab, Hear(t) PROVE TypeOK'
    <2>1. Head(wire[t]) \in Event /\ Tail(wire[t]) \in Seq(Event)
      BY <1>11, QueueTail DEF Hear, TypeOK
    <2>2. Head(wire[t]).msg \in Msg /\ Head(wire[t]).receipts \in Receipts
      BY <2>1 DEF Event
    <2>3. /\ \/ known' = known
             \/ known' = [known EXCEPT ![t] = @ \cup {Head(wire[t]).msg}]
          /\ \/ shown' = shown
             \/ shown' = [shown EXCEPT ![t][Head(wire[t]).msg] = Head(wire[t]).receipts]
      BY <1>11 DEF Hear, OnNew, OnStatus
    <2>8. callpc' \in [Call -> CallPC]
      BY <1>11, HearCalls DEF TypeOK, CallPC
    <2>4. known[t] \cup {Head(wire[t]).msg} \in SUBSET Msg
      BY <2>2 DEF TypeOK
    <2>5. known' \in [Tab -> SUBSET Msg]
      BY <2>3, <2>4 DEF TypeOK
    <2>6. [shown[t] EXCEPT ![Head(wire[t]).msg] = Head(wire[t]).receipts]
            \in [Msg -> Receipts]
      BY <2>2 DEF TypeOK
    <2>7. shown' \in [Tab -> [Msg -> Receipts]]
      BY <2>3, <2>6 DEF TypeOK
    <2> QED
      BY <1>11, <2>1, <2>5, <2>7, <2>8 DEF Hear, TypeOK
  <1>12. CASE UNCHANGED vars
    BY <1>12 DEF vars, TypeOK
  <1> QED
    BY <1>1, <1>2, <1>3, <1>4, <1>5, <1>6, <1>7, <1>8, <1>9, <1>10, <1>11,
       <1>12, <1>13 DEF Next, SendStep, CallStep

\* Message rows, handlers, events and screens always have their types: every
\* timestamp written or shown is a timestamp or null.
THEOREM TypeCorrect == Spec => []TypeOK
  BY InitType, StepType, PTL DEF Spec

-----------------------------------------------------------------------------
(* Receipts.  That read implies delivered in every row needs the handlers' *)
(* local copies: markRead writes the deliveredAt it found, which must be   *)
(* null only if it is replaced; and what is emitted later must still be    *)
(* within the row, which holds because no step ever unsets a receipt.      *)

Ok(rc) == rc.r # 0 => rc.d # 0
Within(rc, m) == (rc.d # 0 => row[m].d # 0) /\ (rc.r # 0 => row[m].r # 0)

RowInv == \A m \in Msg : Ok(row[m]) /\ (m \notin stored => row[m] = Unset)

SendInv == \A m \in Msg :
    /\ sendpc[m] \in {"created", "ok"} => m \in stored
    /\ sendpc[m] \in {"idle", "creating"} => m \notin stored

CallInv == \A c \in Call :
    callpc[c] \in {"found", "updating", "updated", "ok"} =>
        /\ On[c] \in stored /\ To[On[c]] = TabUser[By[c]]
        /\ Ok(held[c]) /\ Within(held[c], On[c])
        /\ callpc[c] = "updating" => stamp[c] # 0
        /\ callpc[c] \in {"updated", "ok"} => AlreadySet(c)

Good(e) == /\ e.msg \in stored /\ Ok(e.receipts) /\ Within(e.receipts, e.msg)
           /\ e.to \in {Sender(e.msg), To[e.msg]}

EventInv == /\ \A n \in Node : \A e \in ToSet(pubq[n]) : Good(e)
            /\ \A t \in Tab : \A e \in ToSet(wire[t]) : Good(e) /\ e.to = TabUser[t]

ScreenInv == \A t \in Tab :
    /\ \A m \in Msg : Ok(shown[t][m]) /\ Within(shown[t][m], m)
    /\ \A m \in known[t] : TabUser[t] \in {Sender(m), To[m]}

ReceiptInv == RowInv /\ SendInv /\ CallInv /\ EventInv /\ ScreenInv

IInv == TypeOK /\ ReceiptInv

\* A step may add rows and set receipts; it removes and unsets none.
Grows == /\ stored \subseteq stored'
         /\ \A m \in Msg : /\ row[m].d # 0 => row'[m].d # 0
                           /\ row[m].r # 0 => row'[m].r # 0

LEMMA UpdatedGrows ==
    ASSUME IInv, NEW c \in Call, callpc[c] = "updating"
    PROVE  /\ Ok(Updated(c))
           /\ row[On[c]].d # 0 => Updated(c).d # 0
           /\ row[On[c]].r # 0 => Updated(c).r # 0
           /\ Kind[c] = "delivered" => Updated(c).d # 0
           /\ Kind[c] = "read" => Updated(c).r # 0
           /\ Updated(c).d # 0
  <1>1. stamp[c] # 0 /\ row[On[c]] \in Receipts /\ Kind[c] \in Kinds
    BY RequestTypes DEF IInv, ReceiptInv, CallInv, TypeOK
  <1>2. CASE Kind[c] = "delivered"
    BY <1>1, <1>2 DEF Updated, Receipts, Ok
  <1>3. CASE Kind[c] = "read"
    BY <1>1, <1>3 DEF Updated, Receipts, Ok
  <1> QED
    BY <1>1, <1>2, <1>3 DEF Kinds

LEMMA StepGrows == IInv /\ [Next]_vars => Grows
  <1> SUFFICES ASSUME IInv, [Next]_vars PROVE Grows
    OBVIOUS
  <1>1. ASSUME NEW c \in Call, Commit(c) PROVE Grows
    <2>1. /\ \A m \in Msg : row'[m] = IF m = On[c] THEN Updated(c) ELSE row[m]
          /\ stored' = stored
      BY <1>1 DEF Commit, IInv, TypeOK
    <2> QED
      BY <1>1, <2>1, UpdatedGrows DEF Commit, Grows
  <1>2. CASE stored \subseteq stored' /\ UNCHANGED row
    BY <1>2 DEF Grows
  <1>3. \/ \E c \in Call : Commit(c)
        \/ stored \subseteq stored' /\ UNCHANGED row
    BY DEF Next, SendStep, CallStep, Send, Create, Announce, FailSend, Ask, Find,
           Decide, Finish, FailCall, Publish, Hear, vars, rows
  <1> QED
    BY <1>1, <1>2, <1>3

LEMMA GoodStays ==
    ASSUME Grows, NEW e \in Event, Good(e)
    PROVE  Good(e)'
  <1>1. e.msg \in Msg
    BY DEF Event
  <1> QED
    BY <1>1 DEF Grows, Good, Ok, Within

LEMMA StepRows == IInv /\ [Next]_vars => RowInv' /\ SendInv'
  <1> SUFFICES ASSUME IInv, [Next]_vars PROVE RowInv' /\ SendInv'
    OBVIOUS
  <1> USE DEF IInv, ReceiptInv
  <1>1. ASSUME NEW c \in Call, Commit(c) PROVE RowInv' /\ SendInv'
    <2>1. /\ \A m \in Msg : row'[m] = IF m = On[c] THEN Updated(c) ELSE row[m]
          /\ stored' = stored /\ sendpc' = sendpc /\ On[c] \in stored
          /\ Ok(Updated(c))
      BY <1>1, UpdatedGrows DEF Commit, TypeOK, CallInv
    <2> QED
      BY <2>1 DEF RowInv, SendInv, Ok
  <1>2. ASSUME NEW m \in Msg, Create(m) PROVE RowInv' /\ SendInv'
    BY <1>2 DEF Create, TypeOK, RowInv, SendInv, Ok
  <1>3. ASSUME NEW m \in Msg, Send(m) \/ Announce(m) \/ FailSend(m)
        PROVE  RowInv' /\ SendInv'
    BY <1>3 DEF Send, Announce, FailSend, rows, TypeOK, RowInv, SendInv, Ok
  <1>4. CASE UNCHANGED <<stored, row, sendpc>>
    BY <1>4 DEF RowInv, SendInv, Ok
  <1>5. \/ UNCHANGED <<stored, row, sendpc>>
        \/ \E c \in Call : Commit(c)
        \/ \E m \in Msg : Create(m) \/ Send(m) \/ Announce(m) \/ FailSend(m)
    BY DEF Next, SendStep, CallStep, Ask, Find, Decide, Finish, FailCall, Publish,
           Hear, vars, rows
  <1> QED
    BY <1>1, <1>2, <1>3, <1>4, <1>5

LEMMA StepCalls == IInv /\ [Next]_vars => CallInv'
  <1> SUFFICES ASSUME IInv, [Next]_vars,
                      NEW c \in Call,
                      callpc'[c] \in {"found", "updating", "updated", "ok"}
               PROVE  /\ On[c] \in stored' /\ To[On[c]] = TabUser[By[c]]
                      /\ Ok(held'[c]) /\ Within(held[c], On[c])'
                      /\ callpc'[c] = "updating" => stamp'[c] # 0
                      /\ callpc'[c] \in {"updated", "ok"} => AlreadySet(c)'
    BY DEF CallInv
  <1> USE DEF IInv, ReceiptInv
  <1>0. Grows /\ On[c] \in Msg /\ Kind[c] \in Kinds
    BY StepGrows, RequestTypes
  <1>1. CASE Find(c)
    <2>1. /\ callpc'[c] = "found" /\ On[c] \in stored /\ To[On[c]] = TabUser[By[c]]
          /\ held'[c] = row[On[c]] /\ UNCHANGED <<stored, row>>
      BY <1>1 DEF Find, Goto, TypeOK, rows
    <2> QED
      BY <1>0, <2>1 DEF RowInv, Within
  <1>2. CASE Decide(c)
    <2>1. /\ callpc[c] = "found" /\ UNCHANGED <<stored, row, held>>
          /\ callpc'[c] = IF AlreadySet(c) THEN "updated" ELSE "updating"
          /\ ~AlreadySet(c) => stamp'[c] = clock + 1
          /\ clock \in Nat
      BY <1>2 DEF Decide, Goto, TypeOK
    <2> QED
      BY <2>1 DEF CallInv, Within, AlreadySet
  <1>3. CASE Commit(c)
    <2>1. /\ callpc[c] = "updating" /\ callpc'[c] = "updated"
          /\ stored' = stored /\ held'[c] = Updated(c) /\ row'[On[c]] = Updated(c)
      BY <1>0, <1>3 DEF Commit, Goto, TypeOK
    <2> QED
      BY <1>0, <2>1, UpdatedGrows DEF CallInv, Within, AlreadySet, Kinds
  <1>4. CASE Finish(c)
    <2>1. /\ callpc[c] = "updated" /\ callpc'[c] = "ok"
          /\ UNCHANGED <<stored, row, held>>
      BY <1>4 DEF Finish, Goto, TypeOK, rows
    <2> QED
      BY <2>1 DEF CallInv, Within, AlreadySet
  <1>5. CASE callpc'[c] = callpc[c] /\ held'[c] = held[c] /\ stamp'[c] = stamp[c]
    BY <1>0, <1>5 DEF CallInv, Within, AlreadySet, Grows
  <1>7. callpc'[c] # "sent"
    OBVIOUS
  <1>6. \/ Find(c) \/ Decide(c) \/ Commit(c) \/ Finish(c)
        \/ callpc'[c] = callpc[c] /\ held'[c] = held[c] /\ stamp'[c] = stamp[c]
    <2>1. CASE \E x \in Call : Ask(x) \/ CallStep(x)
      <3>1. PICK x \in Call : Ask(x) \/ CallStep(x)
        BY <2>1
      <3>2. CASE x = c
        <4>1. ~FailCall(c) /\ ~Ask(c)
          BY DEF FailCall, Ask, Goto, TypeOK
        <4> QED
          BY <3>1, <3>2, <4>1 DEF CallStep
      <3>3. CASE x # c
        BY <3>1, <3>3 DEF CallStep, Ask, Find, Decide, Commit, Finish,
                          FailCall, Goto, TypeOK
      <3> QED
        BY <3>2, <3>3
    <2>2. CASE UNCHANGED <<callpc, held, stamp>>
      BY <2>2
    <2>4. CASE \E t \in Tab : Hear(t)
      BY <1>7, <2>4, HearCalls
    <2>3. \/ UNCHANGED <<callpc, held, stamp>>
          \/ \E t \in Tab : Hear(t)
          \/ \E x \in Call : Ask(x) \/ CallStep(x)
      BY DEF Next, SendStep, Send, Create, Announce, FailSend, Publish,
             vars, calls
    <2> QED
      BY <2>1, <2>2, <2>3, <2>4
  <1> QED
    BY <1>1, <1>2, <1>3, <1>4, <1>5, <1>6

LEMMA QueuesHoldEvents ==
    ASSUME TypeOK
    PROVE  /\ \A n \in Node : \A e \in ToSet(pubq[n]) : e \in Event
           /\ \A t \in Tab : \A e \in ToSet(wire[t]) : e \in Event
  BY ElementOfSeq, LenProperties DEF TypeOK, ToSet

LEMMA Append2Set ==
    ASSUME NEW q \in Seq(Event), NEW e1 \in Event, NEW e2 \in Event
    PROVE  ToSet(Append(Append(q, e1), e2)) = ToSet(q) \cup {e1, e2}
  <1>1. Append(q, e1) \in Seq(Event) /\ Len(Append(q, e1)) = Len(q) + 1
    BY QueueAppend
  <1>2. /\ DOMAIN Append(Append(q, e1), e2) = 1..(Len(q) + 2)
        /\ DOMAIN q = 1..Len(q) /\ Len(q) \in Nat
    BY <1>1, AppendProperties, LenProperties
  <1>3. /\ Append(Append(q, e1), e2)[Len(q) + 2] = e2
        /\ Append(Append(q, e1), e2)[Len(q) + 1] = e1
        /\ \A i \in 1..Len(q) : Append(Append(q, e1), e2)[i] = q[i]
    BY <1>1, <1>2, AppendProperties
  <1> QED
    BY <1>2, <1>3 DEF ToSet

LEMMA Emit2Events ==
    ASSUME TypeOK, EventInv, Grows, NEW n \in Node,
           NEW e1 \in Event, NEW e2 \in Event, Good(e1)', Good(e2)',
           Emit2(n, e1, e2)
    PROVE  EventInv'
  <1>1. /\ \A m \in Node : \A e \in ToSet(pubq[m]) : Good(e)'
        /\ \A t \in Tab : \A e \in ToSet(wire[t]) : Good(e)'
    BY GoodStays, QueuesHoldEvents DEF EventInv
  <1>2. ASSUME NEW m \in Node, NEW x \in ToSet(pubq'[m]) PROVE Good(x)'
    <2>1. CASE m = n
      <3>1. PICK q : q = pubq[n]
        OBVIOUS
      <3>2. pubq'[n] = Append(Append(q, e1), e2) /\ q \in Seq(Event)
        BY <3>1 DEF TypeOK, Emit2
      <3>3. ToSet(pubq'[n]) = ToSet(q) \cup {e1, e2}
        BY <3>2, Append2Set
      <3>4. x \in ToSet(pubq[n]) \/ x = e1 \/ x = e2
        BY <1>2, <2>1, <3>1, <3>3
      <3> QED
        BY <1>1, <3>4
    <2>2. CASE m # n
      <3>1. pubq'[m] = pubq[m]
        BY <2>2 DEF TypeOK, Emit2
      <3> QED
        BY <1>1, <1>2, <3>1
    <2> QED
      BY <2>1, <2>2
  <1>3. ASSUME NEW t \in Tab, NEW x \in ToSet(wire'[t])
        PROVE  Good(x)' /\ x.to = TabUser[t]
    <2>1. PICK q \in Seq(Event) : q = wire[t]
      BY DEF TypeOK
    <2>2. /\ ToSet(Append(q, e1)) = ToSet(q) \cup {e1}
          /\ ToSet(Append(q, e2)) = ToSet(q) \cup {e2}
          /\ ToSet(Append(Append(q, e1), e2)) = ToSet(q) \cup {e1, e2}
      BY SetAppend, Append2Set
    <2>3. \/ wire'[t] = q
          \/ wire'[t] = Append(q, e1) /\ TabUser[t] = e1.to
          \/ wire'[t] = Append(q, e2) /\ TabUser[t] = e2.to
          \/ /\ wire'[t] = Append(Append(q, e1), e2)
             /\ TabUser[t] = e1.to /\ TabUser[t] = e2.to
      BY <2>1 DEF SendTo, Emit2
    <2>4. \/ x \in ToSet(wire[t])
          \/ x = e1 /\ e1.to = TabUser[t]
          \/ x = e2 /\ e2.to = TabUser[t]
      BY <1>3, <2>1, <2>2, <2>3
    <2>5. x \in ToSet(wire[t]) => x.to = TabUser[t]
      BY DEF EventInv
    <2> QED
      BY <1>1, <2>4, <2>5
  <1> QED
    BY <1>2, <1>3 DEF EventInv

\* Events travel unchanged: what is in a queue after a step was there before,
\* came from another queue, or is emitted by the step.
LEMMA StepEvents == IInv /\ [Next]_vars => EventInv'
  <1> SUFFICES ASSUME IInv, [Next]_vars PROVE EventInv'
    OBVIOUS
  <1> USE DEF IInv, ReceiptInv
  <1>0. Grows
    BY StepGrows
  <1>1. /\ \A n \in Node : \A e \in ToSet(pubq[n]) : e \in Event
        /\ \A t \in Tab : \A e \in ToSet(wire[t]) : e \in Event
    BY ElementOfSeq, LenProperties DEF TypeOK, ToSet
  <1>1a. /\ \A n \in Node : \A e \in ToSet(pubq[n]) : Good(e)'
         /\ \A t \in Tab : \A e \in ToSet(wire[t]) : Good(e)'
    BY <1>0, <1>1, GoodStays DEF EventInv
  <1>2. ASSUME NEW m \in Msg, Announce(m) PROVE EventInv'
    <2> DEFINE new(u) == [type |-> "new", to |-> u, msg |-> m, copy |-> u,
                          receipts |-> Unset]
    <2>1. new(To[m]) \in Event /\ new(Sender(m)) \in Event
      BY RequestTypes, EventType
    <2>2. Emit2(TabNode[From[m]], new(To[m]), new(Sender(m)))
      BY <1>2 DEF Announce
    <2>3. m \in stored'
      BY <1>0, <1>2 DEF Announce, SendInv, Grows
    <2>4. Good(new(To[m]))' /\ Good(new(Sender(m)))'
      BY <2>3 DEF Good, Ok, Within, Unset
    <2> HIDE DEF new
    <2> QED
      BY <1>0, <2>1, <2>2, <2>4, Emit2Events, RequestTypes
  <1>3. ASSUME NEW c \in Call, Finish(c) PROVE EventInv'
    <2>1. PICK rc : rc = held[c]
      OBVIOUS
    <2> DEFINE status(u) == [type |-> "status", to |-> u, msg |-> On[c],
                             copy |-> u, receipts |-> rc]
    <2>2. status(To[On[c]]) \in Event /\ status(Sender(On[c])) \in Event
      BY <2>1, RequestTypes, EventType DEF TypeOK
    <2>3. Emit2(TabNode[By[c]], status(Sender(On[c])), status(To[On[c]]))
      BY <1>3, <2>1 DEF Finish
    <2>4. On[c] \in stored /\ Ok(rc) /\ Within(rc, On[c])
      BY <1>3, <2>1 DEF Finish, CallInv
    <2>5. Good(status(To[On[c]])) /\ Good(status(Sender(On[c])))
      BY <2>4 DEF Good
    <2> HIDE DEF status
    <2>6. Good(status(To[On[c]]))' /\ Good(status(Sender(On[c])))'
      BY <1>0, <2>2, <2>5, GoodStays
    <2> QED
      BY <1>0, <2>2, <2>3, <2>6, Emit2Events, RequestTypes
  <1>4. ASSUME NEW n \in Node, Publish(n) PROVE EventInv'
    <2>1. PICK e : e = Head(pubq[n])
      OBVIOUS
    <2>3. /\ e \in Event /\ e \in ToSet(pubq[n])
          /\ ToSet(Tail(pubq[n])) \subseteq ToSet(pubq[n])
      BY <1>4, <2>1, QueueTail, SetTail DEF Publish, TypeOK
    <2>4. \A m \in Node : ToSet(pubq'[m]) \subseteq ToSet(pubq[m])
      BY <1>4, <2>3 DEF Publish, TypeOK
    <2>5. ASSUME NEW t \in Tab, NEW x \in ToSet(wire'[t])
          PROVE  x \in ToSet(wire[t]) \/ (x = e /\ e.to = TabUser[t])
      <3>1. PICK q \in Seq(Event) : q = wire[t]
        BY DEF TypeOK
      <3>2. wire'[t] = q \/ (wire'[t] = Append(q, e) /\ TabUser[t] = e.to)
        BY <1>4, <2>1, <3>1 DEF Publish, SendTo
      <3>3. ToSet(Append(q, e)) = ToSet(q) \cup {e}
        BY <2>3, SetAppend
      <3> QED
        BY <2>5, <3>1, <3>2, <3>3
    <2> QED
      BY <1>1a, <2>3, <2>4, <2>5 DEF EventInv
  <1>5. ASSUME NEW t \in Tab, Hear(t) PROVE EventInv'
    <2>1. ToSet(Tail(wire[t])) \subseteq ToSet(wire[t])
      BY <1>5, SetTail DEF Hear, TypeOK
    <2>2. /\ \A u \in Tab : ToSet(wire'[u]) \subseteq ToSet(wire[u])
          /\ pubq' = pubq
      BY <1>5, <2>1 DEF Hear, TypeOK
    <2> QED
      BY <1>1a, <2>2 DEF EventInv
  <1>6. CASE UNCHANGED bus
    BY <1>1a, <1>6 DEF EventInv, bus
  <1>7. \/ UNCHANGED bus
        \/ \E m \in Msg : Announce(m)
        \/ \E c \in Call : Finish(c)
        \/ \E n \in Node : Publish(n)
        \/ \E t \in Tab : Hear(t)
    BY DEF Next, SendStep, CallStep, Send, Create, FailSend, Ask, Find, Decide,
           Commit, FailCall, vars, bus
  <1> QED
    BY <1>2, <1>3, <1>4, <1>5, <1>6, <1>7

\* A screen takes its receipts and its messages from an event addressed to it.
LEMMA StepScreen == IInv /\ [Next]_vars => ScreenInv'
  <1> SUFFICES ASSUME IInv, [Next]_vars PROVE ScreenInv'
    OBVIOUS
  <1> USE DEF IInv, ReceiptInv
  <1>1. Grows
    BY StepGrows
  <1>2. CASE UNCHANGED screen
    BY <1>1, <1>2 DEF screen, ScreenInv, Grows, Within
  <1>3. ASSUME NEW t \in Tab, Hear(t) PROVE ScreenInv'
    <2>1. PICK e : e = Head(wire[t])
      OBVIOUS
    <2>2. e \in Event /\ e \in ToSet(wire[t])
      BY <1>3, <2>1, QueueTail, SetTail DEF Hear, TypeOK
    <2>3. /\ e.msg \in Msg /\ e.to = TabUser[t]
          /\ Ok(e.receipts) /\ Within(e.receipts, e.msg)
          /\ TabUser[t] \in {Sender(e.msg), To[e.msg]}
      BY <2>2 DEF EventInv, Good, Event
    <2>4. /\ known' \in {known, [known EXCEPT ![t] = @ \cup {e.msg}]}
          /\ shown' \in {shown, [shown EXCEPT ![t][e.msg] = e.receipts]}
      BY <1>3, <2>1 DEF Hear, OnNew, OnStatus, screen
    <2>5. row' = row
      BY <1>3 DEF Hear, rows
    <2>6. \A u \in Tab, m \in Msg :
            \/ shown'[u][m] = shown[u][m]
            \/ u = t /\ m = e.msg /\ shown'[u][m] = e.receipts
      BY <2>3, <2>4 DEF TypeOK
    <2>7. \A u \in Tab, m \in Msg : Ok(shown'[u][m]) /\ Within(shown'[u][m], m)
      BY <2>3, <2>6 DEF ScreenInv
    <2>8. \A u \in Tab : \A m \in known'[u] :
            m \in known[u] \/ (u = t /\ m = e.msg)
      BY <2>4 DEF TypeOK
    <2>9. \A u \in Tab : \A m \in known'[u] : TabUser[u] \in {Sender(m), To[m]}
      BY <2>3, <2>8 DEF ScreenInv
    <2> QED
      BY <2>5, <2>7, <2>9 DEF ScreenInv, Within
  <1>4. UNCHANGED screen \/ \E t \in Tab : Hear(t)
    BY DEF Next, SendStep, CallStep, Send, Create, Announce, FailSend, Ask, Find,
           Decide, Commit, Finish, FailCall, Publish, vars, screen
  <1> QED
    BY <1>2, <1>3, <1>4

LEMMA InitReceiptInv == Init => ReceiptInv
  <1> SUFFICES ASSUME Init PROVE ReceiptInv
    OBVIOUS
  <1>1. RowInv /\ SendInv /\ CallInv
    BY RequestTypes DEF Init, RowInv, SendInv, CallInv, Ok, Unset
  <1>2. EventInv
    BY SetEmpty DEF Init, EventInv
  <1>3. ScreenInv
    BY DEF Init, ScreenInv, Ok, Within, Unset
  <1> QED
    BY <1>1, <1>2, <1>3 DEF ReceiptInv

\* The strengthened invariant holds in every reachable state.
LEMMA Inductive == Spec => []IInv
  <1>1. Init => IInv
    BY InitType, InitReceiptInv DEF IInv
  <1>2. IInv /\ [Next]_vars => IInv'
    BY StepType, StepRows, StepCalls, StepEvents, StepScreen DEF IInv, ReceiptInv
  <1> QED
    BY <1>1, <1>2, PTL DEF Spec

LEMMA FlightIsGood ==
    ASSUME IInv, NEW e \in InFlight
    PROVE  Good(e) /\ e \in Event
  BY QueuesHoldEvents DEF IInv, ReceiptInv, EventInv, InFlight

\* However many markDelivered and markRead race on a message, no row, event
\* or screen ever holds a read receipt without a delivered one.
THEOREM ReadAlwaysDelivered == Spec => []ReadImpliesDelivered
  <1>1. IInv => ReadImpliesDelivered
    <2> SUFFICES ASSUME IInv PROVE ReadImpliesDelivered
      OBVIOUS
    <2>1. \A m \in Msg : Ok(row[m])
      BY DEF IInv, ReceiptInv, RowInv
    <2>2. \A e \in InFlight : Ok(e.receipts)
      BY FlightIsGood DEF Good
    <2>3. \A t \in Tab, m \in Msg : Ok(shown[t][m])
      BY DEF IInv, ReceiptInv, ScreenInv
    <2> QED
      BY <2>1, <2>2, <2>3 DEF ReadImpliesDelivered, Ok
  <1> QED
    BY <1>1, Inductive, PTL

\* No client is told of a receipt or a message that PostgreSQL does not hold,
\* in whatever order the emits of the handlers arrive.
THEOREM NeverAhead == Spec => []StatusNotAhead
  <1>1. IInv => StatusNotAhead
    <2> SUFFICES ASSUME IInv PROVE StatusNotAhead
      OBVIOUS
    <2>1. \A e \in InFlight : e.msg \in stored /\ Within(e.receipts, e.msg)
      BY FlightIsGood DEF Good
    <2>2. \A t \in Tab, m \in Msg : Within(shown[t][m], m)
      BY DEF IInv, ReceiptInv, ScreenInv
    <2> QED
      BY <2>1, <2>2 DEF StatusNotAhead, Within
  <1> QED
    BY <1>1, Inductive, PTL

\* An ack ok of the server is about what the database holds, then and later.
THEOREM AcksAreDurable == Spec => []AckIsDurable
  <1>1. IInv => AckIsDurable
    <2> SUFFICES ASSUME IInv PROVE AckIsDurable
      OBVIOUS
    <2>1. \A m \in Msg : sendpc[m] = "ok" => m \in stored
      BY DEF IInv, ReceiptInv, SendInv
    <2>2. ASSUME NEW c \in Call, callpc[c] = "ok"
          PROVE  /\ On[c] \in stored /\ row[On[c]].d # 0
                 /\ Kind[c] = "read" => row[On[c]].r # 0
      BY <2>2, RequestTypes DEF IInv, ReceiptInv, CallInv, Ok, Within, AlreadySet, Kinds
    <2> QED
      BY <2>1, <2>2 DEF AckIsDurable
  <1> QED
    BY <1>1, Inductive, PTL

\* The rooms keep a message and its receipts to the tabs of its two users,
\* however the events travel between the nodes.
THEOREM ParticipantsOnly == Spec => []OnlyParticipants
  <1>1. IInv => OnlyParticipants
    BY DEF IInv, ReceiptInv, EventInv, Good, ScreenInv, OnlyParticipants
  <1> QED
    BY <1>1, Inductive, PTL

-----------------------------------------------------------------------------
(* The handlers implement the lifecycle: Create is Store, a successful     *)
(* Find is Ask, Commit is Deliver, Read or a stutter, the rest stutters.   *)

LEMMA AskedOf ==
    ASSUME NEW m \in Msg, NEW p
    PROVE  p \in Asked[m] <=>
             \E c \in Call : /\ On[c] = m /\ callpc[c] \notin {"idle", "sent", "refused"}
                             /\ p = <<TabUser[By[c]], Kind[c]>>
  BY DEF Asked

LEMMA AskedStays ==
    ASSUME \A c \in Call : callpc[c] \in {"idle", "sent", "refused"}
                             <=> callpc'[c] \in {"idle", "sent", "refused"}
    PROVE  Asked' = Asked
  BY DEF Asked

LEMMA InitLifecycle == Init => Lifecycle!Init
  BY DEF Init, Lifecycle!Init, Stage, Asked

LEMMA CreateStores ==
    ASSUME IInv, NEW m \in Msg, Create(m)
    PROVE  Lifecycle!Store(m)
  <1>1. m \notin stored /\ row[m].d = 0 /\ row[m].r = 0
    BY DEF Create, IInv, ReceiptInv, SendInv, RowInv, Unset
  <1>2. stored' = stored \cup {m} /\ row' = row
    BY DEF Create
  <1>3. Stage[m] = "none" /\ Stage' = [Stage EXCEPT ![m] = "sent"]
    BY <1>1, <1>2 DEF Stage, Label
  <1>4. Asked' = Asked
    BY AskedStays DEF Create, calls
  <1> QED
    BY <1>3, <1>4 DEF Lifecycle!Store

LEMMA FindAsks ==
    ASSUME IInv, NEW c \in Call, Find(c)
    PROVE  Lifecycle!Ask(On[c], Kind[c]) \/ UNCHANGED <<Stage, Asked>>
  <1>1. Stage' = Stage /\ On[c] \in Msg
    BY RequestTypes DEF Find, rows, Stage
  <1>2. CASE Goto(c, "refused")
    BY <1>1, <1>2, AskedStays DEF Find, Goto, IInv, TypeOK
  <1>3. CASE /\ Goto(c, "found") /\ On[c] \in stored
             /\ To[On[c]] = TabUser[By[c]]
    <2>1. Stage[On[c]] # "none"
      BY <1>1, <1>3 DEF Stage, Label
    <2>2. Asked' = [Asked EXCEPT ![On[c]] = @ \cup {<<To[On[c]], Kind[c]>>}]
      <3>1. \A x \in Call : callpc'[x] \notin {"idle", "sent", "refused"} <=>
              callpc[x] \notin {"idle", "sent", "refused"} \/ x = c
        BY <1>3 DEF Find, Goto, IInv, TypeOK
      <3> QED
        BY <1>1, <1>3, <3>1 DEF Asked
    <2> QED
      BY <1>1, <2>1, <2>2 DEF Lifecycle!Ask
  <1> QED
    BY <1>2, <1>3 DEF Find

LEMMA CommitMoves ==
    ASSUME IInv, NEW c \in Call, Commit(c)
    PROVE  \/ Lifecycle!Deliver(On[c]) \/ Lifecycle!Read(On[c])
           \/ UNCHANGED <<Stage, Asked>>
  <1>1. /\ On[c] \in Msg /\ On[c] \in stored /\ To[On[c]] = TabUser[By[c]]
        /\ Kind[c] \in Kinds /\ stamp[c] # 0 /\ callpc[c] = "updating"
    BY RequestTypes DEF Commit, IInv, ReceiptInv, CallInv
  <1>2. Asked' = Asked
    BY AskedStays DEF Commit, Goto, IInv, TypeOK
  <1>3. <<To[On[c]], Kind[c]>> \in Asked[On[c]]
    BY <1>1, AskedOf
  <1>4. /\ stored' = stored
        /\ \A m \in Msg : row'[m] = IF m = On[c] THEN Updated(c) ELSE row[m]
    BY DEF Commit, IInv, TypeOK
  <1>5. CASE Kind[c] = "delivered"
    <2>1. Updated(c).d # 0 /\ Updated(c).r = row[On[c]].r
      BY <1>1, <1>5 DEF Updated, IInv, TypeOK, Receipts
    <2>2. CASE Stage[On[c]] = "sent"
      <3>1. Stage' = [Stage EXCEPT ![On[c]] = "delivered"]
        BY <1>1, <1>4, <2>1, <2>2 DEF Stage, Label
      <3> QED
        BY <1>2, <1>3, <1>5, <2>2, <3>1 DEF Lifecycle!Deliver
    <2>3. CASE Stage[On[c]] # "sent"
      <3>1. Stage' = Stage
        BY <1>1, <1>4, <2>1, <2>3 DEF Stage, Label
      <3> QED
        BY <1>2, <3>1
    <2> QED
      BY <2>2, <2>3
  <1>6. CASE Kind[c] = "read"
    <2>1. Updated(c).r # 0
      BY <1>1, <1>6 DEF Updated
    <2>2. CASE Stage[On[c]] \in {"sent", "delivered"}
      <3>1. Stage' = [Stage EXCEPT ![On[c]] = "read"]
        BY <1>1, <1>4, <2>1 DEF Stage, Label
      <3> QED
        BY <1>2, <1>3, <1>6, <2>2, <3>1 DEF Lifecycle!Read
    <2>3. CASE Stage[On[c]] \notin {"sent", "delivered"}
      <3>1. Stage' = Stage
        BY <1>1, <1>4, <2>1, <2>3 DEF Stage, Label
      <3> QED
        BY <1>2, <3>1
    <2> QED
      BY <2>2, <2>3
  <1> QED
    BY <1>1, <1>5, <1>6 DEF Kinds

\* Every step maps to a step of the lifecycle or to none.
LEMMA StepLifecycle ==
    IInv /\ [Next]_vars => [Lifecycle!Next]_<<Stage, Asked>>
  <1> SUFFICES ASSUME IInv, [Next]_vars
               PROVE  Lifecycle!Next \/ UNCHANGED <<Stage, Asked>>
    OBVIOUS
  <1>1. ASSUME NEW m \in Msg, Create(m) PROVE Lifecycle!Next
    BY <1>1, CreateStores DEF Lifecycle!Next
  <1>2. ASSUME NEW c \in Call, Find(c)
        PROVE  Lifecycle!Next \/ UNCHANGED <<Stage, Asked>>
    BY <1>2, FindAsks, RequestTypes DEF Lifecycle!Next, Lifecycle!Kinds, Kinds
  <1>3. ASSUME NEW c \in Call, Commit(c)
        PROVE  Lifecycle!Next \/ UNCHANGED <<Stage, Asked>>
    BY <1>3, CommitMoves, RequestTypes DEF Lifecycle!Next
  <1>4. ASSUME NEW c \in Call, Decide(c) \/ Finish(c) \/ FailCall(c)
        PROVE  UNCHANGED <<Stage, Asked>>
    <2>1. Asked' = Asked
      BY <1>4, AskedStays DEF Decide, Finish, FailCall, Goto, IInv, TypeOK
    <2> QED
      BY <1>4, <2>1 DEF Decide, Finish, FailCall, rows, Stage
  <1>5. CASE UNCHANGED <<stored, row, callpc>>
    BY <1>5 DEF Stage, Asked
  <1>7. ASSUME NEW c \in Call, Ask(c) PROVE UNCHANGED <<Stage, Asked>>
    <2>1. Asked' = Asked
      BY <1>7, AskedStays DEF Ask, Goto, IInv, TypeOK
    <2> QED
      BY <1>7, <2>1 DEF Ask, rows, Stage
  <1>8. ASSUME NEW t \in Tab, Hear(t) PROVE UNCHANGED <<Stage, Asked>>
    <2>1. \A c \in Call : \/ callpc'[c] = callpc[c]
                          \/ callpc[c] = "idle" /\ callpc'[c] = "sent"
      BY <1>8, HearCalls DEF IInv
    <2>2. Asked' = Asked
      BY <2>1, AskedStays
    <2> QED
      BY <1>8, <2>2 DEF Hear, rows, Stage
  <1>6. \/ \E m \in Msg : Create(m)
        \/ \E c \in Call : \/ Find(c) \/ Commit(c)
                           \/ Decide(c) \/ Finish(c) \/ FailCall(c) \/ Ask(c)
        \/ \E t \in Tab : Hear(t)
        \/ UNCHANGED <<stored, row, callpc>>
    BY DEF Next, SendStep, CallStep, Send, Announce, FailSend, Publish,
           vars, rows, calls
  <1> QED
    BY <1>1, <1>2, <1>3, <1>4, <1>5, <1>6, <1>7, <1>8

\* The handlers implement the documented life of a message: stored once,
\* delivered and read in order or read at once, never back, and only at the
\* request of its recipient.
THEOREM ImplementsLifecycle == Spec => LifecycleSpec
  <1>1. Spec => Lifecycle!Init
    BY InitLifecycle DEF Spec
  <1> QED
    BY <1>1, StepLifecycle, Inductive, PTL DEF Spec, LifecycleSpec, Lifecycle!Spec
=============================================================================
