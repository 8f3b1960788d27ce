---------------------------- MODULE TypingProofs ----------------------------
(* Theorems about Typing, for any users, tabs and queue bound. *)
EXTENDS Typing, TLAPS, QueueLemmas

-----------------------------------------------------------------------------
(* Bursts and timers; the type of the state depends on them, since the     *)
(* notice that ends a burst is addressed to the open peer.                 *)

TypedBursts == TypeOK /\ BurstHasTimer

LEMMA EmitType ==
    ASSUME TypeOK, NEW t \in Tab, NEW typing \in BOOLEAN, NEW to \in User,
           Emit(t, typing, to)
    PROVE  up' \in [Tab -> Seq(Notice)]
  <1>1. [typing |-> typing, to |-> to] \in Notice
    BY DEF Notice
  <1>2. Append(up[t], [typing |-> typing, to |-> to]) \in Seq(Notice)
    BY <1>1, QueueAppend DEF TypeOK
  <1> QED
    BY <1>2 DEF Emit, TypeOK

LEMMA StopBurstType ==
    ASSUME TypedBursts, NEW t \in Tab, StopBurst(t)
    PROVE  /\ up' \in [Tab -> Seq(Notice)]
           /\ timer' \in [Tab -> User \cup {None}]
           /\ sent' = sent \ {t} /\ timer' = [timer EXCEPT ![t] = None]
  <1>1. CASE t \in sent
    <2>1. open[t] \in User
      BY <1>1 DEF TypedBursts, BurstHasTimer, TypeOK
    <2>2. up' \in [Tab -> Seq(Notice)]
      BY <1>1, <2>1, EmitType DEF StopBurst, TypedBursts
    <2> QED
      BY <2>2 DEF StopBurst, TypedBursts, TypeOK
  <1>2. CASE t \notin sent
    BY <1>2 DEF StopBurst, TypedBursts, TypeOK
  <1> QED
    BY <1>1, <1>2

LEMMA InitTyped == Init => TypedBursts
  BY NoneAssumption, EmptySeq DEF Init, TypedBursts, TypeOK, BurstHasTimer

LEMMA StepTyped == TypedBursts /\ [Next]_vars => TypedBursts'
  <1> SUFFICES ASSUME TypedBursts, [Next]_vars PROVE TypedBursts'
    OBVIOUS
  <1> USE NoneAssumption, TabUserAssumption
  <1>1. ASSUME NEW t \in Tab, Keystroke(t) PROVE TypedBursts'
    <2>1. open[t] \in User
      BY <1>1 DEF Keystroke, TypedBursts, TypeOK
    <2>2. up' \in [Tab -> Seq(Notice)]
      BY <1>1, <2>1, EmitType DEF Keystroke, TypedBursts, TypeOK
    <2> QED
      BY <1>1, <2>1, <2>2 DEF Keystroke, TypedBursts, TypeOK, BurstHasTimer
  <1>2. ASSUME NEW t \in Tab, EmptyDraft(t) PROVE TypedBursts'
    BY <1>2, StopBurstType DEF EmptyDraft, TypedBursts, TypeOK, BurstHasTimer
  <1>3. ASSUME NEW t \in Tab, Fire(t) PROVE TypedBursts'
    <2>1. t \in sent /\ timer[t] \in User
      BY <1>3 DEF Fire, TypedBursts, TypeOK, BurstHasTimer
    <2>2. up' \in [Tab -> Seq(Notice)]
      BY <1>3, <2>1, EmitType DEF Fire, TypedBursts
    <2> QED
      BY <1>3, <2>2 DEF Fire, TypedBursts, TypeOK, BurstHasTimer
  <1>4. ASSUME NEW t \in Tab, NEW u \in User, Select(t, u) PROVE TypedBursts'
    BY <1>4, StopBurstType DEF Select, TypedBursts, TypeOK, BurstHasTimer
  <1>5. ASSUME NEW t \in Tab, Unplug(t)
        PROVE  /\ online' \subseteq Tab /\ left' \subseteq Tab
               /\ wire' \in [Tab -> [Tab -> Seq(BOOLEAN)]]
    BY <1>5, EmptySeq DEF Unplug, TypedBursts, TypeOK
  <1>6. ASSUME NEW t \in Tab, Logout(t) PROVE TypedBursts'
    <2>1. up' \in [Tab -> Seq(Notice)]
      BY <1>6, EmptySeq DEF Logout, TypedBursts, TypeOK
    <2> QED
      BY <1>5, <1>6, <2>1 DEF Logout, TypedBursts, TypeOK, BurstHasTimer
  <1>7. ASSUME NEW t \in Tab, Drop(t) PROVE TypedBursts'
    <2>1. up' \in [Tab -> Seq(Notice)]
      BY <1>7, EmptySeq DEF Drop, TypedBursts, TypeOK
    <2> QED
      BY <1>5, <1>7, <2>1 DEF Drop, TypedBursts, TypeOK, BurstHasTimer
  <1>8. ASSUME NEW t \in Tab, Connect(t) PROVE TypedBursts'
    BY <1>8 DEF Connect, TypedBursts, TypeOK, BurstHasTimer
  <1>9. ASSUME NEW s \in Tab, Relay(s) PROVE TypedBursts'
    <2>0. up[s] \in Seq(Notice) /\ up[s] # <<>>
      BY <1>9 DEF Relay, TypedBursts, TypeOK
    <2>1. Tail(up[s]) \in Seq(Notice) /\ Head(up[s]).typing \in BOOLEAN
      <3>1. Tail(up[s]) \in Seq(Notice) /\ Head(up[s]) \in Notice
        BY <2>0, QueueTail
      <3> QED
        BY <3>1 DEF Notice
    <2>2. \A t \in Tab : Append(wire[s][t], Head(up[s]).typing) \in Seq(BOOLEAN)
      BY <2>1, QueueAppend DEF TypedBursts, TypeOK
    <2>3. wire' \in [Tab -> [Tab -> Seq(BOOLEAN)]]
      BY <1>9, <2>2 DEF Relay, TypedBursts, TypeOK
    <2>4. up' \in [Tab -> Seq(Notice)]
      BY <1>9, <2>1 DEF Relay, TypedBursts, TypeOK
    <2> QED
      BY <1>9, <2>3, <2>4 DEF Relay, TypedBursts, TypeOK, BurstHasTimer
  <1>10. ASSUME NEW s \in Tab, NEW t \in Tab, Hear(s, t) PROVE TypedBursts'
    <2>0. wire[s][t] \in Seq(BOOLEAN) /\ wire[s][t] # <<>>
      BY <1>10 DEF Hear, TypedBursts, TypeOK
    <2>1. Tail(wire[s][t]) \in Seq(BOOLEAN)
      BY <2>0, QueueTail
    <2>2. wire' \in [Tab -> [Tab -> Seq(BOOLEAN)]]
      BY <1>10, <2>1 DEF Hear, TypedBursts, TypeOK
    <2> QED
      BY <1>10, <2>2 DEF Hear, TypedBursts, TypeOK, BurstHasTimer
  <1>11. CASE UNCHANGED vars
    BY <1>11 DEF vars, TypedBursts, TypeOK, BurstHasTimer
  <1> QED
    BY <1>1, <1>2, <1>3, <1>4, <1>6, <1>7, <1>8, <1>9, <1>10, <1>11 DEF Next

LEMMA TypedInvariance == Spec => []TypedBursts
  BY InitTyped, StepTyped, PTL DEF Spec

\* The state keeps its type.
THEOREM TypeCorrect == Spec => []TypeOK
  <1>1. TypedBursts => TypeOK
    BY DEF TypedBursts
  <1> QED
    BY <1>1, TypedInvariance, PTL

\* An announced burst has the timer that will end it, and no timer outlives its
\* burst.
THEOREM BurstHasTimerAlways == Spec => []BurstHasTimer
  <1>1. TypedBursts => BurstHasTimer
    BY DEF TypedBursts
  <1> QED
    BY <1>1, TypedInvariance, PTL

-----------------------------------------------------------------------------
(* Indicators: behind each one that is on there is a burst, or a stop that *)
(* is on its way and has not been overtaken by another start.              *)

Burst(s, t) == s \in sent /\ open[s] = TabUser[t]

\* A stop for the user of t waits in up[s] behind position i.
StopUp(s, t, i) ==
    \E j \in 1..Len(up[s]) : /\ j > i
                             /\ up[s][j] = [typing |-> FALSE, to |-> TabUser[t]]
\* A stop is on the wire from s to t behind position i.
StopWire(s, t, i) == \E j \in 1..Len(wire[s][t]) : j > i /\ ~wire[s][t][j]

\* Nobody talks to themselves, and who never left is connected.
Peers ==
    /\ \A t \in Tab : open[t] # TabUser[t]
    /\ \A s \in Tab : \A i \in 1..Len(up[s]) : up[s][i].to # TabUser[s]
    /\ Tab \ online \subseteq left

\* Every start that waits in up[s] is of a burst that lasts, or is followed by
\* its stop.
StartsUp ==
    \A s \in Tab \ left, t \in Tab : \A i \in 1..Len(up[s]) :
        up[s][i] = [typing |-> TRUE, to |-> TabUser[t]]
          => Burst(s, t) \/ StopUp(s, t, i)

\* So is every start on a wire; the stop may be in either queue.
StartsWire ==
    \A s \in Tab \ left, t \in Tab \ left : \A i \in 1..Len(wire[s][t]) :
        wire[s][t][i] => Burst(s, t) \/ StopUp(s, t, 0) \/ StopWire(s, t, i)

Backed(s, t) == \/ s \in left
                \/ Burst(s, t) \/ StopUp(s, t, 0) \/ StopWire(s, t, 0)

\* And every indicator.
Indicators ==
    \A t \in peer \ left : \E s \in Tab : TabUser[s] = open[t] /\ Backed(s, t)

IInv == TypedBursts /\ Peers /\ StartsUp /\ StartsWire /\ Indicators

-----------------------------------------------------------------------------
(* Peers.                                                                  *)

LEMMA AppendsPeers ==
    ASSUME IInv, NEW t \in Tab, NEW n \in Notice, n.to # TabUser[t],
           up' = [up EXCEPT ![t] = Append(up[t], n)]
    PROVE  \A s \in Tab : \A i \in 1..Len(up'[s]) : up'[s][i].to # TabUser[s]
  <1>1. up \in [Tab -> Seq(Notice)]
    BY DEF IInv, TypedBursts, TypeOK
  <1>2. \A i \in 1..Len(up'[t]) : up'[t][i].to # TabUser[t]
    BY <1>1, QueueAppend DEF IInv, Peers
  <1>3. \A s \in Tab \ {t} : up'[s] = up[s]
    BY <1>1
  <1> QED
    BY <1>2, <1>3 DEF IInv, Peers

\* How EmptyDraft, Fire and Select end a burst.
LEMMA BurstEnds ==
    ASSUME IInv, NEW t \in Tab, StopBurst(t) \/ Fire(t)
    PROVE  /\ sent' = sent \ {t}
           /\ t \notin sent => up' = up
           /\ t \in sent =>
                /\ [typing |-> FALSE, to |-> open[t]] \in Notice
                /\ up' = [up EXCEPT ![t] =
                            Append(up[t], [typing |-> FALSE, to |-> open[t]])]
  <1>1. t \in sent => open[t] \in User /\ timer[t] = open[t]
    BY DEF IInv, TypedBursts, TypeOK, BurstHasTimer
  <1> QED
    BY <1>1 DEF StopBurst, Fire, Emit, Notice

LEMMA StepPeers == IInv /\ [Next]_vars => Peers'
  <1> SUFFICES ASSUME IInv, [Next]_vars PROVE Peers'
    OBVIOUS
  <1> USE NoneAssumption, TabUserAssumption DEF Peers
  <1>0. Peers /\ TypeOK
    BY DEF IInv, TypedBursts
  <1>1. ASSUME NEW t \in Tab, Keystroke(t) PROVE Peers'
    <2>1. CASE t \in sent
      BY <1>0, <1>1, <2>1 DEF Keystroke
    <2>2. CASE t \notin sent
      <3>1. [typing |-> TRUE, to |-> open[t]] \in Notice
        BY <1>0, <1>1 DEF Keystroke, TypeOK, Notice
      <3>2. up' = [up EXCEPT ![t] =
                     Append(up[t], [typing |-> TRUE, to |-> open[t]])]
        BY <1>1, <2>2 DEF Keystroke, Emit
      <3> QED
        BY <1>0, <1>1, <3>1, <3>2, AppendsPeers DEF Keystroke
    <2> QED
      BY <2>1, <2>2
  <1>2. ASSUME NEW t \in Tab, StopBurst(t) \/ Fire(t)
        PROVE  \A s \in Tab : \A i \in 1..Len(up'[s]) : up'[s][i].to # TabUser[s]
    BY <1>0, <1>2, BurstEnds, AppendsPeers
  <1>3. ASSUME NEW t \in Tab, EmptyDraft(t) PROVE Peers'
    BY <1>0, <1>2, <1>3 DEF EmptyDraft
  <1>4. ASSUME NEW t \in Tab, Fire(t) PROVE Peers'
    BY <1>0, <1>2, <1>4 DEF Fire
  <1>5. ASSUME NEW t \in Tab, NEW u \in User, Select(t, u) PROVE Peers'
    BY <1>0, <1>2, <1>5 DEF Select, TypeOK
  <1>6. ASSUME NEW t \in Tab, Logout(t) PROVE Peers'
    BY <1>0, <1>6, EmptySeq DEF Logout, Unplug, TypeOK
  <1>7. ASSUME NEW t \in Tab, Drop(t) PROVE Peers'
    BY <1>0, <1>7, EmptySeq DEF Drop, Unplug, TypeOK
  <1>8. ASSUME NEW t \in Tab, Connect(t) PROVE Peers'
    BY <1>0, <1>8 DEF Connect
  <1>9. ASSUME NEW s \in Tab, Relay(s) PROVE Peers'
    <2>1. up[s] \in Seq(Notice) /\ up[s] # <<>> /\ up'[s] = Tail(up[s])
      BY <1>0, <1>9 DEF Relay, TypeOK
    <2>2. \A i \in 1..Len(up'[s]) : up'[s][i].to # TabUser[s]
      BY <1>0, <2>1, QueueTail
    <2>3. \A t \in Tab \ {s} : up'[t] = up[t]
      BY <1>0, <1>9 DEF Relay, TypeOK
    <2> QED
      BY <1>0, <1>9, <2>2, <2>3 DEF Relay
  <1>10. ASSUME NEW s \in Tab, NEW t \in Tab, Hear(s, t) PROVE Peers'
    BY <1>0, <1>10 DEF Hear
  <1>11. CASE UNCHANGED vars
    BY <1>0, <1>11 DEF vars
  <1> QED
    BY <1>1, <1>3, <1>4, <1>5, <1>6, <1>7, <1>8, <1>9, <1>10, <1>11 DEF Next

-----------------------------------------------------------------------------
(* Starts and indicators.                                                  *)

Backing == StartsUp /\ StartsWire /\ Indicators

\* A step that keeps bursts or ends them with a stop, and takes nothing from a
\* queue: EmptyDraft, Fire, Select, Keystroke, Connect.
LEMMA Carry ==
    ASSUME IInv, wire' = wire, left' = left,
           \A s, t \in Tab : \A i \in 0..Len(up[s]) :
               Burst(s, t) \/ StopUp(s, t, i) => Burst(s, t)' \/ StopUp(s, t, i)',
           \A s, t \in Tab : \A i \in 1..Len(up'[s]) :
               up'[s][i] = [typing |-> TRUE, to |-> TabUser[t]] =>
                   \/ Burst(s, t)'
                   \/ i \in 1..Len(up[s]) /\ up[s][i] = up'[s][i],
           \A t \in peer' : t \in peer /\ open'[t] = open[t]
    PROVE  Backing'
  <1>1. /\ TypeOK /\ StartsUp /\ StartsWire /\ Indicators
        /\ \A s \in Tab : Len(up[s]) \in Nat
    BY QueueAppend DEF IInv, TypedBursts, TypeOK
  <1>2. StartsUp'
    BY <1>1 DEF StartsUp
  <1>3. \A s, t \in Tab : /\ Burst(s, t) \/ StopUp(s, t, 0)
                             => Burst(s, t)' \/ StopUp(s, t, 0)'
    BY <1>1
  <1>4. \A s, t \in Tab, i \in Nat : StopWire(s, t, i)' <=> StopWire(s, t, i)
    BY DEF StopWire
  <1>5. StartsWire'
    <2> SUFFICES ASSUME NEW s \in Tab \ left, NEW t \in Tab \ left,
                        NEW i \in 1..Len(wire[s][t]), wire[s][t][i]
                 PROVE  Burst(s, t)' \/ StopUp(s, t, 0)' \/ StopWire(s, t, i)'
      BY DEF StartsWire
    <2>1. Burst(s, t) \/ StopUp(s, t, 0) \/ StopWire(s, t, i)
      BY <1>1 DEF StartsWire
    <2> QED
      BY <1>3, <1>4, <2>1
  <1>6. Indicators'
    <2> SUFFICES ASSUME NEW t \in peer' \ left
                 PROVE  \E s \in Tab : TabUser[s] = open'[t] /\ Backed(s, t)'
      BY DEF Indicators
    <2>1. t \in Tab /\ t \in peer \ left /\ open'[t] = open[t]
      BY <1>1 DEF TypeOK
    <2>2. PICK s \in Tab : TabUser[s] = open[t] /\ Backed(s, t)
      BY <1>1, <2>1 DEF Indicators
    <2>3. Backed(s, t)'
      BY <1>3, <1>4, <2>1, <2>2 DEF Backed
    <2> QED
      BY <2>1, <2>2, <2>3
  <1> QED
    BY <1>2, <1>5, <1>6 DEF Backing

\* A notice is added behind those that wait.
LEMMA Emitted ==
    ASSUME up \in [Tab -> Seq(Notice)], NEW t0 \in Tab, NEW n \in Notice,
           up' = [up EXCEPT ![t0] = Append(up[t0], n)]
    PROVE  /\ Len(up'[t0]) = Len(up[t0]) + 1 /\ up'[t0][Len(up[t0]) + 1] = n
           /\ \A s \in Tab :
                /\ Len(up[s]) \in Nat
                /\ s # t0 => up'[s] = up[s]
                /\ \A i \in 1..Len(up[s]) :
                     i \in 1..Len(up'[s]) /\ up'[s][i] = up[s][i]
  <1>1. /\ up'[t0] = Append(up[t0], n) /\ up[t0] \in Seq(Notice)
        /\ \A s \in Tab \ {t0} : up'[s] = up[s]
    OBVIOUS
  <1>2. \A s \in Tab : Len(up[s]) \in Nat
    BY QueueAppend
  <1>3. /\ Len(up'[t0]) = Len(up[t0]) + 1 /\ up'[t0][Len(up[t0]) + 1] = n
        /\ \A i \in 1..Len(up[t0]) : up'[t0][i] = up[t0][i]
    BY <1>1, QueueAppend
  <1> QED
    BY <1>1, <1>2, <1>3

LEMMA EndBacking ==
    ASSUME IInv, NEW t0 \in Tab, StopBurst(t0) \/ Fire(t0),
           wire' = wire, left' = left,
           \A t \in Tab \ {t0} : open'[t] = open[t],
           \A t \in peer' : t \in peer /\ open'[t] = open[t]
    PROVE  Backing'
  <1>1. up \in [Tab -> Seq(Notice)]
    BY DEF IInv, TypedBursts, TypeOK
  <1>2. /\ sent' = sent \ {t0}
        /\ t0 \notin sent => up' = up
        /\ t0 \in sent =>
              /\ [typing |-> FALSE, to |-> open[t0]] \in Notice
              /\ up' = [up EXCEPT ![t0] =
                          Append(up[t0], [typing |-> FALSE, to |-> open[t0]])]
    BY BurstEnds
  <1>3. \A s \in Tab :
          /\ Len(up[s]) \in Nat
          /\ s # t0 => up'[s] = up[s]
          /\ \A i \in 1..Len(up[s]) : i \in 1..Len(up'[s]) /\ up'[s][i] = up[s][i]
    <2>1. CASE t0 \notin sent
      BY <1>1, <1>2, <2>1, QueueAppend
    <2>2. CASE t0 \in sent
      BY <1>1, <1>2, <2>2, Emitted
    <2> QED
      BY <2>1, <2>2
  <1>4. t0 \in sent =>
          /\ Len(up'[t0]) = Len(up[t0]) + 1
          /\ up'[t0][Len(up[t0]) + 1] = [typing |-> FALSE, to |-> open[t0]]
    BY <1>1, <1>2, Emitted
  <1>5. ASSUME NEW s \in Tab, NEW t \in Tab, NEW i \in 0..Len(up[s]), StopUp(s, t, i)
        PROVE  StopUp(s, t, i)'
    BY <1>3, <1>5 DEF StopUp
  <1>6. ASSUME NEW s \in Tab, NEW t \in Tab, NEW i \in 0..Len(up[s]), Burst(s, t)
        PROVE  Burst(s, t)' \/ StopUp(s, t, i)'
    <2>1. CASE s # t0
      BY <1>2, <1>6, <2>1 DEF Burst
    <2>2. CASE s = t0
      <3>1. t0 \in sent /\ open[t0] = TabUser[t] /\ Len(up[t0]) \in Nat
        BY <1>3, <1>6, <2>2 DEF Burst
      <3>2. /\ Len(up'[t0]) = Len(up[t0]) + 1
            /\ up'[t0][Len(up[t0]) + 1] = [typing |-> FALSE, to |-> TabUser[t]]
        BY <1>4, <3>1
      <3> QED
        BY <2>2, <3>1, <3>2 DEF StopUp
    <2> QED
      BY <2>1, <2>2
  <1>7. ASSUME NEW s \in Tab, NEW t \in Tab, NEW i \in 1..Len(up'[s]),
               up'[s][i] = [typing |-> TRUE, to |-> TabUser[t]]
        PROVE  i \in 1..Len(up[s]) /\ up[s][i] = up'[s][i]
    <2>1. up'[s][i] # [typing |-> FALSE, to |-> open[t0]]
      BY <1>7
    <2>2. i \in 1..Len(up[s])
      BY <1>2, <1>3, <1>4, <2>1
    <2> QED
      BY <1>3, <2>2
  <1> QED
    BY <1>5, <1>6, <1>7, Carry

LEMMA KeystrokeBacking ==
    ASSUME IInv, NEW t0 \in Tab, Keystroke(t0)
    PROVE  Backing'
  <1>1. up \in [Tab -> Seq(Notice)] /\ open[t0] \in User
    BY DEF IInv, TypedBursts, TypeOK, Keystroke
  <1>2. [typing |-> TRUE, to |-> open[t0]] \in Notice
    BY <1>1 DEF Notice
  <1>3. \A s \in Tab :
          /\ Len(up[s]) \in Nat
          /\ \A i \in 1..Len(up[s]) : i \in 1..Len(up'[s]) /\ up'[s][i] = up[s][i]
    <2>1. CASE t0 \in sent
      BY <1>1, <2>1, QueueAppend DEF Keystroke
    <2>2. CASE t0 \notin sent
      BY <1>1, <1>2, <2>2, Emitted DEF Keystroke, Emit
    <2> QED
      BY <2>1, <2>2
  <1>4. \A s, t \in Tab : Burst(s, t) => Burst(s, t)'
    BY DEF Burst, Keystroke
  <1>5. ASSUME NEW s \in Tab, NEW t \in Tab, NEW i \in 0..Len(up[s]), StopUp(s, t, i)
        PROVE  StopUp(s, t, i)'
    BY <1>3, <1>5 DEF StopUp
  <1>6. ASSUME NEW s \in Tab, NEW t \in Tab, NEW i \in 1..Len(up'[s]),
               up'[s][i] = [typing |-> TRUE, to |-> TabUser[t]]
        PROVE  \/ Burst(s, t)'
               \/ i \in 1..Len(up[s]) /\ up[s][i] = up'[s][i]
    <2>1. CASE i \in 1..Len(up[s])
      BY <1>3, <2>1
    <2>2. CASE i \notin 1..Len(up[s])
      <3>1. s = t0 /\ up'[s] = Append(up[s], [typing |-> TRUE, to |-> open[t0]])
        BY <1>1, <2>2 DEF Keystroke, Emit
      <3>2. i = Len(up[s]) + 1 /\ up'[s][i] = [typing |-> TRUE, to |-> open[t0]]
        BY <1>1, <1>2, <2>2, <3>1, QueueAppend
      <3>3. open[t0] = TabUser[t]
        BY <1>6, <3>2
      <3> QED
        BY <3>1, <3>3 DEF Burst, Keystroke
    <2> QED
      BY <2>1, <2>2
  <1> QED
    BY <1>4, <1>5, <1>6, Carry DEF Keystroke

LEMMA ConnectBacking ==
    ASSUME IInv, UNCHANGED <<open, sent, up, wire, peer, left>>
    PROVE  Backing'
  BY DEF IInv, Backing, StartsUp, StartsWire, Indicators, Backed, Burst, StopUp,
         StopWire

\* Nobody is promised anything about who leaves.
LEMMA UnplugBacking ==
    ASSUME IInv, NEW t0 \in Tab, Logout(t0) \/ Drop(t0)
    PROVE  Backing'
  <1>1. /\ left' = left \cup {t0} /\ peer' \subseteq peer /\ peer \subseteq Tab
        /\ StartsUp /\ StartsWire /\ Indicators
        /\ \A s \in Tab \ {t0} : /\ up'[s] = up[s] /\ open'[s] = open[s]
                                 /\ s \in sent' <=> s \in sent
        /\ \A s, t \in Tab \ {t0} : wire'[s][t] = wire[s][t]
    BY DEF Logout, Drop, Unplug, IInv, TypedBursts, TypeOK
  <1>2. \A s \in Tab \ {t0}, t \in Tab, i \in Nat :
            (Burst(s, t)' <=> Burst(s, t)) /\ (StopUp(s, t, i)' <=> StopUp(s, t, i))
    BY <1>1 DEF Burst, StopUp
  <1>3. \A s, t \in Tab \ {t0}, i \in Nat : StopWire(s, t, i)' <=> StopWire(s, t, i)
    BY <1>1 DEF StopWire
  <1>4. StartsUp'
    BY <1>1, <1>2 DEF StartsUp
  <1>5. StartsWire'
    BY <1>1, <1>2, <1>3 DEF StartsWire
  <1>6. Indicators'
    <2> SUFFICES ASSUME NEW t \in peer' \ left'
                 PROVE  \E s \in Tab : TabUser[s] = open'[t] /\ Backed(s, t)'
      BY DEF Indicators
    <2>1. t \in Tab \ {t0} /\ t \in peer \ left /\ open'[t] = open[t]
      BY <1>1
    <2>2. PICK s \in Tab : TabUser[s] = open[t] /\ Backed(s, t)
      BY <1>1, <2>1 DEF Indicators
    <2>3. Backed(s, t)'
      BY <1>1, <1>2, <1>3, <2>1, <2>2 DEF Backed
    <2> QED
      BY <2>1, <2>2, <2>3
  <1> QED
    BY <1>4, <1>5, <1>6 DEF Backing

\* A notice goes from one queue to the other: to every tab of its addressee.
LEMMA RelayBacking ==
    ASSUME IInv, NEW s0 \in Tab, Relay(s0)
    PROVE  Backing'
  <1> DEFINE n == Head(up[s0])
  <1>1. /\ up \in [Tab -> Seq(Notice)] /\ wire \in [Tab -> [Tab -> Seq(BOOLEAN)]]
        /\ peer \subseteq Tab
        /\ Peers /\ StartsUp /\ StartsWire /\ Indicators
        /\ UNCHANGED <<online, open, sent, peer, left>>
    BY DEF IInv, TypedBursts, TypeOK, Relay
  <1>2. /\ Len(up[s0]) \in Nat \ {0} /\ Len(up'[s0]) = Len(up[s0]) - 1
        /\ n = up[s0][1] /\ n \in Notice
        /\ \A i \in 1..(Len(up[s0]) - 1) : up'[s0][i] = up[s0][i + 1]
        /\ \A s \in Tab \ {s0} : up'[s] = up[s]
    <2>1. /\ up[s0] \in Seq(Notice) /\ up[s0] # <<>>
          /\ up'[s0] = Tail(up[s0]) /\ \A s \in Tab \ {s0} : up'[s] = up[s]
      BY <1>1 DEF Relay
    <2> QED
      BY <2>1, QueueTail
  <1>3. \A s, t \in Tab :
          IF s = s0 /\ t \in online /\ TabUser[t] = n.to /\ n.to # TabUser[s0]
          THEN wire'[s][t] = Append(wire[s][t], n.typing)
          ELSE wire'[s][t] = wire[s][t]
    BY <1>1 DEF Relay
  <1>4. n.typing \in BOOLEAN
    BY <1>2 DEF Notice
  <1>5. \A s, t \in Tab :
          /\ Len(wire[s][t]) \in Nat
          /\ \A i \in 1..Len(wire[s][t]) :
               i \in 1..Len(wire'[s][t]) /\ wire'[s][t][i] = wire[s][t][i]
          /\ \A i \in 1..Len(wire'[s][t]) : i \notin 1..Len(wire[s][t]) =>
               s = s0 /\ TabUser[t] = n.to /\ wire'[s][t][i] = n.typing
          /\ s = s0 /\ t \in online /\ TabUser[t] = n.to /\ n.to # TabUser[s0] =>
               /\ Len(wire'[s][t]) = Len(wire[s][t]) + 1
               /\ wire'[s][t][Len(wire[s][t]) + 1] = n.typing
    <2> SUFFICES ASSUME NEW s \in Tab, NEW t \in Tab
                 PROVE
          /\ Len(wire[s][t]) \in Nat
          /\ \A i \in 1..Len(wire[s][t]) :
               i \in 1..Len(wire'[s][t]) /\ wire'[s][t][i] = wire[s][t][i]
          /\ \A i \in 1..Len(wire'[s][t]) : i \notin 1..Len(wire[s][t]) =>
               s = s0 /\ TabUser[t] = n.to /\ wire'[s][t][i] = n.typing
          /\ s = s0 /\ t \in online /\ TabUser[t] = n.to /\ n.to # TabUser[s0] =>
               /\ Len(wire'[s][t]) = Len(wire[s][t]) + 1
               /\ wire'[s][t][Len(wire[s][t]) + 1] = n.typing
      OBVIOUS
    <2>1. wire[s][t] \in Seq(BOOLEAN)
      BY <1>1
    <2>2. CASE s = s0 /\ t \in online /\ TabUser[t] = n.to /\ n.to # TabUser[s0]
      <3>1. wire'[s][t] = Append(wire[s][t], n.typing)
        BY <1>3, <2>2
      <3> HIDE DEF n
      <3> QED
        BY <1>4, <2>1, <2>2, <3>1, QueueAppend
    <2>3. CASE ~(s = s0 /\ t \in online /\ TabUser[t] = n.to /\ n.to # TabUser[s0])
      <3>1. wire'[s][t] = wire[s][t]
        BY <1>3, <2>3
      <3> HIDE DEF n
      <3> QED
        BY <2>1, <2>3, <3>1, QueueAppend
    <2> QED
      BY <2>2, <2>3
  <1> HIDE DEF n
  <1>6. \A s, t \in Tab : Burst(s, t)' <=> Burst(s, t)
    BY <1>1 DEF Burst
  <1>7. ASSUME NEW s \in Tab, NEW t \in Tab, NEW i \in Nat, StopWire(s, t, i)
        PROVE  StopWire(s, t, i)'
    BY <1>5, <1>7 DEF StopWire
  <1>8. ASSUME NEW s \in Tab, NEW t \in Tab, NEW i \in Nat,
               StopUp(s, t, IF s = s0 THEN i + 1 ELSE i)
        PROVE  StopUp(s, t, i)'
    <2>1. CASE s # s0
      BY <1>2, <1>8, <2>1 DEF StopUp
    <2>2. CASE s = s0
      <3>1. PICK j \in 1..Len(up[s0]) :
              j > i + 1 /\ up[s0][j] = [typing |-> FALSE, to |-> TabUser[t]]
        BY <1>8, <2>2 DEF StopUp
      <3>2. j - 1 \in 1..Len(up'[s0]) /\ up'[s0][j - 1] = up[s0][j] /\ j - 1 > i
        BY <1>2, <3>1
      <3> QED
        BY <2>2, <3>1, <3>2 DEF StopUp
    <2> QED
      BY <2>1, <2>2
  <1>9. ASSUME NEW s \in Tab, NEW t \in Tab \ left, StopUp(s, t, 0),
               NEW i \in 0..Len(wire[s][t])
        PROVE  StopUp(s, t, 0)' \/ StopWire(s, t, i)'
    <2>1. CASE s # s0
      BY <1>8, <1>9, <2>1
    <2>2. CASE s = s0
      <3>1. PICK j \in 1..Len(up[s0]) :
              up[s0][j] = [typing |-> FALSE, to |-> TabUser[t]]
        BY <1>9, <2>2 DEF StopUp
      <3>2. CASE j > 1
        <4>1. StopUp(s, t, 1)
          BY <2>2, <3>1, <3>2 DEF StopUp
        <4> QED
          BY <1>8, <2>2, <4>1
      <3>3. CASE j = 1
        <4>1. n.to = TabUser[t] /\ n.typing = FALSE
          BY <1>2, <3>1, <3>3
        <4>2. t \in online /\ n.to # TabUser[s0]
          BY <1>1, <1>2 DEF Peers
        <4>3. /\ Len(wire'[s][t]) = Len(wire[s][t]) + 1
              /\ wire'[s][t][Len(wire[s][t]) + 1] = FALSE
          BY <1>5, <2>2, <4>1, <4>2
        <4> QED
          BY <1>5, <4>3 DEF StopWire
      <3> QED
        BY <1>2, <3>2, <3>3
    <2> QED
      BY <2>1, <2>2
  <1>10. StartsUp'
    <2> SUFFICES ASSUME NEW s \in Tab \ left, NEW t \in Tab, NEW i \in 1..Len(up'[s]),
                        up'[s][i] = [typing |-> TRUE, to |-> TabUser[t]]
                 PROVE  Burst(s, t)' \/ StopUp(s, t, i)'
      BY <1>1 DEF StartsUp
    <2>1. CASE s # s0
      BY <1>1, <1>2, <1>6, <1>8, <2>1 DEF StartsUp
    <2>2. CASE s = s0
      <3>1. i + 1 \in 1..Len(up[s]) /\ up[s][i + 1] = up'[s][i]
        BY <1>2, <2>2
      <3>2. Burst(s, t) \/ StopUp(s, t, i + 1)
        BY <1>1, <3>1 DEF StartsUp
      <3> QED
        BY <1>6, <1>8, <2>2, <3>2
    <2> QED
      BY <2>1, <2>2
  <1>11. \A s, t \in Tab : \A i \in 1..Len(wire[s][t]) :
             wire'[s][t][i] = wire[s][t][i]
    BY <1>5, Zenon
  <1>12. StartsWire'
    <2> SUFFICES ASSUME NEW s \in Tab \ left, NEW t \in Tab \ left,
                        NEW i \in 1..Len(wire'[s][t]), wire'[s][t][i]
                 PROVE  Burst(s, t)' \/ StopUp(s, t, 0)' \/ StopWire(s, t, i)'
      BY <1>1 DEF StartsWire
    <2>1. CASE i \in 1..Len(wire[s][t])
      <3>1. s \in Tab /\ t \in Tab
        OBVIOUS
      <3>2. wire'[s][t][i] = wire[s][t][i]
        BY <1>11, <2>1, <3>1, Zenon
      <3>3. wire[s][t][i]
        BY <3>2, Zenon
      <3>4. Burst(s, t) \/ StopUp(s, t, 0) \/ StopWire(s, t, i)
        BY <1>1, <2>1, <3>3, Zenon DEF StartsWire
      <3> QED
        BY <1>5, <1>6, <1>7, <1>9, <2>1, <3>4
    <2>2. CASE i \notin 1..Len(wire[s][t])
      <3>1. s = s0 /\ TabUser[t] = n.to /\ n.typing
        BY <1>5, <2>2
      <3>2. n = [typing |-> TRUE, to |-> TabUser[t]]
        BY <1>2, <1>4, <3>1 DEF Notice
      <3>3. up[s0][1] = [typing |-> TRUE, to |-> TabUser[t]] /\ 1 \in 1..Len(up[s0])
        BY <1>2, <3>2
      <3>4. Burst(s0, t) \/ StopUp(s0, t, 1)
        BY <1>1, <3>1, <3>3 DEF StartsUp
      <3>5. StopUp(s0, t, 1) => StopUp(s0, t, 0)'
        <4>1. 0 \in Nat /\ 0 + 1 = 1
          OBVIOUS
        <4> QED
          BY <1>8, <4>1
      <3> QED
        BY <1>6, <3>1, <3>4, <3>5
    <2> QED
      BY <2>1, <2>2
  <1>13. Indicators'
    <2> SUFFICES ASSUME NEW t \in peer \ left
                 PROVE  \E s \in Tab : TabUser[s] = open[t] /\ Backed(s, t)'
      BY <1>1 DEF Indicators
    <2>1. PICK s \in Tab : TabUser[s] = open[t] /\ Backed(s, t)
      BY <1>1 DEF Indicators
    <2>2. t \in Tab \ left /\ 0 \in 0..Len(wire[s][t])
      BY <1>1, <1>5
    <2>3. Backed(s, t)'
      BY <1>1, <1>6, <1>7, <1>9, <2>1, <2>2 DEF Backed
    <2> QED
      BY <2>1, <2>3
  <1> QED
    BY <1>10, <1>12, <1>13 DEF Backing

\* A notice leaves the wire: if it is a start, StartsWire says what backs it.
LEMMA HearBacking ==
    ASSUME IInv, NEW s0 \in Tab, NEW t0 \in Tab, Hear(s0, t0)
    PROVE  Backing'
  <1>1. /\ wire \in [Tab -> [Tab -> Seq(BOOLEAN)]] /\ peer \subseteq Tab
        /\ StartsUp /\ StartsWire /\ Indicators
        /\ UNCHANGED <<open, sent, up, left>>
        /\ \A t \in Tab \ {t0} : t \in peer' <=> t \in peer
    BY DEF IInv, TypedBursts, TypeOK, Hear
  <1>2. wire[s0][t0] \in Seq(BOOLEAN) /\ wire[s0][t0] # <<>>
    BY <1>1 DEF Hear
  <1>3. /\ wire'[s0][t0] = Tail(wire[s0][t0])
        /\ \A s, t \in Tab : s # s0 \/ t # t0 => wire'[s][t] = wire[s][t]
    BY <1>1 DEF Hear
  <1>4. /\ Len(wire[s0][t0]) \in Nat \ {0}
        /\ Len(wire'[s0][t0]) = Len(wire[s0][t0]) - 1
        /\ Head(wire[s0][t0]) = wire[s0][t0][1]
        /\ \A i \in 1..(Len(wire[s0][t0]) - 1) :
             wire'[s0][t0][i] = wire[s0][t0][i + 1]
    BY <1>2, <1>3, QueueTail
  <1>5. \A s, t \in Tab : (Burst(s, t)' <=> Burst(s, t))
                          /\ (StopUp(s, t, 0)' <=> StopUp(s, t, 0))
    BY <1>1 DEF Burst, StopUp
  <1>6. \A s, t \in Tab, i \in Nat : s # s0 \/ t # t0 =>
            (StopWire(s, t, i)' <=> StopWire(s, t, i))
    BY <1>3 DEF StopWire
  <1>7. ASSUME NEW i \in Nat, StopWire(s0, t0, i + 1)
        PROVE  StopWire(s0, t0, i)'
    <2>1. PICK j \in 1..Len(wire[s0][t0]) : j > i + 1 /\ ~wire[s0][t0][j]
      BY <1>7 DEF StopWire
    <2>2. /\ j - 1 \in 1..(Len(wire[s0][t0]) - 1) /\ j - 1 > i /\ (j - 1) + 1 = j
          /\ j - 1 \in 1..Len(wire'[s0][t0])
      BY <1>4, <2>1
    <2>3. wire'[s0][t0][j - 1] = wire[s0][t0][j]
      BY <1>4, <2>2
    <2>4. ~wire'[s0][t0][j - 1]
      BY <2>1, <2>3, Zenon
    <2> QED
      BY <2>2, <2>4 DEF StopWire
  <1>8. StartsUp'
    <2> SUFFICES ASSUME NEW s \in Tab \ left, NEW t \in Tab, NEW i \in 1..Len(up[s]),
                        up[s][i] = [typing |-> TRUE, to |-> TabUser[t]]
                 PROVE  Burst(s, t)' \/ StopUp(s, t, i)'
      BY <1>1 DEF StartsUp
    <2>1. Burst(s, t) \/ StopUp(s, t, i)
      BY <1>1 DEF StartsUp
    <2> QED
      BY <1>1, <1>5, <2>1 DEF StopUp
  <1>9. StartsWire'
    <2> SUFFICES ASSUME NEW s \in Tab \ left, NEW t \in Tab \ left,
                        NEW i \in 1..Len(wire'[s][t]), wire'[s][t][i]
                 PROVE  Burst(s, t)' \/ StopUp(s, t, 0)' \/ StopWire(s, t, i)'
      BY <1>1 DEF StartsWire
    <2>1. CASE s # s0 \/ t # t0
      <3>1. wire'[s][t] = wire[s][t]
        BY <1>3, <2>1
      <3>2. Burst(s, t) \/ StopUp(s, t, 0) \/ StopWire(s, t, i)
        BY <1>1, <3>1 DEF StartsWire
      <3> QED
        BY <1>5, <1>6, <2>1, <3>2
    <2>2. CASE s = s0 /\ t = t0
      <3>1. i \in 1..(Len(wire[s0][t0]) - 1) /\ i + 1 \in 1..Len(wire[s0][t0])
        BY <1>4, <2>2
      <3>2. wire'[s0][t0][i] = wire[s0][t0][i + 1]
        BY <1>4, <3>1
      <3>3. wire[s0][t0][i + 1]
        BY <2>2, <3>2, Zenon
      <3>4. Burst(s, t) \/ StopUp(s, t, 0) \/ StopWire(s, t, i + 1)
        BY <1>1, <2>2, <3>1, <3>3, Zenon DEF StartsWire
      <3> QED
        BY <1>5, <1>7, <2>2, <3>1, <3>4
    <2> QED
      BY <2>1, <2>2
  <1>10. Indicators'
    <2> SUFFICES ASSUME NEW t \in peer' \ left
                 PROVE  \E s \in Tab : TabUser[s] = open[t] /\ Backed(s, t)'
      BY <1>1 DEF Indicators
    <2>1. CASE t \in Tab /\ t \in peer /\ (t # t0 \/ open[t] # TabUser[s0])
      <3>1. PICK s \in Tab : TabUser[s] = open[t] /\ Backed(s, t)
        BY <1>1, <2>1 DEF Indicators
      <3>2. s # s0 \/ t # t0
        BY <2>1, <3>1
      <3>3. Backed(s, t)'
        BY <1>1, <1>5, <1>6, <2>1, <3>1, <3>2 DEF Backed
      <3> QED
        BY <3>1, <3>3
    <2>2. CASE t = t0 /\ open[t] = TabUser[s0]
      <3>1. Head(wire[s0][t0])
        BY <1>1, <2>2 DEF Hear
      <3>2. wire[s0][t0][1] /\ 1 \in 1..Len(wire[s0][t0])
        <4>1. 1 \in 1..Len(wire[s0][t0])
          BY <1>4
        <4> QED
          BY <1>4, <3>1, <4>1, Zenon
      <3>3. s0 \in left \/ Burst(s0, t) \/ StopUp(s0, t, 0) \/ StopWire(s0, t, 1)
        BY <1>1, <2>2, <3>2, Zenon DEF StartsWire
      <3>4. StopWire(s0, t0, 1) => StopWire(s0, t0, 0)'
        <4>1. 0 \in Nat /\ 0 + 1 = 1
          OBVIOUS
        <4> QED
          BY <1>7, <4>1
      <3>5. Backed(s0, t)'
        BY <1>1, <1>5, <2>2, <3>3, <3>4 DEF Backed
      <3> QED
        BY <2>2, <3>5
    <2> QED
      BY <1>1, <2>1, <2>2 DEF Hear
  <1> QED
    BY <1>8, <1>9, <1>10 DEF Backing

-----------------------------------------------------------------------------
(* The inductive invariant and the theorem.                                *)

LEMMA InitInv == Init => IInv
  <1> SUFFICES ASSUME Init PROVE IInv
    OBVIOUS
  <1>1. TypedBursts
    BY InitTyped
  <1>2. \A s, t \in Tab : Len(up[s]) = 0 /\ Len(wire[s][t]) = 0
    BY EmptySeq DEF Init
  <1>3. Peers
    BY <1>2, NoneAssumption, TabUserAssumption DEF Init, Peers
  <1>4. StartsUp /\ StartsWire /\ Indicators
    BY <1>2 DEF Init, StartsUp, StartsWire, Indicators
  <1> QED
    BY <1>1, <1>3, <1>4 DEF IInv

LEMMA StepInv == IInv /\ [Next]_vars => IInv'
  <1> SUFFICES ASSUME IInv, [Next]_vars PROVE IInv'
    OBVIOUS
  <1>1. TypedBursts' /\ Peers'
    BY StepTyped, StepPeers DEF IInv
  <1>2. ASSUME NEW t \in Tab, EmptyDraft(t) \/ Fire(t) PROVE Backing'
    BY <1>2, EndBacking DEF EmptyDraft, Fire
  <1>3. ASSUME NEW t \in Tab, NEW u \in User, Select(t, u) PROVE Backing'
    <2>1. \A t1 \in Tab \ {t} : open'[t1] = open[t1]
      BY <1>3 DEF Select, IInv, TypedBursts, TypeOK
    <2>2. \A t1 \in peer' : t1 \in peer /\ open'[t1] = open[t1]
      BY <1>3, <2>1 DEF Select, IInv, TypedBursts, TypeOK
    <2> QED
      BY <1>3, <2>1, <2>2, EndBacking DEF Select
  <1>4. ASSUME NEW t \in Tab, Connect(t) PROVE Backing'
    BY <1>4, ConnectBacking DEF Connect
  <1>5. ASSUME UNCHANGED vars PROVE Backing'
    BY <1>5, ConnectBacking DEF vars
  <1>6. Backing'
    BY <1>2, <1>3, <1>4, <1>5, KeystrokeBacking, UnplugBacking, RelayBacking,
       HearBacking DEF Next
  <1> QED
    BY <1>1, <1>6 DEF Backing, IInv

LEMMA Invariance == Spec => []IInv
  BY InitInv, StepInv, PTL DEF Spec

\* An indicator that is on when nothing is under way has a burst behind it, or
\* somebody who left: for any users, any number of tabs each, and any queues.
THEOREM IndicatorBackedAlways == Spec => []IndicatorBacked
  <1>1. IInv => IndicatorBacked
    <2> SUFFICES ASSUME IInv, \A s, t \in Tab : up[s] = <<>> /\ wire[s][t] = <<>>,
                        NEW t \in peer \ left
                 PROVE  \E s \in Tab :
                          /\ TabUser[s] = open[t]
                          /\ s \in left \/ (s \in sent /\ open[s] = TabUser[t])
      BY DEF IndicatorBacked
    <2>1. t \in Tab /\ Indicators
      BY DEF IInv, TypedBursts, TypeOK
    <2>2. PICK s \in Tab : TabUser[s] = open[t] /\ Backed(s, t)
      BY <2>1 DEF Indicators
    <2>3. Len(up[s]) = 0 /\ Len(wire[s][t]) = 0
      BY <2>1, EmptySeq
    <2>4. ~StopUp(s, t, 0) /\ ~StopWire(s, t, 0)
      BY <2>3 DEF StopUp, StopWire
    <2> QED
      BY <2>2, <2>4 DEF Backed, Burst
  <1> QED
    BY <1>1, Invariance, PTL
=============================================================================
