--------------------------- MODULE PresenceProofs ---------------------------
(* Theorems about Presence, for any nodes, users and finite set of sockets. *)
EXTENDS Presence, TLAPS, FiniteSetTheorems, QueueLemmas

-----------------------------------------------------------------------------
(* Type correctness.                                                       *)

LEMMA IssueType ==
    ASSUME TypeOK, NEW n \in Node, NEW op \in Ops, NEW s \in Socket,
           Issue(n, op, s)
    PROVE  cmdq' \in [Node -> Seq(Command)]
  <1>1. [op |-> op, sock |-> s] \in Command
    BY DEF Command
  <1>2. Append(cmdq[n], [op |-> op, sock |-> s]) \in Seq(Command)
    BY <1>1, QueueAppend DEF TypeOK
  <1> QED
    BY <1>2 DEF Issue, TypeOK

LEMMA AnswerType ==
    ASSUME TypeOK, NEW n \in Node, cmdq[n] # <<>>, NEW c \in Int,
           Answer(n, c)
    PROVE  /\ cmdq' \in [Node -> Seq(Command)]
           /\ replyq' \in [Node -> Seq(Reply)]
  <1> DEFINE r == [op |-> Head(cmdq[n]).op, sock |-> HeadSock(n), count |-> c]
  <1>1. Tail(cmdq[n]) \in Seq(Command) /\ Head(cmdq[n]) \in Command
    BY QueueTail DEF TypeOK
  <1>2. r \in Reply
    BY <1>1 DEF Command, Reply, HeadSock
  <1>3. Append(replyq[n], r) \in Seq(Reply)
    BY <1>2, QueueAppend DEF TypeOK
  <1> QED
    BY <1>1, <1>3 DEF Answer, TypeOK

LEMMA HeadType ==
    ASSUME TypeOK, NEW n \in Node, cmdq[n] # <<>>
    PROVE  HeadSock(n) \in Socket /\ HeadUser(n) \in User
  <1>1. Head(cmdq[n]) \in Command
    BY QueueTail DEF TypeOK
  <1> QED
    BY <1>1, UserOfAssumption DEF Command, HeadSock, HeadUser

LEMMA ReplyType ==
    ASSUME TypeOK, NEW n \in Node, replyq[n] # <<>>, Resume(n)
    PROVE  /\ replyq' \in [Node -> Seq(Reply)]
           /\ Head(replyq[n]).sock \in Socket
           /\ UserOf[Head(replyq[n]).sock] \in User
  <1>1. Tail(replyq[n]) \in Seq(Reply) /\ Head(replyq[n]) \in Reply
    BY QueueTail DEF TypeOK
  <1> QED
    BY <1>1, UserOfAssumption DEF Resume, Reply, TypeOK

LEMMA TellType ==
    ASSUME TypeOK, NEW n \in Node, NEW u \in User, NEW online, Tell(n, u, online)
    PROVE  view' \in [Node -> [User -> Told]]
  BY DEF Tell, TypeOK, Told

LEMMA InitType == Init => TypeOK
  BY EmptySeq DEF Init, TypeOK, Told

LEMMA StepType == TypeOK /\ [Next]_vars => TypeOK'
  <1> SUFFICES ASSUME TypeOK, [Next]_vars PROVE TypeOK'
    OBVIOUS
  <1>1. ASSUME NEW s \in Socket, Connect(s) PROVE TypeOK'
    <2>1. cmdq' \in [Node -> Seq(Command)]
      BY <1>1, IssueType DEF Connect, Ops, TypeOK
    <2> QED
      BY <1>1, <2>1 DEF Connect, TypeOK
  <1>2. ASSUME NEW s \in Socket, Disconnect(s) PROVE TypeOK'
    <2>1. cmdq' \in [Node -> Seq(Command)]
      BY <1>2, IssueType DEF Disconnect, Ops, TypeOK
    <2> QED
      BY <1>2, <2>1 DEF Disconnect, TypeOK
  <1>3. ASSUME NEW n \in Node, ExecIncr(n) PROVE TypeOK'
    <2>1. cmdq[n] # <<>> /\ HeadSock(n) \in Socket /\ HeadUser(n) \in User
      BY <1>3, HeadType DEF ExecIncr, HeadIs
    <2>2. counts[HeadUser(n)] + 1 \in Int
      BY <2>1 DEF TypeOK
    <2>3. cmdq' \in [Node -> Seq(Command)] /\ replyq' \in [Node -> Seq(Reply)]
      BY <1>3, <2>1, <2>2, AnswerType DEF ExecIncr
    <2> QED
      BY <1>3, <2>1, <2>2, <2>3 DEF ExecIncr, TypeOK
  <1>4. ASSUME NEW n \in Node, ExecDecr(n) PROVE TypeOK'
    <2>1. cmdq[n] # <<>> /\ HeadSock(n) \in Socket /\ HeadUser(n) \in User
      BY <1>4, HeadType DEF ExecDecr, HeadIs
    <2>2. counts[HeadUser(n)] - 1 \in Int
      BY <2>1 DEF TypeOK
    <2>3. cmdq' \in [Node -> Seq(Command)] /\ replyq' \in [Node -> Seq(Reply)]
      BY <1>4, <2>1, <2>2, AnswerType DEF ExecDecr
    <2> QED
      BY <1>4, <2>1, <2>2, <2>3 DEF ExecDecr, TypeOK
  <1>5. ASSUME NEW n \in Node, ExecDel(n) PROVE TypeOK'
    <2>1. cmdq[n] # <<>>
      BY <1>5 DEF ExecDel, HeadIs
    <2>2. cmdq' \in [Node -> Seq(Command)] /\ replyq' \in [Node -> Seq(Reply)]
      BY <1>5, <2>1, AnswerType DEF ExecDel
    <2> QED
      BY <1>5, <2>2 DEF ExecDel, TypeOK
  <1>6. ASSUME NEW n \in Node, ExecOffline(n) PROVE TypeOK'
    <2>1. cmdq[n] # <<>> /\ HeadUser(n) \in User
      BY <1>6, HeadType DEF ExecOffline, HeadIs
    <2>2. cmdq' \in [Node -> Seq(Command)] /\ replyq' \in [Node -> Seq(Reply)]
      BY <1>6, <2>1, AnswerType DEF ExecOffline
    <2> QED
      BY <1>6, <2>1, <2>2 DEF ExecOffline, TypeOK
  <1>7. ASSUME NEW n \in Node, ExecPublish(n) PROVE TypeOK'
    <2> DEFINE e == [user |-> HeadUser(n), online |-> HeadIs(n, "sayOnline")]
    <2>1. cmdq[n] # <<>>
      BY <1>7 DEF ExecPublish, HeadIs
    <2>2. Tail(cmdq[n]) \in Seq(Command) /\ HeadUser(n) \in User
      BY <2>1, QueueTail, HeadType DEF TypeOK
    <2>3. HeadIs(n, "sayOnline") \in BOOLEAN
      BY DEF HeadIs
    <2>4. e \in Event
      BY <2>2, <2>3 DEF Event
    <2>5. \A m \in Node : Append(inbox[m], e) \in Seq(Event)
      BY <2>4, QueueAppend DEF TypeOK
    <2>6. inbox' \in [Node -> Seq(Event)]
      BY <1>7, <2>5 DEF ExecPublish, TypeOK
    <2> QED
      BY <1>7, <2>2, <2>6 DEF ExecPublish, TypeOK
  <1>8. ASSUME NEW n \in Node, OnIncrReply(n) PROVE TypeOK'
    <2>1. replyq' \in [Node -> Seq(Reply)] /\ Head(replyq[n]).sock \in Socket
      BY <1>8, ReplyType DEF OnIncrReply, ReplyIs
    <2>2. cmdq' \in [Node -> Seq(Command)]
      BY <1>8, <2>1, IssueType DEF OnIncrReply, Ops, TypeOK
    <2> QED
      BY <1>8, <2>1, <2>2 DEF OnIncrReply, TypeOK
  <1>9. ASSUME NEW n \in Node, OnDecrReply(n) PROVE TypeOK'
    <2>1. replyq' \in [Node -> Seq(Reply)] /\ Head(replyq[n]).sock \in Socket
      BY <1>9, ReplyType DEF OnDecrReply, ReplyIs
    <2>2. cmdq' \in [Node -> Seq(Command)]
      BY <1>9, <2>1, IssueType DEF OnDecrReply, Ops, TypeOK
    <2> QED
      BY <1>9, <2>1, <2>2 DEF OnDecrReply, TypeOK
  <1>10. ASSUME NEW n \in Node, OnDelReply(n) PROVE TypeOK'
    <2>1. /\ replyq' \in [Node -> Seq(Reply)] /\ Head(replyq[n]).sock \in Socket
          /\ UserOf[Head(replyq[n]).sock] \in User
      BY <1>10, ReplyType DEF OnDelReply, ReplyIs
    <2>2. cmdq' \in [Node -> Seq(Command)]
      BY <1>10, <2>1, IssueType DEF OnDelReply, Ops
    <2>3. view' \in [Node -> [User -> Told]]
      BY <1>10, <2>1, TellType DEF OnDelReply
    <2> QED
      BY <1>10, <2>1, <2>2, <2>3 DEF OnDelReply, TypeOK
  <1>11. ASSUME NEW n \in Node, OnOfflineReply(n) PROVE TypeOK'
    <2>1. /\ replyq' \in [Node -> Seq(Reply)] /\ Head(replyq[n]).sock \in Socket
          /\ UserOf[Head(replyq[n]).sock] \in User
      BY <1>11, ReplyType DEF OnOfflineReply, ReplyIs
    <2>2. cmdq' \in [Node -> Seq(Command)]
      BY <1>11, <2>1, IssueType DEF OnOfflineReply, Ops
    <2>3. view' \in [Node -> [User -> Told]]
      BY <1>11, <2>1, TellType DEF OnOfflineReply
    <2> QED
      BY <1>11, <2>1, <2>2, <2>3 DEF OnOfflineReply, TypeOK
  <1>12. ASSUME NEW n \in Node, Receive(n) PROVE TypeOK'
    <2>1. Tail(inbox[n]) \in Seq(Event) /\ Head(inbox[n]) \in Event
      BY <1>12, QueueTail DEF Receive, TypeOK
    <2>2. view' \in [Node -> [User -> Told]]
      BY <1>12, <2>1, TellType DEF Receive, Event
    <2> QED
      BY <1>12, <2>1, <2>2 DEF Receive, TypeOK
  <1>13. ASSUME NEW n \in Node, Stop(n) PROVE TypeOK'
    <2>1. PICK k \in 0..Len(cmdq[n]) :
            cmdq' = [cmdq EXCEPT ![n] = SubSeq(@, 1, k)]
      BY <1>13 DEF Stop
    <2>2. SubSeq(cmdq[n], 1, k) \in Seq(Command)
      BY QueuePrefix DEF TypeOK
    <2>3. cmdq' \in [Node -> Seq(Command)]
      BY <2>1, <2>2 DEF TypeOK
    <2>4. replyq' \in [Node -> Seq(Reply)] /\ inbox' \in [Node -> Seq(Event)]
      BY <1>13, EmptySeq DEF Stop, TypeOK
    <2> QED
      BY <1>13, <2>3, <2>4 DEF Stop, TypeOK
  <1>14. CASE UNCHANGED vars
    BY <1>14 DEF vars, TypeOK
  <1> QED
    BY <1>1, <1>2, <1>3, <1>4, <1>5, <1>6, <1>7, <1>8, <1>9, <1>10, <1>11,
       <1>12, <1>13, <1>14 DEF Next, Redis, EventLoop

\* The state of the presence counter always has its type: in particular the
\* counts are integers and every queue holds only commands the code issues.
THEOREM TypeCorrect == Spec => []TypeOK
  BY InitType, StepType, PTL DEF Spec

-----------------------------------------------------------------------------
(* Which sockets are counted.  CountBound is not inductive: that a DECR is *)
(* never executed before the INCR of its socket rests on the order of the  *)
(* commands on one connection.                                             *)

Pos(n) == 1..Len(cmdq[n])
Is(n, i, op, s) == cmdq[n][i].op = op /\ cmdq[n][i].sock = s

\* A queued INCR is that of a socket that has connected here and is not
\* counted yet; it is queued once.
IncrInv ==
    \A n \in Node, s \in Socket : \A i \in Pos(n) : Is(n, i, "incr", s) =>
        /\ home[s] = n /\ phase[s] # "new" /\ s \notin counted
        /\ \A j \in Pos(n) : Is(n, j, "incr", s) => j = i

\* A queued DECR is that of a closed socket of this node that is counted or
\* whose INCR is further ahead in the queue; it is queued once.
DecrInv ==
    \A n \in Node, s \in Socket : \A i \in Pos(n) : Is(n, i, "decr", s) =>
        /\ home[s] = n /\ phase[s] = "closed"
        /\ s \in counted \/ \E j \in 1..(i - 1) : Is(n, j, "incr", s)
        /\ \A j \in Pos(n) : Is(n, j, "decr", s) => j = i

\* A socket is counted only after it connected; until its node stops, an open
\* one is counted or about to be, and a closed one about to be counted out.
SocketInv ==
    \A s \in Socket :
        LET coming == s \in counted \/ \E i \in Pos(home[s]) : Is(home[s], i, "incr", s)
            going  == \E i \in Pos(home[s]) : Is(home[s], i, "decr", s)
        IN  /\ s \in counted => phase[s] # "new"
            /\ phase[s] = "open" => coming
            /\ phase[s] = "closed" /\ coming /\ home[s] \in alive => going

QueueInv == IncrInv /\ DecrInv /\ SocketInv

IInv == TypeOK /\ QueueInv /\ CountBound

\* A step that takes the head of n's queue moves every other command up by
\* one; a step that appends a command leaves the others where they are.
Moved(m, n) == IF m = n THEN 1 ELSE 0

LEMMA PopEffect ==
    ASSUME TypeOK, NEW n \in Node, cmdq[n] # <<>>,
           cmdq' = [cmdq EXCEPT ![n] = Tail(@)], NEW m \in Node
    PROVE  /\ Moved(m, n) \in Nat
           /\ Len(cmdq[m]) \in Nat /\ Len(cmdq'[m]) \in Nat
           /\ Len(cmdq'[m]) = Len(cmdq[m]) - Moved(m, n)
           /\ \A i \in 1..Len(cmdq'[m]) : cmdq'[m][i] = cmdq[m][i + Moved(m, n)]
           /\ \A i \in 1..Len(cmdq[m]) :
                i > Moved(m, n) \/ (m = n /\ cmdq[m][i] = Head(cmdq[n]))
  <1>1. CASE m = n
    <2>1. cmdq'[m] = Tail(cmdq[m])
      BY <1>1 DEF TypeOK
    <2> QED
      BY <1>1, <2>1, QueueTail DEF TypeOK, Moved
  <1>2. CASE m # n
    <2>1. cmdq'[m] = cmdq[m]
      BY <1>2 DEF TypeOK
    <2> QED
      BY <1>2, <2>1, LenProperties DEF TypeOK, Moved
  <1> QED
    BY <1>1, <1>2

LEMMA PushEffect ==
    ASSUME TypeOK, NEW n \in Node, NEW op \in Ops, NEW s \in Socket,
           Issue(n, op, s), NEW m \in Node
    PROVE  /\ Len(cmdq[m]) \in Nat
           /\ Len(cmdq'[m]) = Len(cmdq[m]) + Moved(m, n)
           /\ \A i \in 1..Len(cmdq[m]) : cmdq'[m][i] = cmdq[m][i]
           /\ m = n => cmdq'[m][Len(cmdq'[m])] = [op |-> op, sock |-> s]
           /\ Moved(m, n) = IF m = n THEN 1 ELSE 0
  <1> DEFINE c == [op |-> op, sock |-> s]
  <1>1. c \in Command
    BY DEF Command
  <1> HIDE DEF c
  <1>2. CASE m = n
    <2>1. cmdq'[m] = Append(cmdq[m], c)
      BY <1>2 DEF TypeOK, Issue, c
    <2> QED
      BY <1>1, <1>2, <2>1, QueueAppend DEF TypeOK, Moved, c
  <1>3. CASE m # n
    <2>1. cmdq'[m] = cmdq[m]
      BY <1>3 DEF TypeOK, Issue
    <2> QED
      BY <1>3, <2>1, LenProperties DEF TypeOK, Moved
  <1> QED
    BY <1>2, <1>3

LEMMA PopAt ==
    ASSUME TypeOK, NEW n \in Node, cmdq[n] # <<>>,
           cmdq' = [cmdq EXCEPT ![n] = Tail(@)],
           NEW m \in Node, NEW op, NEW s
    PROVE  /\ Moved(m, n) \in Nat /\ Pos(m) \subseteq Int
           /\ \A i \in Pos(m)' : Is(m, i, op, s)' =>
                /\ i \in Int /\ i + Moved(m, n) \in Pos(m)
                /\ Is(m, i + Moved(m, n), op, s)
           /\ \A i \in Pos(m) : Is(m, i, op, s) =>
                \/ m = n /\ Head(cmdq[n]).op = op /\ Head(cmdq[n]).sock = s
                \/ i - Moved(m, n) \in Pos(m)' /\ Is(m, i - Moved(m, n), op, s)'
  <1> DEFINE d == Moved(m, n)
  <1>1. /\ d \in Nat
        /\ Len(cmdq[m]) \in Nat /\ Len(cmdq'[m]) \in Nat
        /\ Len(cmdq'[m]) = Len(cmdq[m]) - d
        /\ \A i \in 1..Len(cmdq'[m]) : cmdq'[m][i] = cmdq[m][i + d]
        /\ \A i \in 1..Len(cmdq[m]) :
             i > d \/ (m = n /\ cmdq[m][i] = Head(cmdq[n]))
    BY PopEffect
  <1> HIDE DEF d
  <1>2. \A i \in Pos(m)' : i + d \in Pos(m) /\ cmdq'[m][i] = cmdq[m][i + d]
    BY <1>1 DEF Pos
  <1>3. \A i \in Pos(m) : i > d =>
          i - d \in Pos(m)' /\ (i - d) + d = i
    BY <1>1 DEF Pos
  <1>4. \A i \in Pos(m)' : i \in Int
    BY <1>1 DEF Pos
  <1>5. \A i \in Pos(m) : i \in Int
    BY <1>1 DEF Pos
  <1>6. \A i \in Pos(m)' : Is(m, i, op, s)' => Is(m, i + d, op, s)
    BY <1>2 DEF Is
  <1>7. ASSUME NEW i \in Pos(m), Is(m, i, op, s)
        PROVE  \/ m = n /\ Head(cmdq[n]).op = op /\ Head(cmdq[n]).sock = s
               \/ i - d \in Pos(m)' /\ Is(m, i - d, op, s)'
    <2>1. CASE i > d
      <3>1. i - d \in Pos(m)' /\ cmdq'[m][i - d] = cmdq[m][i]
        BY <1>2, <1>3, <2>1
      <3> QED
        BY <1>7, <3>1 DEF Is
    <2>2. CASE m = n /\ cmdq[m][i] = Head(cmdq[n])
      BY <1>7, <2>2 DEF Is
    <2> QED
      BY <1>1, <2>1, <2>2 DEF Pos
  <1> QED
    BY <1>1, <1>2, <1>4, <1>5, <1>6, <1>7 DEF d

\* Executing the head of a queue, with the effect on counted of its kind.
LEMMA PopQueueInv ==
    ASSUME TypeOK, QueueInv, NEW n \in Node, cmdq[n] # <<>>,
           cmdq' = [cmdq EXCEPT ![n] = Tail(@)],
           UNCHANGED <<phase, home, alive>>,
           counted' = CASE Head(cmdq[n]).op = "incr" -> counted \cup {HeadSock(n)}
                        [] Head(cmdq[n]).op = "decr" -> counted \ {HeadSock(n)}
                        [] OTHER -> counted
    PROVE  /\ QueueInv'
           /\ Head(cmdq[n]).op = "incr" => HeadSock(n) \notin counted
           /\ Head(cmdq[n]).op = "decr" => HeadSock(n) \in counted
  <1> DEFINE op == Head(cmdq[n]).op
             h == HeadSock(n)
  <1>1. h \in Socket /\ 1 \in Pos(n) /\ Is(n, 1, op, h) /\ Len(cmdq[n]) \in Nat
    BY HeadType, QueueTail DEF TypeOK, Pos, Is, HeadSock
  <1>2. /\ op = "incr" => h \notin counted /\ phase[h] # "new" /\ home[h] = n
        /\ op = "decr" => h \in counted /\ phase[h] = "closed" /\ home[h] = n
    BY <1>1 DEF QueueInv, IncrInv, DecrInv
  <1>3. /\ op = "incr" => counted' = counted \cup {h}
        /\ op = "decr" => counted' = counted \ {h}
        /\ op # "incr" /\ op # "decr" => counted' = counted
    OBVIOUS
  <1> HIDE DEF op, h
  <1>4. IncrInv'
    <2> SUFFICES ASSUME NEW m \in Node, NEW s \in Socket, NEW i \in Pos(m)',
                        Is(m, i, "incr", s)'
                 PROVE  /\ home[s] = m /\ phase[s] # "new" /\ s \notin counted'
                        /\ \A j \in Pos(m)' : Is(m, j, "incr", s)' => j = i
      BY DEF IncrInv
    <2> DEFINE d == Moved(m, n)
    <2>1. d \in Nat /\ i \in Int /\ i + d \in Pos(m) /\ Is(m, i + d, "incr", s)
      BY PopAt
    <2>2. /\ home[s] = m /\ phase[s] # "new" /\ s \notin counted
          /\ \A j \in Pos(m) : Is(m, j, "incr", s) => j = i + d
      BY <2>1 DEF QueueInv, IncrInv
    <2>3. ASSUME NEW j \in Pos(m)', Is(m, j, "incr", s)' PROVE j = i
      <3>1. j \in Int /\ j + d \in Pos(m) /\ Is(m, j + d, "incr", s)
        BY <2>3, PopAt
      <3>2. j + d = i + d
        BY <2>2, <3>1
      <3> HIDE DEF d
      <3> QED
        BY <2>1, <3>1, <3>2
    <2>4. ~(op = "incr" /\ s = h)
      <3> SUFFICES ASSUME op = "incr", s = h PROVE FALSE
        OBVIOUS
      <3>1. m = n /\ d = 1
        BY <1>2, <2>2 DEF Moved
      <3>2. i + d = 1
        BY <1>1, <2>2, <3>1
      <3>3. i >= 1
        BY PopEffect DEF Pos
      <3> QED
        BY <2>1, <3>1, <3>2, <3>3
    <2> QED
      BY <1>3, <2>2, <2>3, <2>4
  <1>5. DecrInv'
    <2> SUFFICES ASSUME NEW m \in Node, NEW s \in Socket, NEW i \in Pos(m)',
                        Is(m, i, "decr", s)'
                 PROVE  /\ home[s] = m /\ phase[s] = "closed"
                        /\ \/ s \in counted'
                           \/ \E j \in 1..(i - 1) : Is(m, j, "incr", s)'
                        /\ \A j \in Pos(m)' : Is(m, j, "decr", s)' => j = i
      BY DEF DecrInv
    <2> DEFINE d == Moved(m, n)
    <2>1. d \in Nat /\ i \in Int /\ i + d \in Pos(m) /\ Is(m, i + d, "decr", s)
      BY PopAt
    <2>2. /\ home[s] = m /\ phase[s] = "closed"
          /\ s \in counted \/ \E j \in 1..(i + d - 1) : Is(m, j, "incr", s)
          /\ \A j \in Pos(m) : Is(m, j, "decr", s) => j = i + d
      BY <2>1 DEF QueueInv, DecrInv
    <2>3. ASSUME NEW j \in Pos(m)', Is(m, j, "decr", s)' PROVE j = i
      <3>1. j \in Int /\ j + d \in Pos(m) /\ Is(m, j + d, "decr", s)
        BY <2>3, PopAt
      <3>2. j + d = i + d
        BY <2>2, <3>1
      <3> HIDE DEF d
      <3> QED
        BY <2>1, <3>1, <3>2
    <2>4. ~(op = "decr" /\ s = h)
      <3> SUFFICES ASSUME op = "decr", s = h PROVE FALSE
        OBVIOUS
      <3>1. m = n /\ d = 1
        BY <1>2, <2>2 DEF Moved
      <3>2. i + d = 1
        BY <1>1, <2>2, <3>1
      <3>3. i >= 1
        BY PopEffect DEF Pos
      <3> QED
        BY <2>1, <3>1, <3>2, <3>3
    <2>5. CASE s \in counted
      BY <1>3, <2>2, <2>3, <2>4, <2>5
    <2>6. CASE s \notin counted
      <3>1. PICK j \in 1..(i + d - 1) : Is(m, j, "incr", s)
        BY <2>2, <2>6
      <3>2. j \in Pos(m)
        BY <2>1, PopEffect DEF Pos
      <3>3. \/ m = n /\ op = "incr" /\ h = s
            \/ j - d \in Pos(m)' /\ Is(m, j - d, "incr", s)'
        BY <3>1, <3>2, PopAt DEF op, h, HeadSock
      <3>4. CASE m = n /\ op = "incr" /\ h = s
        BY <1>3, <2>2, <2>3, <3>4
      <3>5. CASE j - d \in Pos(m)' /\ Is(m, j - d, "incr", s)'
        <4>1. j - d \in 1..(i - 1)
          <5>1. j - d >= 1
            BY <3>5, PopEffect DEF Pos
          <5> HIDE DEF d
          <5> QED
            BY <2>1, <3>1, <5>1
        <4> QED
          BY <2>2, <2>3, <3>5, <4>1
      <3> QED
        BY <3>3, <3>4, <3>5
    <2> QED
      BY <2>5, <2>6
  <1>6. SocketInv'
    <2> SUFFICES ASSUME NEW s \in Socket
                 PROVE  LET coming == \/ s \in counted'
                                      \/ \E i \in Pos(home[s])' : Is(home[s], i, "incr", s)'
                            going == \E i \in Pos(home[s])' : Is(home[s], i, "decr", s)'
                        IN  /\ s \in counted' => phase[s] # "new"
                            /\ phase[s] = "open" => coming
                            /\ phase[s] = "closed" /\ coming /\ home[s] \in alive
                                 => going
      BY DEF SocketInv
    <2>1. PICK m \in Node : m = home[s] /\ m = home'[s]
      BY DEF TypeOK
    <2> DEFINE incr == \E i \in Pos(m) : Is(m, i, "incr", s)
               decr == \E i \in Pos(m) : Is(m, i, "decr", s)
               incr1 == \E i \in Pos(m)' : Is(m, i, "incr", s)'
               decr1 == \E i \in Pos(m)' : Is(m, i, "decr", s)'
    <2>2. (incr1 => incr) /\ (incr => incr1 \/ (op = "incr" /\ h = s))
      BY <2>1, PopAt DEF op, h, HeadSock
    <2>3. decr => decr1 \/ (op = "decr" /\ h = s)
      BY <2>1, PopAt DEF op, h, HeadSock
    <2>4. /\ s \in counted => phase[s] # "new"
          /\ phase[s] = "open" => s \in counted \/ incr
          /\ phase[s] = "closed" /\ (s \in counted \/ incr) /\ m \in alive => decr
      BY <2>1 DEF QueueInv, SocketInv
    <2>5. op = "decr" /\ h = s => phase[s] = "closed" /\ ~incr
      <3>1. s \in counted => ~incr
        BY <2>1 DEF QueueInv, IncrInv
      <3> QED
        BY <1>2, <3>1
    <2>6. op = "incr" /\ h = s => phase[s] # "new" /\ incr
      <3> SUFFICES ASSUME op = "incr", h = s PROVE phase[s] # "new" /\ incr
        OBVIOUS
      <3>1. m = n /\ 1 \in Pos(m) /\ Is(m, 1, "incr", s) /\ phase[s] # "new"
        BY <1>1, <1>2, <2>1
      <3> QED
        BY <3>1
    <2> HIDE DEF incr, decr, incr1, decr1
    <2>7. /\ s \in counted' => phase[s] # "new"
          /\ phase[s] = "open" => s \in counted' \/ incr1
          /\ phase[s] = "closed" /\ (s \in counted' \/ incr1) /\ m \in alive => decr1
      BY <1>3, <2>2, <2>3, <2>4, <2>5, <2>6
    <2> QED
      BY <2>1, <2>7 DEF incr1, decr1
  <1> QED
    BY <1>2, <1>4, <1>5, <1>6 DEF QueueInv, op, h

\* Issuing a command adds one position, e, behind all others.
Pushed(n, e, op, s) ==
    /\ e \in Pos(n)'
    /\ \A o, t : Is(n, e, o, t)' <=> o = op /\ t = s
    /\ \A i \in Pos(n) : i \in Int /\ i < e
    /\ \A m \in Node : \A i \in Pos(m) :
         /\ i \in Pos(m)'
         /\ \A o, t : Is(m, i, o, t)' <=> Is(m, i, o, t)
    /\ \A m \in Node : \A i \in Pos(m)' : i \in Pos(m) \/ (m = n /\ i = e)

LEMMA PushAt ==
    ASSUME TypeOK, NEW n \in Node, NEW op \in Ops, NEW s \in Socket,
           Issue(n, op, s)
    PROVE  \E e \in Nat : Pushed(n, e, op, s)
  <1> DEFINE len == Len(cmdq[n])
  <1>0. len \in Nat
    BY LenProperties DEF TypeOK
  <1>1. PICK e \in Nat : e = len + 1
    BY <1>0
  <1>3. ASSUME NEW m \in Node
        PROVE  /\ Len(cmdq[m]) \in Nat
               /\ Len(cmdq'[m]) = IF m = n THEN e ELSE Len(cmdq[m])
               /\ \A i \in 1..Len(cmdq[m]) : cmdq'[m][i] = cmdq[m][i]
               /\ m = n => cmdq'[m][Len(cmdq'[m])] = [op |-> op, sock |-> s]
    BY <1>1, PushEffect
  <1>2. /\ Len(cmdq[n]) \in Nat /\ Len(cmdq'[n]) = e
        /\ cmdq'[n][e].op = op /\ cmdq'[n][e].sock = s
    BY <1>1, <1>3
  <1>4. e \in Pos(n)' /\ \A i \in Pos(n) : i \in Int /\ i < e
    BY <1>1, <1>2 DEF Pos
  <1>5. \A o, t : Is(n, e, o, t)' <=> o = op /\ t = s
    BY <1>2 DEF Is
  <1>6. \A m \in Node : \A i \in Pos(m) :
          i \in Pos(m)' /\ cmdq'[m][i] = cmdq[m][i]
    BY <1>1, <1>3 DEF Pos
  <1>7. \A m \in Node : \A i \in Pos(m)' : i \in Pos(m) \/ (m = n /\ i = e)
    BY <1>1, <1>3 DEF Pos
  <1>8. \A m \in Node : \A i \in Pos(m) : \A o, t :
          Is(m, i, o, t)' <=> Is(m, i, o, t)
    BY <1>6 DEF Is
  <1> QED
    BY <1>4, <1>5, <1>6, <1>7, <1>8 DEF Pushed

\* Commands other than INCR and DECR are issued without touching QueueInv.
LEMMA PushQueueInv ==
    ASSUME TypeOK, QueueInv, NEW n \in Node, NEW s \in Socket,
           NEW op \in Ops \ {"incr", "decr"}, Issue(n, op, s),
           UNCHANGED <<phase, home, alive, counted>>
    PROVE  QueueInv'
  <1>1. PICK e \in Nat : Pushed(n, e, op, s)
    BY PushAt
  <1>2. \A m \in Node : \A i \in Pos(m)' : \A t :
          /\ Is(m, i, "incr", t)' => i \in Pos(m) /\ Is(m, i, "incr", t)
          /\ Is(m, i, "decr", t)' => i \in Pos(m) /\ Is(m, i, "decr", t)
    BY <1>1 DEF Pushed
  <1>3. \A m \in Node : \A i \in Pos(m) : \A j \in 1..(i - 1) : j \in Pos(m)
    BY LenProperties DEF Pos, TypeOK
  <1>4. IncrInv'
    BY <1>2 DEF QueueInv, IncrInv
  <1>5. DecrInv'
    <2> SUFFICES ASSUME NEW m \in Node, NEW t \in Socket, NEW i \in Pos(m)',
                        Is(m, i, "decr", t)'
                 PROVE  /\ home[t] = m /\ phase[t] = "closed"
                        /\ \/ t \in counted
                           \/ \E j \in 1..(i - 1) : Is(m, j, "incr", t)'
                        /\ \A j \in Pos(m)' : Is(m, j, "decr", t)' => j = i
      BY DEF DecrInv
    <2>1. i \in Pos(m) /\ Is(m, i, "decr", t)
      BY <1>2
    <2>2. /\ home[t] = m /\ phase[t] = "closed"
          /\ t \in counted \/ \E j \in 1..(i - 1) : Is(m, j, "incr", t)
          /\ \A j \in Pos(m) : Is(m, j, "decr", t) => j = i
      BY <2>1 DEF QueueInv, DecrInv
    <2>3. \A j \in 1..(i - 1) : Is(m, j, "incr", t) => Is(m, j, "incr", t)'
      BY <1>1, <1>3, <2>1 DEF Pushed
    <2> QED
      BY <1>2, <2>2, <2>3
  <1>6. SocketInv'
    <2> SUFFICES ASSUME NEW t \in Socket
                 PROVE  LET coming == \/ t \in counted
                                      \/ \E i \in Pos(home[t])' : Is(home[t], i, "incr", t)'
                            going == \E i \in Pos(home[t])' : Is(home[t], i, "decr", t)'
                        IN  /\ t \in counted => phase[t] # "new"
                            /\ phase[t] = "open" => coming
                            /\ phase[t] = "closed" /\ coming /\ home[t] \in alive
                                 => going
      BY DEF SocketInv
    <2>1. PICK m \in Node : m = home[t] /\ m = home'[t]
      BY DEF TypeOK
    <2>2. /\ (\E i \in Pos(m)' : Is(m, i, "incr", t)') <=> \E i \in Pos(m) : Is(m, i, "incr", t)
          /\ (\E i \in Pos(m)' : Is(m, i, "decr", t)') <=> \E i \in Pos(m) : Is(m, i, "decr", t)
      BY <1>1, <1>2 DEF Pushed
    <2> QED
      BY <2>1, <2>2 DEF QueueInv, SocketInv
  <1> QED
    BY <1>4, <1>5, <1>6 DEF QueueInv

LEMMA ConnectQueueInv ==
    ASSUME TypeOK, QueueInv, NEW s \in Socket, Connect(s)
    PROVE  QueueInv'
  <1>1. PICK n \in Node : n = home[s]
    BY DEF TypeOK
  <1>2. /\ phase[s] = "new" /\ phase'[s] = "open" /\ Issue(n, "incr", s)
        /\ \A t \in Socket : t # s => phase'[t] = phase[t]
        /\ home' = home /\ alive' = alive /\ counted' = counted
        /\ "incr" \in Ops
    BY <1>1 DEF Connect, TypeOK, Ops
  <1>3. PICK e \in Nat : Pushed(n, e, "incr", s)
    BY <1>2, PushAt
  <1>4. \A m \in Node : \A i \in Pos(m)' : \A t \in Socket :
          /\ Is(m, i, "incr", t)' => \/ i \in Pos(m) /\ Is(m, i, "incr", t) /\ t # s
                                     \/ m = n /\ i = e /\ t = s
          /\ Is(m, i, "decr", t)' => i \in Pos(m) /\ Is(m, i, "decr", t) /\ t # s
    <2>1. \A m \in Node : \A i \in Pos(m) :
            ~Is(m, i, "incr", s) /\ ~Is(m, i, "decr", s)
      BY <1>2 DEF QueueInv, IncrInv, DecrInv
    <2> QED
      BY <1>3, <2>1 DEF Pushed
  <1>5. s \notin counted
    BY <1>2 DEF QueueInv, SocketInv
  <1>6. \A m \in Node : \A i \in Pos(m) : \A j \in 1..(i - 1) : j \in Pos(m)
    BY LenProperties DEF Pos, TypeOK
  <1>7. IncrInv'
    <2> SUFFICES ASSUME NEW m \in Node, NEW t \in Socket, NEW i \in Pos(m)',
                        Is(m, i, "incr", t)'
                 PROVE  /\ home[t] = m /\ phase'[t] # "new" /\ t \notin counted
                        /\ \A j \in Pos(m)' : Is(m, j, "incr", t)' => j = i
      BY <1>2 DEF IncrInv
    <2>1. CASE t = s
      BY <1>1, <1>2, <1>4, <1>5, <2>1
    <2>2. CASE t # s
      BY <1>2, <1>4, <2>2 DEF QueueInv, IncrInv
    <2> QED
      BY <2>1, <2>2
  <1>8. DecrInv'
    <2> SUFFICES ASSUME NEW m \in Node, NEW t \in Socket, NEW i \in Pos(m)',
                        Is(m, i, "decr", t)'
                 PROVE  /\ home[t] = m /\ phase'[t] = "closed"
                        /\ \/ t \in counted
                           \/ \E j \in 1..(i - 1) : Is(m, j, "incr", t)'
                        /\ \A j \in Pos(m)' : Is(m, j, "decr", t)' => j = i
      BY <1>2 DEF DecrInv
    <2>1. i \in Pos(m) /\ Is(m, i, "decr", t) /\ t # s
      BY <1>4
    <2>2. /\ home[t] = m /\ phase[t] = "closed"
          /\ t \in counted \/ \E j \in 1..(i - 1) : Is(m, j, "incr", t)
          /\ \A j \in Pos(m) : Is(m, j, "decr", t) => j = i
      BY <2>1 DEF QueueInv, DecrInv
    <2>3. \A j \in 1..(i - 1) : Is(m, j, "incr", t) => Is(m, j, "incr", t)'
      BY <1>3, <1>6, <2>1 DEF Pushed
    <2> QED
      BY <1>2, <1>4, <2>1, <2>2, <2>3
  <1>9. SocketInv'
    <2> SUFFICES ASSUME NEW t \in Socket
                 PROVE  LET coming == \/ t \in counted
                                      \/ \E i \in Pos(home[t])' : Is(home[t], i, "incr", t)'
                            going == \E i \in Pos(home[t])' : Is(home[t], i, "decr", t)'
                        IN  /\ t \in counted => phase'[t] # "new"
                            /\ phase'[t] = "open" => coming
                            /\ phase'[t] = "closed" /\ coming /\ home[t] \in alive
                                 => going
      BY <1>2 DEF SocketInv
    <2>1. PICK m \in Node : m = home[t] /\ m = home'[t]
      BY <1>2 DEF TypeOK
    <2>2. CASE t = s
      BY <1>1, <1>2, <1>3, <1>5, <2>1, <2>2 DEF Pushed
    <2>3. CASE t # s
      <3>1. /\ (\E i \in Pos(m)' : Is(m, i, "incr", t)') <=> \E i \in Pos(m) : Is(m, i, "incr", t)
            /\ (\E i \in Pos(m)' : Is(m, i, "decr", t)') <=> \E i \in Pos(m) : Is(m, i, "decr", t)
        BY <1>3, <1>4, <2>3 DEF Pushed
      <3> QED
        BY <1>2, <2>1, <2>3, <3>1 DEF QueueInv, SocketInv
    <2> QED
      BY <2>2, <2>3
  <1> QED
    BY <1>7, <1>8, <1>9 DEF QueueInv

LEMMA DisconnectQueueInv ==
    ASSUME TypeOK, QueueInv, NEW s \in Socket, Disconnect(s)
    PROVE  QueueInv'
  <1>1. PICK n \in Node : n = home[s]
    BY DEF TypeOK
  <1>2. /\ phase[s] = "open" /\ phase'[s] = "closed" /\ Issue(n, "decr", s)
        /\ \A t \in Socket : t # s => phase'[t] = phase[t]
        /\ home' = home /\ alive' = alive /\ counted' = counted
        /\ "decr" \in Ops
    BY <1>1 DEF Disconnect, TypeOK, Ops
  <1>3. PICK e \in Nat : Pushed(n, e, "decr", s)
    BY <1>2, PushAt
  <1>4. \A m \in Node : \A i \in Pos(m)' : \A t \in Socket :
          /\ Is(m, i, "incr", t)' => i \in Pos(m) /\ Is(m, i, "incr", t)
          /\ Is(m, i, "decr", t)' => \/ i \in Pos(m) /\ Is(m, i, "decr", t) /\ t # s
                                     \/ m = n /\ i = e /\ t = s
    <2>1. \A m \in Node : \A i \in Pos(m) : ~Is(m, i, "decr", s)
      BY <1>2 DEF QueueInv, DecrInv
    <2> QED
      BY <1>3, <2>1 DEF Pushed
  <1>5. s \in counted \/ \E i \in Pos(n) : Is(n, i, "incr", s)
    BY <1>1, <1>2 DEF QueueInv, SocketInv
  <1>6. \A m \in Node : \A i \in Pos(m) : /\ i \in Int /\ i >= 1
                                          /\ \A j \in 1..(i - 1) : j \in Pos(m)
    BY LenProperties DEF Pos, TypeOK
  <1>7. IncrInv'
    <2> SUFFICES ASSUME NEW m \in Node, NEW t \in Socket, NEW i \in Pos(m)',
                        Is(m, i, "incr", t)'
                 PROVE  /\ home[t] = m /\ phase'[t] # "new" /\ t \notin counted
                        /\ \A j \in Pos(m)' : Is(m, j, "incr", t)' => j = i
      BY <1>2 DEF IncrInv
    <2>1. i \in Pos(m) /\ Is(m, i, "incr", t)
      BY <1>4
    <2>2. /\ home[t] = m /\ phase[t] # "new" /\ t \notin counted
          /\ \A j \in Pos(m) : Is(m, j, "incr", t) => j = i
      BY <2>1 DEF QueueInv, IncrInv
    <2> QED
      BY <1>2, <1>4, <2>2
  <1>8. DecrInv'
    <2> SUFFICES ASSUME NEW m \in Node, NEW t \in Socket, NEW i \in Pos(m)',
                        Is(m, i, "decr", t)'
                 PROVE  /\ home[t] = m /\ phase'[t] = "closed"
                        /\ \/ t \in counted
                           \/ \E j \in 1..(i - 1) : Is(m, j, "incr", t)'
                        /\ \A j \in Pos(m)' : Is(m, j, "decr", t)' => j = i
      BY <1>2 DEF DecrInv
    <2>1. CASE t = s
      <3>1. m = n /\ i = e
        BY <1>4, <2>1
      <3>2. t \in counted \/ \E j \in 1..(i - 1) : Is(m, j, "incr", t)'
        BY <1>3, <1>5, <1>6, <2>1, <3>1 DEF Pushed
      <3> QED
        BY <1>1, <1>2, <1>4, <2>1, <3>1, <3>2
    <2>2. CASE t # s
      <3>1. i \in Pos(m) /\ Is(m, i, "decr", t)
        BY <1>4, <2>2
      <3>2. /\ home[t] = m /\ phase[t] = "closed"
            /\ t \in counted \/ \E j \in 1..(i - 1) : Is(m, j, "incr", t)
            /\ \A j \in Pos(m) : Is(m, j, "decr", t) => j = i
        BY <3>1 DEF QueueInv, DecrInv
      <3>3. \A j \in 1..(i - 1) : Is(m, j, "incr", t) => Is(m, j, "incr", t)'
        BY <1>3, <1>6, <3>1 DEF Pushed
      <3> QED
        BY <1>2, <1>4, <2>2, <3>2, <3>3
    <2> QED
      BY <2>1, <2>2
  <1>9. SocketInv'
    <2> SUFFICES ASSUME NEW t \in Socket
                 PROVE  LET coming == \/ t \in counted
                                      \/ \E i \in Pos(home[t])' : Is(home[t], i, "incr", t)'
                            going == \E i \in Pos(home[t])' : Is(home[t], i, "decr", t)'
                        IN  /\ t \in counted => phase'[t] # "new"
                            /\ phase'[t] = "open" => coming
                            /\ phase'[t] = "closed" /\ coming /\ home[t] \in alive
                                 => going
      BY <1>2 DEF SocketInv
    <2>1. PICK m \in Node : m = home[t] /\ m = home'[t]
      BY <1>2 DEF TypeOK
    <2>2. CASE t = s
      BY <1>1, <1>2, <1>3, <2>1, <2>2 DEF Pushed
    <2>3. CASE t # s
      <3>1. /\ (\E i \in Pos(m)' : Is(m, i, "incr", t)') <=> \E i \in Pos(m) : Is(m, i, "incr", t)
            /\ (\E i \in Pos(m)' : Is(m, i, "decr", t)') <=> \E i \in Pos(m) : Is(m, i, "decr", t)
        BY <1>3, <1>4, <2>3 DEF Pushed
      <3> QED
        BY <1>2, <2>1, <2>3, <3>1 DEF QueueInv, SocketInv
    <2> QED
      BY <2>2, <2>3
  <1> QED
    BY <1>7, <1>8, <1>9 DEF QueueInv

LEMMA StopQueueInv ==
    ASSUME TypeOK, QueueInv, NEW n \in Node, Stop(n)
    PROVE  QueueInv'
  <1>1. PICK k \in 0..Len(cmdq[n]) :
          cmdq' = [cmdq EXCEPT ![n] = SubSeq(@, 1, k)]
    BY DEF Stop
  <1>2. /\ home' = home /\ counted' = counted /\ alive' = alive \ {n}
        /\ phase' = [t \in Socket |-> IF home[t] = n /\ phase[t] = "open"
                                      THEN "closed" ELSE phase[t]]
    BY DEF Stop
  <1>3. ASSUME NEW m \in Node
        PROVE  /\ m # n => cmdq'[m] = cmdq[m]
               /\ \A i \in Pos(m)' : i \in Pos(m) /\ cmdq'[m][i] = cmdq[m][i]
               /\ \A i \in Pos(m)' : \A j \in 1..(i - 1) : j \in Pos(m)'
    <2>1. CASE m = n
      <3>1. cmdq'[m] = SubSeq(cmdq[m], 1, k)
        BY <1>1, <2>1 DEF TypeOK
      <3> QED
        BY <2>1, <3>1, QueuePrefix, LenProperties DEF TypeOK, Pos
    <2>2. CASE m # n
      <3>1. cmdq'[m] = cmdq[m]
        BY <1>1, <2>2 DEF TypeOK
      <3> QED
        BY <2>2, <3>1, LenProperties DEF TypeOK, Pos
    <2> QED
      BY <2>1, <2>2
  <1>4. \A m \in Node : \A i \in Pos(m)' : \A o, t :
          i \in Pos(m) /\ (Is(m, i, o, t)' <=> Is(m, i, o, t))
    BY <1>3 DEF Is
  <1>5. \A t \in Socket : /\ phase'[t] # "new" <=> phase[t] # "new"
                          /\ phase[t] = "closed" => phase'[t] = "closed"
                          /\ home[t] # n => phase'[t] = phase[t]
                          /\ home[t] = n => phase'[t] # "open"
    BY <1>2
  <1>6. IncrInv'
    BY <1>2, <1>4, <1>5 DEF QueueInv, IncrInv
  <1>7. DecrInv'
    <2> SUFFICES ASSUME NEW m \in Node, NEW t \in Socket, NEW i \in Pos(m)',
                        Is(m, i, "decr", t)'
                 PROVE  /\ home[t] = m /\ phase'[t] = "closed"
                        /\ \/ t \in counted
                           \/ \E j \in 1..(i - 1) : Is(m, j, "incr", t)'
                        /\ \A j \in Pos(m)' : Is(m, j, "decr", t)' => j = i
      BY <1>2 DEF DecrInv
    <2>1. /\ home[t] = m /\ phase[t] = "closed"
          /\ t \in counted \/ \E j \in 1..(i - 1) : Is(m, j, "incr", t)
          /\ \A j \in Pos(m) : Is(m, j, "decr", t) => j = i
      BY <1>4 DEF QueueInv, DecrInv
    <2>2. \A j \in 1..(i - 1) : Is(m, j, "incr", t) => Is(m, j, "incr", t)'
      BY <1>3, <1>4
    <2> QED
      BY <1>4, <1>5, <2>1, <2>2
  <1>8. SocketInv'
    <2> SUFFICES ASSUME NEW t \in Socket
                 PROVE  LET coming == \/ t \in counted
                                      \/ \E i \in Pos(home[t])' : Is(home[t], i, "incr", t)'
                            going == \E i \in Pos(home[t])' : Is(home[t], i, "decr", t)'
                        IN  /\ t \in counted => phase'[t] # "new"
                            /\ phase'[t] = "open" => coming
                            /\ phase'[t] = "closed" /\ coming /\ home[t] \in alive'
                                 => going
      BY <1>2 DEF SocketInv
    <2>1. PICK m \in Node : m = home[t] /\ m = home'[t]
      BY <1>2 DEF TypeOK
    <2>2. CASE m = n
      BY <1>2, <1>5, <2>1, <2>2 DEF QueueInv, SocketInv
    <2>3. CASE m # n
      <3>1. /\ (\E i \in Pos(m)' : Is(m, i, "incr", t)') <=> \E i \in Pos(m) : Is(m, i, "incr", t)
            /\ (\E i \in Pos(m)' : Is(m, i, "decr", t)') <=> \E i \in Pos(m) : Is(m, i, "decr", t)
        BY <1>3, <2>3 DEF Pos, Is
      <3> QED
        BY <1>2, <1>5, <2>1, <2>3, <3>1 DEF QueueInv, SocketInv
    <2> QED
      BY <2>2, <2>3
  <1> QED
    BY <1>6, <1>7, <1>8 DEF QueueInv

LEMMA InitQueueInv == Init => QueueInv
  <1> SUFFICES ASSUME Init PROVE QueueInv
    OBVIOUS
  <1>1. \A n \in Node : Len(cmdq[n]) = 0
    BY EmptySeq DEF Init
  <1>2. \A n \in Node : Pos(n) = {}
    BY <1>1 DEF Pos
  <1>3. IncrInv /\ DecrInv
    BY <1>2 DEF IncrInv, DecrInv
  <1>4. SocketInv
    BY DEF Init, SocketInv
  <1> QED
    BY <1>3, <1>4 DEF QueueInv

\* Redis executing a command: QueueInv is kept, and an INCR is of an uncounted
\* socket, a DECR of a counted one.
LEMMA RedisQueueInv ==
    ASSUME TypeOK, QueueInv, NEW n \in Node, Redis(n)
    PROVE  /\ QueueInv'
           /\ HeadIs(n, "incr") => HeadSock(n) \notin counted
           /\ HeadIs(n, "decr") => HeadSock(n) \in counted
  <1>1. /\ cmdq[n] # <<>> /\ cmdq' = [cmdq EXCEPT ![n] = Tail(@)]
        /\ UNCHANGED <<phase, home, alive>>
    BY DEF Redis, ExecIncr, ExecDecr, ExecDel, ExecOffline, ExecPublish,
           HeadIs, Answer
  <1>2. counted' = CASE Head(cmdq[n]).op = "incr" -> counted \cup {HeadSock(n)}
                     [] Head(cmdq[n]).op = "decr" -> counted \ {HeadSock(n)}
                     [] OTHER -> counted
    BY DEF Redis, ExecIncr, ExecDecr, ExecDel, ExecOffline, ExecPublish, HeadIs
  <1> QED
    BY <1>1, <1>2, PopQueueInv DEF HeadIs

LEMMA EventLoopQueueInv ==
    ASSUME TypeOK, QueueInv, NEW n \in Node, EventLoop(n)
    PROVE  QueueInv'
  <1> DEFINE s == Head(replyq[n]).sock
  <1>1. /\ replyq[n] # <<>> /\ Resume(n)
        /\ UNCHANGED <<phase, home, alive, counted>>
        /\ \/ UNCHANGED cmdq
           \/ \E op \in {"del", "offline", "sayOnline", "sayOffline"} :
                Issue(n, op, s)
    BY DEF EventLoop, OnIncrReply, OnDecrReply, OnDelReply, OnOfflineReply,
           ReplyIs
  <1>2. s \in Socket
    BY <1>1, ReplyType
  <1>3. {"del", "offline", "sayOnline", "sayOffline"} \subseteq Ops \ {"incr", "decr"}
    BY DEF Ops
  <1>4. CASE UNCHANGED cmdq
    BY <1>1, <1>4 DEF QueueInv, IncrInv, DecrInv, SocketInv, Pos, Is
  <1>5. CASE \E op \in {"del", "offline", "sayOnline", "sayOffline"} : Issue(n, op, s)
    <2>1. PICK op \in Ops \ {"incr", "decr"} : Issue(n, op, s)
      BY <1>3, <1>5
    <2> HIDE DEF s
    <2>2. PICK t \in Socket : t = s
      BY <1>2
    <2>3. Issue(n, op, t)
      BY <2>1, <2>2
    <2> QED
      BY <1>1, <2>3, PushQueueInv
  <1> QED
    BY <1>1, <1>4, <1>5

LEMMA StepQueueInv == TypeOK /\ QueueInv /\ [Next]_vars => QueueInv'
  <1> SUFFICES ASSUME TypeOK, QueueInv, [Next]_vars PROVE QueueInv'
    OBVIOUS
  <1>1. ASSUME NEW n \in Node, Receive(n) PROVE QueueInv'
    BY <1>1 DEF Receive, QueueInv, IncrInv, DecrInv, SocketInv, Pos, Is
  <1>2. CASE UNCHANGED vars
    BY <1>2 DEF vars, QueueInv, IncrInv, DecrInv, SocketInv, Pos, Is
  <1> QED
    BY <1>1, <1>2, ConnectQueueInv, DisconnectQueueInv, StopQueueInv,
       RedisQueueInv, EventLoopQueueInv DEF Next

-----------------------------------------------------------------------------
(* The counts.                                                             *)

CountedOf(u) == counted \cap SocketsOf(u)

LEMMA CountedFinite ==
    ASSUME TypeOK, NEW u \in User
    PROVE  IsFiniteSet(CountedOf(u)) /\ Cardinality(CountedOf(u)) \in Nat
  BY SocketAssumption, FS_Subset, FS_CardinalityType
  DEF TypeOK, CountedOf, SocketsOf

\* Counting a socket in or out changes the counted sockets of its user by one,
\* and those of no other user.
LEMMA CountIn ==
    ASSUME TypeOK, NEW s \in Socket, s \notin counted,
           counted' = counted \cup {s}, NEW u \in User
    PROVE  Cardinality(CountedOf(u)') =
             Cardinality(CountedOf(u)) + (IF u = UserOf[s] THEN 1 ELSE 0)
  <1>1. CASE u = UserOf[s]
    <2>1. CountedOf(u)' = CountedOf(u) \cup {s} /\ s \notin CountedOf(u)
      BY <1>1 DEF CountedOf, SocketsOf
    <2> QED
      BY <1>1, <2>1, CountedFinite, FS_AddElement
  <1>2. CASE u # UserOf[s]
    <2>1. CountedOf(u)' = CountedOf(u)
      BY <1>2 DEF CountedOf, SocketsOf
    <2> QED
      BY <1>2, <2>1, CountedFinite
  <1> QED
    BY <1>1, <1>2

LEMMA CountOut ==
    ASSUME TypeOK, NEW s \in Socket, s \in counted,
           counted' = counted \ {s}, NEW u \in User
    PROVE  Cardinality(CountedOf(u)') =
             Cardinality(CountedOf(u)) - (IF u = UserOf[s] THEN 1 ELSE 0)
  <1>1. CASE u = UserOf[s]
    <2>1. CountedOf(u)' = CountedOf(u) \ {s} /\ s \in CountedOf(u)
      BY <1>1 DEF CountedOf, SocketsOf
    <2> QED
      BY <1>1, <2>1, CountedFinite, FS_RemoveElement
  <1>2. CASE u # UserOf[s]
    <2>1. CountedOf(u)' = CountedOf(u)
      BY <1>2 DEF CountedOf, SocketsOf
    <2> QED
      BY <1>2, <2>1, CountedFinite
  <1> QED
    BY <1>1, <1>2

LEMMA StepCountBound == TypeOK /\ QueueInv /\ CountBound /\ [Next]_vars => CountBound'
  <1> SUFFICES ASSUME TypeOK, QueueInv, CountBound, [Next]_vars,
                      NEW u \in User
               PROVE  counts'[u] <= Cardinality(CountedOf(u)')
    BY DEF CountBound, CountedOf, SocketsOf
  <1>1. /\ counts[u] \in Int /\ counts[u] <= Cardinality(CountedOf(u))
        /\ Cardinality(CountedOf(u)) \in Nat
    BY CountedFinite DEF TypeOK, CountBound, CountedOf
  <1>2. ASSUME NEW n \in Node, ExecIncr(n)
        PROVE  counts'[u] <= Cardinality(CountedOf(u)')
    <2>1. /\ HeadSock(n) \in Socket /\ HeadSock(n) \notin counted
          /\ HeadUser(n) = UserOf[HeadSock(n)]
      BY <1>2, HeadType, RedisQueueInv DEF ExecIncr, Redis, HeadIs, HeadUser
    <2>2. Cardinality(CountedOf(u)') = Cardinality(CountedOf(u)) +
            (IF u = HeadUser(n) THEN 1 ELSE 0)
      BY <1>2, <2>1, CountIn DEF ExecIncr
    <2>3. counts'[u] = counts[u] + (IF u = HeadUser(n) THEN 1 ELSE 0)
      BY <1>1, <1>2 DEF ExecIncr, TypeOK
    <2> QED
      BY <1>1, <2>2, <2>3
  <1>3. ASSUME NEW n \in Node, ExecDecr(n)
        PROVE  counts'[u] <= Cardinality(CountedOf(u)')
    <2>1. /\ HeadSock(n) \in Socket /\ HeadSock(n) \in counted
          /\ HeadUser(n) = UserOf[HeadSock(n)]
      BY <1>3, HeadType, RedisQueueInv DEF ExecDecr, Redis, HeadIs, HeadUser
    <2>2. Cardinality(CountedOf(u)') = Cardinality(CountedOf(u)) -
            (IF u = HeadUser(n) THEN 1 ELSE 0)
      BY <1>3, <2>1, CountOut DEF ExecDecr
    <2>3. counts'[u] = counts[u] - (IF u = HeadUser(n) THEN 1 ELSE 0)
      BY <1>1, <1>3 DEF ExecDecr, TypeOK
    <2> QED
      BY <1>1, <2>2, <2>3
  <1>4. ASSUME NEW n \in Node, ExecOffline(n)
        PROVE  counts'[u] <= Cardinality(CountedOf(u)')
    <2>1. counts'[u] \in {counts[u], 0} /\ CountedOf(u)' = CountedOf(u)
      BY <1>4 DEF ExecOffline, TypeOK, CountedOf, SocketsOf
    <2> QED
      BY <1>1, <2>1
  <1>5. CASE UNCHANGED <<counts, counted>>
    <2>1. CountedOf(u)' = CountedOf(u)
      BY <1>5 DEF CountedOf, SocketsOf
    <2> QED
      BY <1>1, <1>5, <2>1
  <1>6. \/ UNCHANGED <<counts, counted>>
        \/ \E n \in Node : ExecIncr(n) \/ ExecDecr(n) \/ ExecOffline(n)
    BY DEF Next, Redis, EventLoop, Connect, Disconnect, Stop, ExecDel,
           ExecPublish, OnIncrReply, OnDecrReply, OnDelReply, OnOfflineReply,
           Receive, vars
  <1> QED
    BY <1>2, <1>3, <1>4, <1>5, <1>6

LEMMA InitCountBound == Init => CountBound
  <1> SUFFICES ASSUME Init, NEW u \in User
               PROVE  counts[u] <= Cardinality(counted \cap SocketsOf(u))
    BY DEF CountBound
  <1>1. counts[u] = 0 /\ counted \cap SocketsOf(u) = {}
    BY DEF Init
  <1> QED
    BY <1>1, FS_EmptySet

LEMMA Inductive == Spec => []IInv
  <1>1. Init => IInv
    BY InitType, InitQueueInv, InitCountBound DEF IInv
  <1>2. IInv /\ [Next]_vars => IInv'
    BY StepType, StepQueueInv, StepCountBound DEF IInv
  <1> QED
    BY <1>1, <1>2, PTL DEF Spec

\* HINCRBY and HDEL of any number of nodes, interleaved in any way, and nodes
\* stopping at any moment: the hash never counts a socket that is not there.
THEOREM CountNeverExceeds == Spec => []CountBound
  BY Inductive, PTL DEF IInv

\* A positive count always stands for a socket that is open, has its DECR on
\* the way, or was lost with its node.
THEOREM OnlineAlwaysBacked == Spec => []OnlineIsBacked
  <1>1. IInv => OnlineIsBacked
    <2> SUFFICES ASSUME IInv, NEW u \in User, counts[u] > 0
                 PROVE  \E s \in SocketsOf(u) : \/ phase[s] = "open"
                                                \/ Queued(home[s], "decr", s)
                                                \/ home[s] \notin alive
      BY DEF OnlineIsBacked
    <2>1. TypeOK /\ counts[u] \in Int /\ counts[u] <= Cardinality(CountedOf(u))
      BY DEF IInv, TypeOK, CountBound, CountedOf
    <2>2. CountedOf(u) # {}
      <3>1. Cardinality(CountedOf(u)) \in Nat
        BY <2>1, CountedFinite
      <3>2. Cardinality(CountedOf(u)) # 0
        BY <2>1, <3>1
      <3> QED
        BY <3>2, FS_EmptySet
    <2>3. PICK s \in SocketsOf(u) : s \in counted
      BY <2>2 DEF CountedOf
    <2>4. s \in Socket /\ home[s] \in Node /\ phase[s] \in {"new", "open", "closed"}
      BY <2>3 DEF SocketsOf, IInv, TypeOK
    <2>5. CASE phase[s] = "closed" /\ home[s] \in alive
      <3>1. PICK i \in Pos(home[s]) : Is(home[s], i, "decr", s)
        BY <2>3, <2>4, <2>5 DEF IInv, QueueInv, SocketInv
      <3>2. /\ cmdq[home[s]] \in Seq(Command) /\ i \in DOMAIN cmdq[home[s]]
            /\ cmdq[home[s]][i] \in Command
        BY <2>4, <3>1, LenProperties, ElementOfSeq DEF IInv, TypeOK, Pos
      <3>3. cmdq[home[s]][i] = [op |-> "decr", sock |-> s]
        BY <3>1, <3>2 DEF Is, Command
      <3> QED
        BY <2>3, <3>2, <3>3 DEF Queued
    <2>6. phase[s] # "new"
      BY <2>3, <2>4 DEF IInv, QueueInv, SocketInv
    <2> QED
      BY <2>3, <2>4, <2>5, <2>6
  <1> QED
    BY <1>1, Inductive, PTL

-----------------------------------------------------------------------------
(* Negative counts.  The invariant is inductive once the types are known:  *)
(* each step that takes away the cleanup of a user brings the next stage   *)
(* of it, or does it.                                                      *)

\* The answer that makes the handler of s clean up has not been handled.
Answered(n, s) ==
    \E i \in DOMAIN replyq[n] : /\ replyq[n][i].op = "decr"
                                /\ replyq[n][i].sock = s
                                /\ replyq[n][i].count <= 0
Cleaned(u) ==
    \E s \in SocketsOf(u), n \in Node : Queued(n, "offline", s) \/ Answered(n, s)

LEMMA IssueKeeps ==
    ASSUME TypeOK, NEW m \in Node, NEW op \in Ops, NEW r \in Socket, Issue(m, op, r)
    PROVE  /\ \A n \in Node, s \in Socket :
                Queued(n, "offline", s) => Queued(n, "offline", s)'
           /\ Queued(m, op, r)'
  <1> DEFINE c == [op |-> op, sock |-> r]
  <1>1. /\ c \in Command /\ cmdq[m] \in Seq(Command)
        /\ cmdq'[m] = Append(cmdq[m], c)
        /\ \A n \in Node \ {m} : cmdq'[n] = cmdq[n]
    BY DEF Issue, TypeOK, Command
  <1>2. /\ Len(cmdq[m]) \in Nat /\ DOMAIN cmdq[m] = 1..Len(cmdq[m])
        /\ DOMAIN cmdq'[m] = 1..(Len(cmdq[m]) + 1)
        /\ cmdq'[m][Len(cmdq[m]) + 1] = c
        /\ \A i \in 1..Len(cmdq[m]) : cmdq'[m][i] = cmdq[m][i]
    <2> HIDE DEF c
    <2> QED
      BY <1>1, QueueAppend, LenProperties
  <1>3. ASSUME NEW n \in Node, NEW s \in Socket, Queued(n, "offline", s)
        PROVE  Queued(n, "offline", s)'
    <2> HIDE DEF c
    <2>1. PICK i \in DOMAIN cmdq[n] : cmdq[n][i] = [op |-> "offline", sock |-> s]
      BY <1>3 DEF Queued
    <2>2. i \in DOMAIN cmdq'[n] /\ cmdq'[n][i] = cmdq[n][i]
      BY <1>1, <1>2
    <2> QED
      BY <2>1, <2>2 DEF Queued
  <1>4. Queued(m, op, r)'
    <2>1. Len(cmdq[m]) + 1 \in DOMAIN cmdq'[m]
      BY <1>2
    <2> QED
      BY <1>2, <2>1 DEF Queued
  <1> QED
    BY <1>3, <1>4

LEMMA PopKeeps ==
    ASSUME TypeOK, NEW m \in Node, cmdq[m] # <<>>,
           cmdq' = [cmdq EXCEPT ![m] = Tail(@)]
    PROVE  \A n \in Node, s \in Socket :
             Queued(n, "offline", s) => \/ Queued(n, "offline", s)'
                                        \/ /\ n = m /\ HeadIs(m, "offline")
                                           /\ HeadSock(m) = s
  <1>1. /\ cmdq[m] \in Seq(Command) /\ cmdq'[m] = Tail(cmdq[m])
        /\ \A n \in Node \ {m} : cmdq'[n] = cmdq[n]
    BY DEF TypeOK
  <1>2. /\ Len(cmdq[m]) \in Nat \ {0} /\ DOMAIN cmdq[m] = 1..Len(cmdq[m])
        /\ DOMAIN cmdq'[m] = 1..(Len(cmdq[m]) - 1)
        /\ Head(cmdq[m]) = cmdq[m][1]
        /\ \A i \in 1..(Len(cmdq[m]) - 1) : cmdq'[m][i] = cmdq[m][i + 1]
    <2>0. /\ Tail(cmdq[m]) \in Seq(Command) /\ Len(cmdq[m]) \in Nat \ {0}
          /\ Len(Tail(cmdq[m])) = Len(cmdq[m]) - 1
          /\ Head(cmdq[m]) = cmdq[m][1]
          /\ \A i \in 1..(Len(cmdq[m]) - 1) : Tail(cmdq[m])[i] = cmdq[m][i + 1]
      BY <1>1, QueueTail
    <2>1. /\ cmdq'[m] \in Seq(Command) /\ Len(cmdq[m]) \in Nat \ {0}
          /\ Len(cmdq'[m]) = Len(cmdq[m]) - 1
          /\ Head(cmdq[m]) = cmdq[m][1]
          /\ \A i \in 1..(Len(cmdq[m]) - 1) : cmdq'[m][i] = cmdq[m][i + 1]
      BY <1>1, <2>0
    <2>2. DOMAIN cmdq[m] = 1..Len(cmdq[m]) /\ DOMAIN cmdq'[m] = 1..Len(cmdq'[m])
      BY <1>1, <2>1, LenProperties
    <2> QED
      BY <2>1, <2>2
  <1> SUFFICES ASSUME NEW s \in Socket, Queued(m, "offline", s)
               PROVE  \/ Queued(m, "offline", s)'
                      \/ HeadIs(m, "offline") /\ HeadSock(m) = s
    BY <1>1 DEF Queued
  <1>3. PICK i \in 1..Len(cmdq[m]) : cmdq[m][i] = [op |-> "offline", sock |-> s]
    BY <1>2 DEF Queued
  <1>4. CASE i = 1
    BY <1>2, <1>3, <1>4 DEF HeadIs, HeadSock
  <1>5. CASE i > 1
    <2>1. i - 1 \in 1..(Len(cmdq[m]) - 1) /\ cmdq'[m][i - 1] = cmdq[m][i]
      BY <1>2, <1>3, <1>5
    <2> QED
      BY <1>2, <1>3, <2>1 DEF Queued
  <1> QED
    BY <1>2, <1>3, <1>4, <1>5

LEMMA AnswerKeeps ==
    ASSUME TypeOK, NEW m \in Node, cmdq[m] # <<>>, NEW c \in Int, Answer(m, c), m \in alive
    PROVE  /\ \A n \in Node, s \in Socket : Answered(n, s) => Answered(n, s)'
           /\ \A s \in Socket :
                HeadIs(m, "decr") /\ HeadSock(m) = s /\ c <= 0 => Answered(m, s)'
  <1> DEFINE r == [op |-> Head(cmdq[m]).op, sock |-> HeadSock(m), count |-> c]
  <1>1. Head(cmdq[m]) \in Command
    BY QueueTail DEF TypeOK
  <1>2. /\ r \in Reply /\ replyq[m] \in Seq(Reply)
        /\ replyq'[m] = Append(replyq[m], r)
        /\ \A n \in Node \ {m} : replyq'[n] = replyq[n]
    BY <1>1 DEF Answer, TypeOK, Command, Reply, HeadSock
  <1>3. /\ Len(replyq[m]) \in Nat /\ DOMAIN replyq[m] = 1..Len(replyq[m])
        /\ DOMAIN replyq'[m] = 1..(Len(replyq[m]) + 1)
        /\ replyq'[m][Len(replyq[m]) + 1] = r
        /\ \A i \in 1..Len(replyq[m]) : replyq'[m][i] = replyq[m][i]
    <2> HIDE DEF r
    <2> QED
      BY <1>2, QueueAppend, LenProperties
  <1>4. ASSUME NEW n \in Node, NEW s \in Socket, Answered(n, s)
        PROVE  Answered(n, s)'
    <2>1. PICK i \in DOMAIN replyq[n] : /\ replyq[n][i].op = "decr"
                                        /\ replyq[n][i].sock = s
                                        /\ replyq[n][i].count <= 0
      BY <1>4 DEF Answered
    <2>2. i \in DOMAIN replyq'[n] /\ replyq'[n][i] = replyq[n][i]
      BY <1>2, <1>3
    <2> QED
      BY <2>1, <2>2 DEF Answered
  <1>5. ASSUME NEW s \in Socket, HeadIs(m, "decr"), HeadSock(m) = s, c <= 0
        PROVE  Answered(m, s)'
    <2>1. Len(replyq[m]) + 1 \in DOMAIN replyq'[m]
      BY <1>3
    <2>2. r.op = "decr" /\ r.sock = s /\ r.count <= 0
      BY <1>5 DEF HeadIs
    <2> HIDE DEF r
    <2> QED
      BY <1>3, <2>1, <2>2 DEF Answered
  <1> QED
    BY <1>4, <1>5

LEMMA ResumeKeeps ==
    ASSUME TypeOK, NEW m \in Node, replyq[m] # <<>>, Resume(m)
    PROVE  \A n \in Node, s \in Socket :
             Answered(n, s) =>
               \/ Answered(n, s)'
               \/ /\ n = m /\ ReplyIs(m, "decr")
                  /\ Head(replyq[m]).sock = s /\ Head(replyq[m]).count <= 0
  <1>1. /\ replyq[m] \in Seq(Reply) /\ replyq'[m] = Tail(replyq[m])
        /\ \A n \in Node \ {m} : replyq'[n] = replyq[n]
    BY DEF TypeOK, Resume
  <1>2. /\ Len(replyq[m]) \in Nat \ {0} /\ DOMAIN replyq[m] = 1..Len(replyq[m])
        /\ DOMAIN replyq'[m] = 1..(Len(replyq[m]) - 1)
        /\ Head(replyq[m]) = replyq[m][1]
        /\ \A i \in 1..(Len(replyq[m]) - 1) : replyq'[m][i] = replyq[m][i + 1]
    <2>1. /\ replyq'[m] \in Seq(Reply) /\ Len(replyq[m]) \in Nat \ {0}
          /\ Len(replyq'[m]) = Len(replyq[m]) - 1
          /\ Head(replyq[m]) = replyq[m][1]
          /\ \A i \in 1..(Len(replyq[m]) - 1) : replyq'[m][i] = replyq[m][i + 1]
      BY <1>1, QueueTail
    <2>2. DOMAIN replyq[m] = 1..Len(replyq[m]) /\ DOMAIN replyq'[m] = 1..Len(replyq'[m])
      BY <1>1, <2>1, LenProperties
    <2> QED
      BY <2>1, <2>2
  <1> SUFFICES ASSUME NEW s \in Socket, Answered(m, s)
               PROVE  \/ Answered(m, s)'
                      \/ /\ ReplyIs(m, "decr") /\ Head(replyq[m]).sock = s
                         /\ Head(replyq[m]).count <= 0
    <2>1. \A n \in Node \ {m}, s \in Socket : Answered(n, s) => Answered(n, s)'
      BY <1>1 DEF Answered
    <2> QED
      BY <2>1
  <1>3. PICK i \in 1..Len(replyq[m]) : /\ replyq[m][i].op = "decr"
                                       /\ replyq[m][i].sock = s
                                       /\ replyq[m][i].count <= 0
    BY <1>2 DEF Answered
  <1>4. CASE i = 1
    BY <1>2, <1>3, <1>4 DEF ReplyIs
  <1>5. CASE i > 1
    <2>1. i - 1 \in 1..(Len(replyq[m]) - 1) /\ replyq'[m][i - 1] = replyq[m][i]
      BY <1>2, <1>3, <1>5
    <2> QED
      BY <1>2, <1>3, <2>1 DEF Answered
  <1> QED
    BY <1>2, <1>3, <1>4, <1>5

\* Redis answers a command that is not a cleanup.
LEMMA AnswerCleaned ==
    ASSUME TypeOK, alive = Node, NEW u \in User, Cleaned(u),
           NEW m \in Node, cmdq[m] # <<>>, ~HeadIs(m, "offline"),
           NEW c \in Int, Answer(m, c)
    PROVE  Cleaned(u)'
  <1>1. cmdq' = [cmdq EXCEPT ![m] = Tail(@)] /\ m \in alive
    BY DEF Answer
  <1>2. PICK s \in SocketsOf(u), n \in Node : Queued(n, "offline", s) \/ Answered(n, s)
    BY DEF Cleaned
  <1>3. s \in Socket
    BY DEF SocketsOf
  <1>4. Queued(n, "offline", s)' \/ Answered(n, s)'
    BY <1>1, <1>2, <1>3, PopKeeps, AnswerKeeps
  <1> QED
    BY <1>4 DEF Cleaned, SocketsOf

\* The event loop handles an answer: if it is the one that counts, the MULTI goes
\* out.
LEMMA ResumeCleaned ==
    ASSUME TypeOK, NEW u \in User, Cleaned(u), NEW m \in Node, replyq[m] # <<>>, Resume(m),
           \/ cmdq' = cmdq
           \/ \E op \in Ops, r \in Socket : Issue(m, op, r),
           /\ ReplyIs(m, "decr") /\ Head(replyq[m]).count <= 0
           => Issue(m, "offline", Head(replyq[m]).sock)
    PROVE  Cleaned(u)'
  <1>1. PICK s \in SocketsOf(u), n \in Node : Queued(n, "offline", s) \/ Answered(n, s)
    BY DEF Cleaned
  <1>2. s \in Socket
    BY DEF SocketsOf
  <1>3. CASE Queued(n, "offline", s)
    <2>1. Queued(n, "offline", s)'
      BY <1>2, <1>3, IssueKeeps DEF Queued
    <2> QED
      BY <2>1 DEF Cleaned, SocketsOf
  <1>4. CASE Answered(n, s)
    <2>1. CASE Answered(n, s)'
      BY <2>1 DEF Cleaned, SocketsOf
    <2>2. CASE ~Answered(n, s)'
      <3>1. n = m /\ Issue(m, "offline", s)
        BY <1>2, <1>4, <2>2, ResumeKeeps
      <3>2. Queued(m, "offline", s)'
        BY <1>2, <3>1, IssueKeeps DEF Ops
      <3> QED
        BY <3>2 DEF Cleaned, SocketsOf
    <2> QED
      BY <2>1, <2>2
  <1> QED
    BY <1>1, <1>3, <1>4

LEMMA StepNegative == TypeOK /\ NegativeIsTransient /\ [Next]_vars => NegativeIsTransient'
  <1> SUFFICES ASSUME TypeOK, NegativeIsTransient, [Next]_vars,
                      NEW u \in User, counts'[u] < 0, alive' = Node
               PROVE  Cleaned(u)'
    BY DEF NegativeIsTransient, Cleaned, Answered
  <1>0. counts[u] \in Int /\ counts \in [User -> Int]
    BY DEF TypeOK
  <1>1. ASSUME counts[u] < 0, alive = Node PROVE Cleaned(u)
    BY <1>1 DEF NegativeIsTransient, Cleaned, Answered
  <1>2. ASSUME NEW r \in Socket, Connect(r) \/ Disconnect(r) PROVE Cleaned(u)'
    <2>1. /\ counts' = counts /\ alive' = alive /\ replyq' = replyq
          /\ \E op \in Ops : Issue(home[r], op, r)
      BY <1>2 DEF Connect, Disconnect, Ops
    <2>2. home[r] \in Node
      BY DEF TypeOK
    <2>3. PICK s \in SocketsOf(u), n \in Node : Queued(n, "offline", s) \/ Answered(n, s)
      BY <1>1, <2>1 DEF Cleaned
    <2>4. s \in Socket
      BY DEF SocketsOf
    <2>5. Queued(n, "offline", s)' \/ Answered(n, s)'
      BY <2>1, <2>2, <2>3, <2>4, IssueKeeps DEF Answered
    <2> QED
      BY <2>5 DEF Cleaned, SocketsOf
  <1>3. ASSUME NEW m \in Node, ExecIncr(m) PROVE Cleaned(u)'
    <2>1. /\ cmdq[m] # <<>> /\ ~HeadIs(m, "offline") /\ alive = Node
          /\ HeadUser(m) \in User
      BY <1>3, HeadType DEF ExecIncr, HeadIs
    <2>2. counts[u] < 0 /\ counts[HeadUser(m)] + 1 \in Int
      BY <1>0, <1>3, <2>1 DEF ExecIncr
    <2> QED
      BY <1>1, <1>3, <2>1, <2>2, AnswerCleaned DEF ExecIncr
  <1>4. ASSUME NEW m \in Node, ExecDecr(m) PROVE Cleaned(u)'
    <2>1. /\ cmdq[m] # <<>> /\ ~HeadIs(m, "offline") /\ alive = Node
          /\ HeadUser(m) \in User /\ HeadSock(m) \in Socket
      BY <1>4, HeadType DEF ExecDecr, HeadIs
    <2>2. counts[HeadUser(m)] - 1 \in Int /\ Answer(m, counts[HeadUser(m)] - 1)
      BY <1>0, <1>4, <2>1 DEF ExecDecr
    <2>3. CASE u = HeadUser(m)
      <3>1. counts[HeadUser(m)] - 1 <= 0 /\ HeadIs(m, "decr")
        BY <1>0, <1>4, <2>1, <2>3 DEF ExecDecr
      <3>2. PICK s \in Socket : s = HeadSock(m)
        BY <2>1
      <3>3. s \in SocketsOf(u)
        BY <2>3, <3>2 DEF SocketsOf, HeadUser
      <3>4. Answered(m, s)'
        BY <2>1, <2>2, <3>1, <3>2, AnswerKeeps
      <3> QED
        BY <3>3, <3>4 DEF Cleaned, SocketsOf
    <2>4. CASE u # HeadUser(m)
      <3>1. counts[u] < 0
        BY <1>0, <1>4, <2>1, <2>4 DEF ExecDecr
      <3> QED
        BY <1>1, <2>1, <2>2, <3>1, AnswerCleaned
    <2> QED
      BY <2>3, <2>4
  <1>5. ASSUME NEW m \in Node, ExecDel(m) PROVE Cleaned(u)'
    <2>1. cmdq[m] # <<>> /\ ~HeadIs(m, "offline") /\ alive = Node /\ counts[u] < 0
      BY <1>5 DEF ExecDel, HeadIs
    <2> QED
      BY <1>1, <1>5, <2>1, AnswerCleaned DEF ExecDel
  <1>6. ASSUME NEW m \in Node, ExecOffline(m) PROVE Cleaned(u)'
    <2>1. /\ cmdq[m] # <<>> /\ alive = Node /\ m \in alive /\ HeadUser(m) \in User
          /\ Answer(m, 0) /\ cmdq' = [cmdq EXCEPT ![m] = Tail(@)]
      BY <1>6, HeadType DEF ExecOffline, HeadIs, Answer
    <2>2. u # HeadUser(m) /\ counts[u] < 0
      BY <1>0, <1>6, <2>1 DEF ExecOffline
    <2>3. PICK s \in SocketsOf(u), n \in Node : Queued(n, "offline", s) \/ Answered(n, s)
      BY <1>1, <2>1, <2>2 DEF Cleaned
    <2>4. s \in Socket /\ HeadSock(m) # s
      BY <2>2 DEF SocketsOf, HeadUser
    <2>5. Queued(n, "offline", s) => Queued(n, "offline", s)'
      BY <2>1, <2>4, PopKeeps
    <2>6. Answered(n, s) => Answered(n, s)'
      BY <2>1, <2>4, AnswerKeeps
    <2> QED
      BY <2>3, <2>5, <2>6 DEF Cleaned, SocketsOf
  <1>7. ASSUME NEW m \in Node, ExecPublish(m) PROVE Cleaned(u)'
    <2>1. /\ cmdq[m] # <<>> /\ ~HeadIs(m, "offline") /\ alive = Node /\ counts[u] < 0
          /\ cmdq' = [cmdq EXCEPT ![m] = Tail(@)] /\ replyq' = replyq
      BY <1>7 DEF ExecPublish, HeadIs
    <2>2. PICK s \in SocketsOf(u), n \in Node : Queued(n, "offline", s) \/ Answered(n, s)
      BY <1>1, <2>1 DEF Cleaned
    <2>3. s \in Socket
      BY DEF SocketsOf
    <2>4. Queued(n, "offline", s)' \/ Answered(n, s)'
      BY <2>1, <2>2, <2>3, PopKeeps DEF Answered
    <2> QED
      BY <2>4 DEF Cleaned, SocketsOf
  <1>8. ASSUME NEW m \in Node, EventLoop(m) PROVE Cleaned(u)'
    <2>1. /\ replyq[m] # <<>> /\ Resume(m) /\ counts' = counts /\ alive' = alive
      BY <1>8 DEF EventLoop, OnIncrReply, OnDecrReply, OnDelReply, OnOfflineReply, ReplyIs
    <2>2. Head(replyq[m]).sock \in Socket
      BY <2>1, ReplyType
    <2>3. /\ cmdq' = cmdq \/ \E op \in Ops, r \in Socket : Issue(m, op, r)
          /\ ReplyIs(m, "decr") /\ Head(replyq[m]).count <= 0
             => Issue(m, "offline", Head(replyq[m]).sock)
      BY <1>8, <2>2 DEF EventLoop, OnIncrReply, OnDecrReply, OnDelReply, OnOfflineReply,
                        ReplyIs, Ops
    <2> QED
      BY <1>1, <2>1, <2>3, ResumeCleaned
  <1>9. ASSUME NEW m \in Node, Receive(m) PROVE Cleaned(u)'
    BY <1>1, <1>9 DEF Receive, Cleaned, Queued, Answered
  <1>10. ASSUME NEW m \in Node, Stop(m) PROVE Cleaned(u)'
    BY <1>10 DEF Stop
  <1>11. CASE UNCHANGED vars
    BY <1>1, <1>11 DEF vars, Cleaned, Queued, Answered
  <1> QED
    BY <1>2, <1>3, <1>4, <1>5, <1>6, <1>7, <1>8, <1>9, <1>10, <1>11 DEF Next, Redis

\* Whatever HDEL and DECR do to each other on any number of nodes, a count below
\* zero has its cleanup on the way.
THEOREM NegativeIsCleaned == Spec => []NegativeIsTransient
  <1>1. Init => NegativeIsTransient
    BY DEF Init, NegativeIsTransient
  <1> QED
    BY <1>1, StepNegative, TypeCorrect, PTL DEF Spec

-----------------------------------------------------------------------------
(* The queues as sets.                                                     *)

Cmd(n) == ToSet(cmdq[n])
Rep(n) == ToSet(replyq[n])
Evt(n) == ToSet(inbox[n])

LEMMA Elems ==
    ASSUME TypeOK, NEW n \in Node
    PROVE  /\ Cmd(n) = {cmdq[n][i] : i \in DOMAIN cmdq[n]} /\ Cmd(n) \subseteq Command
           /\ Rep(n) = {replyq[n][i] : i \in DOMAIN replyq[n]} /\ Rep(n) \subseteq Reply
           /\ Evt(n) = {inbox[n][i] : i \in DOMAIN inbox[n]} /\ Evt(n) \subseteq Event
  <1>1. cmdq[n] \in Seq(Command) /\ replyq[n] \in Seq(Reply) /\ inbox[n] \in Seq(Event)
    BY DEF TypeOK
  <1>2. /\ \A i \in DOMAIN cmdq[n] : cmdq[n][i] \in Command
        /\ \A i \in DOMAIN replyq[n] : replyq[n][i] \in Reply
        /\ \A i \in DOMAIN inbox[n] : inbox[n][i] \in Event
    BY <1>1, ElementOfSeq, LenProperties
  <1> QED
    BY <1>2 DEF Cmd, Rep, Evt, ToSet

LEMMA IssueSets ==
    ASSUME TypeOK, NEW n \in Node, NEW op \in Ops, NEW s \in Socket, Issue(n, op, s)
    PROVE  \A m \in Node : Cmd(m)' = IF m = n THEN Cmd(m) \cup {[op |-> op, sock |-> s]}
                                              ELSE Cmd(m)
  <1> DEFINE c == [op |-> op, sock |-> s]
  <1>1. c \in Command /\ cmdq[n] \in Seq(Command)
    BY DEF Command, TypeOK
  <1>2. cmdq'[n] = Append(cmdq[n], c) /\ \A m \in Node \ {n} : cmdq'[m] = cmdq[m]
    BY DEF Issue, TypeOK
  <1> HIDE DEF c
  <1>3. ToSet(cmdq'[n]) = ToSet(cmdq[n]) \cup {c}
    BY <1>1, <1>2, SetAppend
  <1> QED
    BY <1>2, <1>3 DEF Cmd, c

LEMMA TakeSets ==
    ASSUME TypeOK, NEW n \in Node, cmdq[n] # <<>>, cmdq' = [cmdq EXCEPT ![n] = Tail(@)]
    PROVE  /\ \A m \in Node : m # n => Cmd(m)' = Cmd(m)
           /\ Cmd(n) = Cmd(n)' \cup {Head(cmdq[n])}
  <1>1. cmdq[n] \in Seq(Command) /\ cmdq'[n] = Tail(cmdq[n])
    BY DEF TypeOK
  <1>2. ToSet(cmdq[n]) = ToSet(cmdq'[n]) \cup {Head(cmdq[n])}
    BY <1>1, SetSplit
  <1> QED
    BY <1>2 DEF Cmd, TypeOK

LEMMA AnswerSets ==
    ASSUME TypeOK, alive = Node, NEW n \in Node, cmdq[n] # <<>>, NEW k \in Int, Answer(n, k)
    PROVE  /\ \A m \in Node : m # n => Cmd(m)' = Cmd(m) /\ Rep(m)' = Rep(m)
           /\ Cmd(n) = Cmd(n)' \cup {Head(cmdq[n])}
           /\ Rep(n)' = Rep(n) \cup {[op |-> Head(cmdq[n]).op, sock |-> HeadSock(n), count |-> k]}
  <1> DEFINE r == [op |-> Head(cmdq[n]).op, sock |-> HeadSock(n), count |-> k]
  <1>1. cmdq' = [cmdq EXCEPT ![n] = Tail(@)]
    BY DEF Answer
  <1>2. replyq'[n] = Append(replyq[n], r) /\ \A m \in Node \ {n} : replyq'[m] = replyq[m]
    BY DEF Answer, TypeOK
  <1>3. r \in Reply /\ replyq[n] \in Seq(Reply)
    <2>1. Head(cmdq[n]) \in Command
      BY QueueTail DEF TypeOK
    <2> QED
      BY <2>1 DEF Command, Reply, HeadSock, TypeOK
  <1> HIDE DEF r
  <1>4. ToSet(replyq'[n]) = ToSet(replyq[n]) \cup {r}
    BY <1>2, <1>3, SetAppend
  <1> QED
    BY <1>1, <1>2, <1>4, TakeSets DEF Rep, r

LEMMA ResumeSets ==
    ASSUME TypeOK, NEW n \in Node, replyq[n] # <<>>, Resume(n)
    PROVE  /\ \A m \in Node : m # n => Rep(m)' = Rep(m)
           /\ Rep(n) = Rep(n)' \cup {Head(replyq[n])}
  <1>1. replyq[n] \in Seq(Reply) /\ replyq'[n] = Tail(replyq[n])
    BY DEF TypeOK, Resume
  <1>2. ToSet(replyq[n]) = ToSet(replyq'[n]) \cup {Head(replyq[n])}
    BY <1>1, SetSplit
  <1> QED
    BY <1>2 DEF Rep, TypeOK, Resume

LEMMA PublishSets ==
    ASSUME TypeOK, alive = Node, NEW n \in Node, ExecPublish(n)
    PROVE  \A m \in Node :
             Evt(m)' = IF m = n THEN Evt(m)
                       ELSE Evt(m) \cup {[user |-> HeadUser(n), online |-> HeadIs(n, "sayOnline")]}
  <1> DEFINE e == [user |-> HeadUser(n), online |-> HeadIs(n, "sayOnline")]
  <1>1. e \in Event
    <2>1. HeadUser(n) \in User /\ HeadIs(n, "sayOnline") \in BOOLEAN
      BY HeadType DEF ExecPublish, HeadIs
    <2> QED
      BY <2>1 DEF Event
  <1>2. \A m \in Node : inbox[m] \in Seq(Event)
    BY DEF TypeOK
  <1>3. \A m \in Node : inbox'[m] = IF m # n THEN Append(inbox[m], e) ELSE inbox[m]
    BY DEF ExecPublish
  <1> HIDE DEF e
  <1>4. \A m \in Node : m # n => ToSet(inbox'[m]) = ToSet(inbox[m]) \cup {e}
    BY <1>1, <1>2, <1>3, SetAppend
  <1> QED
    BY <1>3, <1>4 DEF Evt, e

LEMMA ReceiveSets ==
    ASSUME TypeOK, NEW n \in Node, Receive(n)
    PROVE  /\ \A m \in Node : m # n => Evt(m)' = Evt(m)
           /\ Evt(n) = Evt(n)' \cup {Head(inbox[n])}
           /\ Head(inbox[n]) \in Event
  <1>1. inbox[n] \in Seq(Event) /\ inbox'[n] = Tail(inbox[n]) /\ inbox[n] # <<>>
    BY DEF TypeOK, Receive
  <1>2. ToSet(inbox[n]) = ToSet(inbox'[n]) \cup {Head(inbox[n])} /\ Head(inbox[n]) \in Event
    BY <1>1, SetSplit, QueueTail
  <1> QED
    BY <1>2 DEF Evt, TypeOK, Receive
=============================================================================
