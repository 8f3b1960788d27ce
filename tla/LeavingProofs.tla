---------------------------- MODULE LeavingProofs ----------------------------
(* LeavingIsSeen, for any nodes, users and sockets: what a user whose tabs   *)
(* reach one node leaves behind, in whatever order the tabs came and went.   *)
EXTENDS PresenceProofs

-----------------------------------------------------------------------------
(* An announcement of a user goes through five queues, in this order: the    *)
(* answer that decides on it, DEL or MULTI and its answer, PUBLISH, and the   *)
(* inboxes of the other nodes.  What matters is the last one on its way.      *)

Out == {"decr", "offline", "sayOffline"}
CmdOut == {c \in Command : c.op \in Out}
RepOut == {r \in Reply : r.op \in Out}
EvtOut == {e \in Event : ~e.online}

Turned(u) == {r \in Reply : /\ UserOf[r.sock] = u
                            /\ \/ r.op = "incr" /\ r.count = 1
                               \/ r.op = "decr" /\ r.count <= 0}
Acting(u) == {c \in Command : UserOf[c.sock] = u /\ c.op \in {"del", "offline"}}
Acted(u) == {r \in Reply : UserOf[r.sock] = u /\ r.op \in {"del", "offline"}}
Saying(u) == {c \in Command : UserOf[c.sock] = u /\ c.op \in {"sayOnline", "sayOffline"}}
News(u) == {e \in Event : e.user = u}

NoneIn(q, T) == ToSet(q) \cap T = {}
Ends(q, T, B) == LastIn(q, T) \subseteq B

\* The last word that is on its way to each place, or has reached it, is that
\* the user left.
Heard(u, h) ==
    \A m \in Node \ {h} : /\ Ends(inbox[m], News(u), EvtOut)
                          /\ NoneIn(inbox[m], News(u)) => view[m][u] = "offline"
Said(u, h) ==
    /\ view[h][u] = "offline"
    /\ Ends(cmdq[h], Saying(u), CmdOut)
    /\ NoneIn(cmdq[h], Saying(u)) => Heard(u, h)
Stored(u, h) ==
    /\ u \in lastSeen
    /\ Ends(replyq[h], Acted(u), RepOut)
    /\ NoneIn(replyq[h], Acted(u)) => Said(u, h)
Decided(u, h) ==
    /\ Ends(cmdq[h], Acting(u), CmdOut)
    /\ NoneIn(cmdq[h], Acting(u)) => Stored(u, h)
Follows(u, h) ==
    /\ Ends(replyq[h], Turned(u), RepOut)
    /\ NoneIn(replyq[h], Turned(u)) => Decided(u, h)

\* All the user's sockets reach h; none is counted or about to be, one was.
Home(u, h) == \A s \in SocketsOf(u) : home[s] = h
Incr(s) == [op |-> "incr", sock |-> s]
Away(u, h) ==
    /\ CountedOf(u) = {}
    /\ \E s \in SocketsOf(u) : phase[s] = "closed"
    /\ \A s \in SocketsOf(u) : Incr(s) \notin ToSet(cmdq[h])

\* Commands and answers stay with the node of their socket.
AtHome ==
    \A n \in Node : /\ \A c \in ToSet(cmdq[n]) : home[c.sock] = n
                    /\ \A r \in ToSet(replyq[n]) : home[r.sock] = n

LastWord ==
    \A u \in User, h \in Node : Home(u, h) =>
        /\ NoneIn(inbox[h], News(u))
        /\ Away(u, h) => Follows(u, h)

LeaveInv == alive = Node => AtHome /\ LastWord

-----------------------------------------------------------------------------
(* What a step does to the last word in a queue.                             *)

Stays(q, p, T, B) == (Ends(q, T, B) => Ends(p, T, B)) /\ (NoneIn(p, T) => NoneIn(q, T))
Placed(p, T, B) == Ends(p, T, B) /\ ~NoneIn(p, T)

LEMMA AppendWord ==
    ASSUME NEW S, NEW q \in Seq(S), NEW x \in S, NEW T, NEW B
    PROVE  /\ x \notin T => Stays(q, Append(q, x), T, B)
           /\ x \in T /\ x \in B => Placed(Append(q, x), T, B)
  <1>1. \A e \in LastIn(Append(q, x), T) : IF x \in T THEN e = x ELSE e \in LastIn(q, T)
    BY LastAppend
  <1>2. ToSet(Append(q, x)) = ToSet(q) \cup {x}
    BY SetAppend
  <1> QED
    BY <1>1, <1>2 DEF Stays, Placed, Ends, NoneIn

LEMMA TailWord ==
    ASSUME NEW S, NEW q \in Seq(S), q # <<>>, NEW T, NEW B
    PROVE  /\ Head(q) \notin T => Stays(q, Tail(q), T, B)
           /\ Ends(q, T, B) => Ends(Tail(q), T, B)
           /\ Ends(q, T, B) /\ Head(q) \in T /\ NoneIn(Tail(q), T) => Head(q) \in B
  <1>1. /\ LastIn(Tail(q), T) \subseteq LastIn(q, T)
        /\ Head(q) \in T /\ ToSet(Tail(q)) \cap T = {} => Head(q) \in LastIn(q, T)
    BY LastTail
  <1>2. ToSet(q) = ToSet(Tail(q)) \cup {Head(q)}
    BY SetSplit
  <1> QED
    BY <1>1, <1>2 DEF Stays, Ends, NoneIn

LEMMA IssueWord ==
    ASSUME TypeOK, NEW n \in Node, NEW op \in Ops, NEW s \in Socket, Issue(n, op, s),
           NEW h \in Node, NEW T
    PROVE  /\ n # h \/ [op |-> op, sock |-> s] \notin T => Stays(cmdq[h], cmdq'[h], T, CmdOut)
           /\ n = h /\ op \in Out /\ [op |-> op, sock |-> s] \in T => Placed(cmdq'[h], T, CmdOut)
  <1>1. PICK c \in Command : c = [op |-> op, sock |-> s]
    <2>1. [op |-> op, sock |-> s] \in Command
      BY DEF Command
    <2> QED
      BY <2>1
  <1>2. cmdq[h] \in Seq(Command) /\ cmdq'[h] = IF h = n THEN Append(cmdq[h], c) ELSE cmdq[h]
    BY <1>1 DEF Issue, TypeOK
  <1>3. op \in Out => c \in CmdOut
    BY <1>1 DEF CmdOut
  <1>4. /\ c \notin T => Stays(cmdq[h], Append(cmdq[h], c), T, CmdOut)
        /\ c \in T /\ c \in CmdOut => Placed(Append(cmdq[h], c), T, CmdOut)
    BY <1>2, AppendWord
  <1>5. Stays(cmdq[h], cmdq[h], T, CmdOut)
    BY DEF Stays
  <1> QED
    BY <1>1, <1>2, <1>3, <1>4, <1>5

LEMMA TakeWord ==
    ASSUME TypeOK, NEW n \in Node, cmdq[n] # <<>>, cmdq' = [cmdq EXCEPT ![n] = Tail(@)],
           NEW h \in Node, NEW T
    PROVE  /\ n # h \/ Head(cmdq[n]) \notin T => Stays(cmdq[h], cmdq'[h], T, CmdOut)
           /\ Ends(cmdq[h], T, CmdOut) => Ends(cmdq'[h], T, CmdOut)
           /\ n = h /\ Ends(cmdq[h], T, CmdOut) /\ Head(cmdq[h]) \in T /\ NoneIn(cmdq'[h], T)
                => Head(cmdq[h]).op \in Out
  <1>1. cmdq[h] \in Seq(Command) /\ cmdq'[h] = IF h = n THEN Tail(cmdq[h]) ELSE cmdq[h]
    BY DEF TypeOK
  <1>2. Stays(cmdq[h], cmdq[h], T, CmdOut)
    BY DEF Stays
  <1>3. CASE h = n
    BY <1>1, <1>3, TailWord DEF CmdOut
  <1> QED
    BY <1>1, <1>2, <1>3

LEMMA AnswerWord ==
    ASSUME TypeOK, alive = Node, NEW n \in Node, cmdq[n] # <<>>, NEW k \in Int, Answer(n, k),
           NEW h \in Node, NEW T,
           NEW r, r = [op |-> Head(cmdq[n]).op, sock |-> HeadSock(n), count |-> k]
    PROVE  /\ n # h \/ r \notin T => Stays(replyq[h], replyq'[h], T, RepOut)
           /\ n = h /\ r.op \in Out /\ r \in T => Placed(replyq'[h], T, RepOut)
  <1>1. Head(cmdq[n]) \in Command
    BY QueueTail DEF TypeOK
  <1>2. r \in Reply
    BY <1>1 DEF Command, Reply, HeadSock
  <1>3. replyq[h] \in Seq(Reply) /\ replyq'[h] = IF h = n THEN Append(replyq[h], r) ELSE replyq[h]
    BY DEF Answer, TypeOK
  <1>4. r.op \in Out => r \in RepOut
    BY <1>2 DEF RepOut
  <1>5. /\ r \notin T => Stays(replyq[h], Append(replyq[h], r), T, RepOut)
        /\ r \in T /\ r \in RepOut => Placed(Append(replyq[h], r), T, RepOut)
    BY <1>2, <1>3, AppendWord
  <1>6. Stays(replyq[h], replyq[h], T, RepOut)
    BY DEF Stays
  <1> QED
    BY <1>3, <1>4, <1>5, <1>6

LEMMA ResumeWord ==
    ASSUME TypeOK, NEW n \in Node, replyq[n] # <<>>, Resume(n), NEW h \in Node, NEW T
    PROVE  /\ n # h \/ Head(replyq[n]) \notin T => Stays(replyq[h], replyq'[h], T, RepOut)
           /\ Ends(replyq[h], T, RepOut) => Ends(replyq'[h], T, RepOut)
           /\ n = h /\ Ends(replyq[h], T, RepOut) /\ Head(replyq[h]) \in T /\ NoneIn(replyq'[h], T)
                => Head(replyq[h]).op \in Out
  <1>1. replyq[h] \in Seq(Reply) /\ replyq'[h] = IF h = n THEN Tail(replyq[h]) ELSE replyq[h]
    BY DEF TypeOK, Resume
  <1>2. Stays(replyq[h], replyq[h], T, RepOut)
    BY DEF Stays
  <1>3. CASE h = n
    BY <1>1, <1>3, TailWord DEF RepOut
  <1> QED
    BY <1>1, <1>2, <1>3

\* A step that moves no announcement of u keeps the last word.
LEMMA WordKept ==
    ASSUME NEW u \in User, NEW h \in Node, Follows(u, h),
           Stays(replyq[h], replyq'[h], Turned(u), RepOut),
           Stays(cmdq[h], cmdq'[h], Acting(u), CmdOut),
           Stays(replyq[h], replyq'[h], Acted(u), RepOut),
           Stays(cmdq[h], cmdq'[h], Saying(u), CmdOut),
           u \in lastSeen => u \in lastSeen', view'[h][u] = view[h][u],
           \A m \in Node \ {h} : /\ Stays(inbox[m], inbox'[m], News(u), EvtOut)
                                 /\ view'[m][u] = view[m][u]
    PROVE  Follows(u, h)'
  <1>1. Heard(u, h) => Heard(u, h)'
    BY DEF Heard, Stays
  <1>2. Said(u, h) => Said(u, h)'
    BY <1>1 DEF Said, Stays
  <1>3. Stored(u, h) => Stored(u, h)'
    BY <1>2 DEF Stored, Stays
  <1>4. Decided(u, h) => Decided(u, h)'
    BY <1>3 DEF Decided, Stays
  <1> QED
    BY <1>4 DEF Follows, Stays

-----------------------------------------------------------------------------
(* The steps, once the last word is "left".                                  *)

\* What the lemmas below keep of LastWord, for one user who is away.
Left(u, h) == alive = Node /\ Home(u, h) /\ NoneIn(inbox[h], News(u)) /\ Follows(u, h)

LEMMA HeadHome ==
    ASSUME TypeOK, AtHome, NEW n \in Node
    PROVE  /\ cmdq[n] # <<>> => /\ Head(cmdq[n]) \in Command
                                /\ home[HeadSock(n)] = n
           /\ replyq[n] # <<>> => /\ Head(replyq[n]) \in Reply
                                  /\ home[Head(replyq[n]).sock] = n
           /\ inbox[n] # <<>> => /\ Head(inbox[n]) \in Event
                                 /\ Head(inbox[n]) \in ToSet(inbox[n])
  <1>1. cmdq[n] \in Seq(Command) /\ replyq[n] \in Seq(Reply) /\ inbox[n] \in Seq(Event)
    BY DEF TypeOK
  <1> QED
    BY <1>1, QueueTail, SetTail DEF AtHome, HeadSock

LEMMA PlugWord ==
    ASSUME TypeOK, NEW u \in User, NEW h \in Node, Left(u, h),
           NEW s \in Socket, Connect(s) \/ Disconnect(s)
    PROVE  Follows(u, h)'
  <1>1. PICK n \in Node, op \in {"incr", "decr"} :
          Issue(n, op, s) /\ UNCHANGED <<replyq, inbox, lastSeen, view>>
    BY DEF Connect, Disconnect, TypeOK
  <1>2. [op |-> op, sock |-> s] \notin Acting(u) \cup Saying(u) /\ op \in Ops
    BY DEF Acting, Saying, Ops
  <1>3. /\ Stays(cmdq[h], cmdq'[h], Acting(u), CmdOut)
        /\ Stays(cmdq[h], cmdq'[h], Saying(u), CmdOut)
    BY <1>1, <1>2, IssueWord
  <1> QED
    BY <1>1, <1>3, WordKept DEF Left, Stays

\* The counter is asked.  Only the answer to u matters, see LeaveWord.
LEMMA AskWord ==
    ASSUME TypeOK, AtHome, NEW u \in User, NEW h \in Node, Left(u, h),
           NEW n \in Node, ExecIncr(n) \/ ExecDecr(n), HeadUser(n) # u
    PROVE  Follows(u, h)'
  <1>1. PICK k \in Int : Answer(n, k)
    <2>1. HeadUser(n) \in User
      BY HeadType DEF ExecIncr, ExecDecr, HeadIs
    <2>2. counts[HeadUser(n)] + 1 \in Int /\ counts[HeadUser(n)] - 1 \in Int
      BY <2>1 DEF TypeOK
    <2> QED
      BY <2>2 DEF ExecIncr, ExecDecr
  <1>2. /\ cmdq[n] # <<>> /\ cmdq' = [cmdq EXCEPT ![n] = Tail(@)]
        /\ UNCHANGED <<inbox, lastSeen, view>>
        /\ Head(cmdq[n]).op \in {"incr", "decr"}
    BY <1>1 DEF ExecIncr, ExecDecr, HeadIs, Answer
  <1>3. PICK r : r = [op |-> Head(cmdq[n]).op, sock |-> HeadSock(n), count |-> k]
    OBVIOUS
  <1>4. Head(cmdq[n]) \notin Acting(u) \cup Saying(u) /\ r \notin Turned(u) \cup Acted(u)
    BY <1>2, <1>3 DEF Acting, Saying, Turned, Acted, HeadUser
  <1>5. /\ Stays(cmdq[h], cmdq'[h], Acting(u), CmdOut)
        /\ Stays(cmdq[h], cmdq'[h], Saying(u), CmdOut)
    BY <1>2, <1>4, TakeWord
  <1>6. /\ Stays(replyq[h], replyq'[h], Turned(u), RepOut)
        /\ Stays(replyq[h], replyq'[h], Acted(u), RepOut)
    BY <1>1, <1>2, <1>3, <1>4, AnswerWord DEF Left
  <1> QED
    BY <1>2, <1>5, <1>6, WordKept DEF Left, Stays

\* DEL and MULTI.
LEMMA ActWord ==
    ASSUME TypeOK, AtHome, NEW u \in User, NEW h \in Node, Left(u, h),
           NEW n \in Node, ExecDel(n) \/ ExecOffline(n)
    PROVE  Follows(u, h)'
  <1>1. PICK k \in Int : k = 0 /\ Answer(n, k)
    BY DEF ExecDel, ExecOffline
  <1>2. /\ cmdq[n] # <<>> /\ cmdq' = [cmdq EXCEPT ![n] = Tail(@)]
        /\ UNCHANGED <<inbox, view>>
        /\ \/ Head(cmdq[n]).op = "del" /\ lastSeen' = lastSeen \ {HeadUser(n)}
           \/ Head(cmdq[n]).op = "offline" /\ lastSeen' = lastSeen \cup {HeadUser(n)}
    BY <1>1 DEF ExecDel, ExecOffline, HeadIs, Answer
  <1>3. PICK r : r = [op |-> Head(cmdq[n]).op, sock |-> HeadSock(n), count |-> k]
    OBVIOUS
  <1>4. Head(cmdq[n]) \in Command /\ HeadSock(n) \in Socket /\ home[HeadSock(n)] = n
    BY <1>2, HeadHome, HeadType
  <1>5. Head(cmdq[n]) \notin Saying(u) /\ r \notin Turned(u)
    BY <1>2, <1>3 DEF Saying, Turned
  <1>6. Stays(cmdq[h], cmdq'[h], Saying(u), CmdOut)
    BY <1>2, <1>5, TakeWord
  <1>7. Stays(replyq[h], replyq'[h], Turned(u), RepOut)
    BY <1>1, <1>2, <1>3, <1>5, AnswerWord DEF Left
  <1>8. CASE HeadUser(n) # u
    <2>1. Head(cmdq[n]) \notin Acting(u) /\ r \notin Acted(u)
      BY <1>3, <1>8 DEF Acting, Acted, HeadUser, HeadSock
    <2>2. Stays(cmdq[h], cmdq'[h], Acting(u), CmdOut)
      BY <1>2, <2>1, TakeWord
    <2>3. Stays(replyq[h], replyq'[h], Acted(u), RepOut)
      BY <1>1, <1>2, <1>3, <2>1, AnswerWord DEF Left
    <2> QED
      BY <1>2, <1>6, <1>7, <1>8, <2>2, <2>3, WordKept DEF Left, Stays
  <1>9. CASE HeadUser(n) = u
    <2>1. n = h
      BY <1>4, <1>9 DEF Left, Home, SocketsOf, HeadUser
    <2>2. Head(cmdq[h]) \in Acting(u)
      BY <1>2, <1>4, <1>9, <2>1 DEF Acting, HeadUser, HeadSock
    <2>3. /\ Ends(cmdq[h], Acting(u), CmdOut) => Ends(cmdq'[h], Acting(u), CmdOut)
          /\ Ends(cmdq[h], Acting(u), CmdOut) /\ NoneIn(cmdq'[h], Acting(u)) =>
               Head(cmdq[h]).op \in Out
      BY <1>2, <2>1, <2>2, TakeWord
    <2>4. Head(cmdq[h]).op \in Out => Stored(u, h)'
      <3> SUFFICES ASSUME Head(cmdq[h]).op \in Out PROVE Stored(u, h)'
        OBVIOUS
      <3>1. Head(cmdq[h]).op = "offline" /\ u \in lastSeen'
        BY <1>2, <1>9, <2>1 DEF Out
      <3>2. r \in Acted(u) /\ r.op \in Out
        BY <1>1, <1>3, <1>4, <1>9, <2>1, <3>1 DEF Acted, Reply, Out, Ops, HeadUser
      <3>3. Placed(replyq'[h], Acted(u), RepOut)
        BY <1>1, <1>2, <1>3, <2>1, <3>2, AnswerWord DEF Left
      <3> QED
        BY <3>1, <3>3 DEF Stored, Placed
    <2>5. Decided(u, h) => Decided(u, h)'
      BY <2>3, <2>4 DEF Decided
    <2> QED
      BY <1>7, <2>5 DEF Left, Follows, Stays
  <1> QED
    BY <1>8, <1>9

\* PUBLISH.
LEMMA PublishWord ==
    ASSUME TypeOK, AtHome, NEW u \in User, NEW h \in Node, Left(u, h),
           NEW n \in Node, ExecPublish(n)
    PROVE  Follows(u, h)'
  <1>1. /\ cmdq[n] # <<>> /\ cmdq' = [cmdq EXCEPT ![n] = Tail(@)]
        /\ UNCHANGED <<replyq, lastSeen, view>>
        /\ Head(cmdq[n]).op \in {"sayOnline", "sayOffline"}
    BY DEF ExecPublish, HeadIs
  <1>2. Head(cmdq[n]) \in Command /\ HeadSock(n) \in Socket /\ home[HeadSock(n)] = n
    BY <1>1, HeadHome, HeadType
  <1>3. PICK e \in Event : e = [user |-> HeadUser(n), online |-> HeadIs(n, "sayOnline")]
    <2>1. HeadUser(n) \in User /\ HeadIs(n, "sayOnline") \in BOOLEAN
      BY <1>1, HeadType DEF HeadIs
    <2>2. [user |-> HeadUser(n), online |-> HeadIs(n, "sayOnline")] \in Event
      BY <2>1 DEF Event
    <2> QED
      BY <2>2
  <1>4. \A m \in Node : inbox'[m] = IF m # n THEN Append(inbox[m], e) ELSE inbox[m]
    BY <1>3 DEF ExecPublish, Left
  <1>5. \A m \in Node : inbox[m] \in Seq(Event)
    BY DEF TypeOK
  <1>6. Head(cmdq[n]) \notin Acting(u)
    BY <1>1 DEF Acting
  <1>7. Stays(cmdq[h], cmdq'[h], Acting(u), CmdOut)
    BY <1>1, <1>6, TakeWord
  <1>8. CASE HeadUser(n) # u
    <2>1. Head(cmdq[n]) \notin Saying(u) /\ e \notin News(u)
      BY <1>3, <1>8 DEF Saying, News, HeadUser, HeadSock
    <2>2. Stays(cmdq[h], cmdq'[h], Saying(u), CmdOut)
      BY <1>1, <2>1, TakeWord
    <2>3. ASSUME NEW m \in Node PROVE Stays(inbox[m], inbox'[m], News(u), EvtOut)
      <3>1. Stays(inbox[m], Append(inbox[m], e), News(u), EvtOut)
        BY <1>5, <2>1, AppendWord
      <3>2. Stays(inbox[m], inbox[m], News(u), EvtOut)
        BY DEF Stays
      <3> QED
        BY <1>4, <3>1, <3>2
    <2> QED
      BY <1>1, <1>7, <2>2, <2>3, WordKept DEF Left, Stays
  <1>9. CASE HeadUser(n) = u
    <2>1. n = h
      BY <1>2, <1>9 DEF Left, Home, SocketsOf, HeadUser
    <2>2. Head(cmdq[h]) \in Saying(u)
      BY <1>1, <1>2, <1>9, <2>1 DEF Saying, HeadUser, HeadSock
    <2>3. /\ Ends(cmdq[h], Saying(u), CmdOut) => Ends(cmdq'[h], Saying(u), CmdOut)
          /\ Ends(cmdq[h], Saying(u), CmdOut) /\ NoneIn(cmdq'[h], Saying(u)) =>
               Head(cmdq[h]).op \in Out
      BY <1>1, <2>1, <2>2, TakeWord
    <2>4. Head(cmdq[h]).op \in Out => Heard(u, h)'
      <3> SUFFICES ASSUME Head(cmdq[h]).op \in Out, NEW m \in Node \ {h}
                   PROVE  Placed(inbox'[m], News(u), EvtOut)
        BY DEF Heard, Placed
      <3>1. ~HeadIs(h, "sayOnline")
        BY DEF Out, HeadIs
      <3>2. e \in News(u) /\ e \in EvtOut
        BY <1>3, <1>9, <2>1, <3>1 DEF News, EvtOut
      <3>3. inbox'[m] = Append(inbox[m], e) /\ inbox[m] \in Seq(Event)
        BY <1>4, <1>5, <2>1
      <3> QED
        BY <3>2, <3>3, AppendWord
    <2>5. Said(u, h) => Said(u, h)'
      BY <1>1, <2>3, <2>4 DEF Said
    <2>6. Stored(u, h) => Stored(u, h)'
      BY <1>1, <2>5 DEF Stored
    <2>7. Decided(u, h) => Decided(u, h)'
      BY <1>7, <2>6 DEF Decided, Stays
    <2> QED
      BY <1>1, <2>7 DEF Left, Follows
  <1> QED
    BY <1>8, <1>9

\* The answer to INCR or DECR.
LEMMA AskReplyWord ==
    ASSUME TypeOK, AtHome, NEW u \in User, NEW h \in Node, Left(u, h),
           NEW n \in Node, OnIncrReply(n) \/ OnDecrReply(n)
    PROVE  Follows(u, h)'
  <1>1. PICK r \in Reply : r = Head(replyq[n])
    BY HeadHome DEF OnIncrReply, OnDecrReply, ReplyIs
  <1>2. /\ replyq[n] # <<>> /\ Resume(n) /\ r.sock \in Socket /\ home[r.sock] = n
        /\ UNCHANGED <<inbox, lastSeen, view>>
        /\ \/ r.op = "incr" /\ r.count # 1 /\ UNCHANGED cmdq
           \/ r.op = "incr" /\ r.count = 1 /\ Issue(n, "del", r.sock)
           \/ r.op = "decr" /\ ~(r.count <= 0) /\ UNCHANGED cmdq
           \/ r.op = "decr" /\ r.count <= 0 /\ Issue(n, "offline", r.sock)
    BY <1>1, HeadHome DEF OnIncrReply, OnDecrReply, ReplyIs, Reply
  <1>3. r \notin Acted(u)
    BY <1>2 DEF Acted
  <1>4. Stays(replyq[h], replyq'[h], Acted(u), RepOut)
    BY <1>1, <1>2, <1>3, ResumeWord
  <1>5. Stays(cmdq[h], cmdq'[h], Saying(u), CmdOut)
    <2>1. \A op \in {"del", "offline"} : [op |-> op, sock |-> r.sock] \notin Saying(u) /\ op \in Ops
      BY DEF Saying, Ops
    <2>2. CASE UNCHANGED cmdq
      BY <2>2 DEF Stays
    <2>3. CASE Issue(n, "del", r.sock) \/ Issue(n, "offline", r.sock)
      BY <1>2, <2>1, <2>3, IssueWord
    <2> QED
      BY <1>2, <2>2, <2>3
  <1>6. CASE r \notin Turned(u)
    <2>1. Stays(replyq[h], replyq'[h], Turned(u), RepOut)
      BY <1>1, <1>2, <1>6, ResumeWord
    <2>2. Stays(cmdq[h], cmdq'[h], Acting(u), CmdOut)
      <3>1. CASE UNCHANGED cmdq
        BY <3>1 DEF Stays
      <3>2. ASSUME NEW op \in {"del", "offline"}, Issue(n, op, r.sock), UserOf[r.sock] # u
            PROVE  Stays(cmdq[h], cmdq'[h], Acting(u), CmdOut)
        <4>1. [op |-> op, sock |-> r.sock] \notin Acting(u) /\ op \in Ops
          BY <3>2 DEF Acting, Ops
        <4> QED
          BY <1>2, <3>2, <4>1, IssueWord
      <3> QED
        BY <1>2, <1>6, <3>1, <3>2 DEF Turned
    <2> QED
      BY <1>2, <1>4, <1>5, <2>1, <2>2, WordKept DEF Left, Stays
  <1>7. CASE r \in Turned(u)
    <2>1. UserOf[r.sock] = u /\ n = h
      BY <1>2, <1>7 DEF Turned, Left, Home, SocketsOf
    <2>2. /\ Ends(replyq'[h], Turned(u), RepOut)
          /\ NoneIn(replyq'[h], Turned(u)) => r.op \in Out
      BY <1>1, <1>2, <1>7, <2>1, ResumeWord DEF Left, Follows
    <2>3. r.op \in Out => Decided(u, h)'
      <3> SUFFICES ASSUME r.op \in Out PROVE Decided(u, h)'
        OBVIOUS
      <3>1. Issue(h, "offline", r.sock)
        BY <1>2, <1>7, <2>1 DEF Out, Turned
      <3>2. [op |-> "offline", sock |-> r.sock] \in Acting(u) /\ "offline" \in Out \cap Ops
        BY <1>2, <2>1 DEF Acting, Command, Ops, Out
      <3>3. Placed(cmdq'[h], Acting(u), CmdOut)
        BY <1>2, <3>1, <3>2, IssueWord
      <3> QED
        BY <3>3 DEF Decided, Placed
    <2> QED
      BY <2>2, <2>3 DEF Follows
  <1> QED
    BY <1>6, <1>7

\* The answer to DEL or MULTI: the listeners of the node are told.
LEMMA ActReplyWord ==
    ASSUME TypeOK, AtHome, NEW u \in User, NEW h \in Node, Left(u, h),
           NEW n \in Node, OnDelReply(n) \/ OnOfflineReply(n)
    PROVE  Follows(u, h)'
  <1>1. PICK r \in Reply : r = Head(replyq[n])
    BY HeadHome DEF OnDelReply, OnOfflineReply, ReplyIs
  <1>2. PICK say \in {"sayOnline", "sayOffline"} :
          /\ Issue(n, say, r.sock) /\ Tell(n, UserOf[r.sock], say = "sayOnline")
          /\ r.op = IF say = "sayOnline" THEN "del" ELSE "offline"
    BY <1>1 DEF OnDelReply, OnOfflineReply, ReplyIs
  <1>3. /\ replyq[n] # <<>> /\ Resume(n) /\ r.sock \in Socket /\ home[r.sock] = n
        /\ UNCHANGED <<inbox, lastSeen>>
    BY <1>1, HeadHome DEF OnDelReply, OnOfflineReply, ReplyIs, Reply
  <1>4. /\ r \notin Turned(u)
        /\ [op |-> say, sock |-> r.sock] \notin Acting(u) /\ say \in Ops
    BY <1>2 DEF Turned, Acting, Ops
  <1>5. Stays(replyq[h], replyq'[h], Turned(u), RepOut)
    BY <1>1, <1>3, <1>4, ResumeWord
  <1>6. Stays(cmdq[h], cmdq'[h], Acting(u), CmdOut)
    BY <1>2, <1>3, <1>4, IssueWord
  <1>7. CASE UserOf[r.sock] # u
    <2>1. r \notin Acted(u) /\ [op |-> say, sock |-> r.sock] \notin Saying(u)
      BY <1>7 DEF Acted, Saying
    <2>2. Stays(replyq[h], replyq'[h], Acted(u), RepOut)
      BY <1>1, <1>3, <2>1, ResumeWord
    <2>3. Stays(cmdq[h], cmdq'[h], Saying(u), CmdOut)
      BY <1>2, <1>3, <1>4, <2>1, IssueWord
    <2>4. \A m \in Node : view'[m][u] = view[m][u]
      BY <1>2, <1>7 DEF Tell, TypeOK
    <2> QED
      BY <1>3, <1>5, <1>6, <2>2, <2>3, <2>4, WordKept DEF Left, Stays
  <1>8. CASE UserOf[r.sock] = u
    <2>1. n = h
      BY <1>3, <1>8 DEF Left, Home, SocketsOf
    <2>2. r \in Acted(u)
      BY <1>2, <1>8 DEF Acted
    <2>3. /\ Ends(replyq[h], Acted(u), RepOut) => Ends(replyq'[h], Acted(u), RepOut)
          /\ Ends(replyq[h], Acted(u), RepOut) /\ NoneIn(replyq'[h], Acted(u)) => r.op \in Out
      BY <1>1, <1>3, <2>1, <2>2, ResumeWord
    <2>4. r.op \in Out => Said(u, h)'
      <3> SUFFICES ASSUME r.op \in Out PROVE Said(u, h)'
        OBVIOUS
      <3>1. say = "sayOffline"
        BY <1>2 DEF Out
      <3>2. [op |-> say, sock |-> r.sock] \in Saying(u) /\ say \in Out
        BY <1>3, <1>4, <1>8, <3>1 DEF Saying, Command, Out
      <3>3. Placed(cmdq'[h], Saying(u), CmdOut)
        BY <1>2, <1>3, <1>4, <2>1, <3>2, IssueWord
      <3>4. view'[h][u] = "offline"
        BY <1>2, <1>8, <2>1, <3>1 DEF Tell, TypeOK
      <3> QED
        BY <3>3, <3>4 DEF Said, Placed
    <2>5. Stored(u, h) => Stored(u, h)'
      BY <1>3, <2>3, <2>4 DEF Stored
    <2>6. Decided(u, h) => Decided(u, h)'
      BY <1>6, <2>5 DEF Decided, Stays
    <2> QED
      BY <1>5, <2>6 DEF Left, Follows, Stays
  <1> QED
    BY <1>7, <1>8

LEMMA HearWord ==
    ASSUME TypeOK, AtHome, NEW u \in User, NEW h \in Node, Left(u, h),
           NEW n \in Node, Receive(n)
    PROVE  Follows(u, h)'
  <1>1. PICK e \in Event : e = Head(inbox[n]) /\ e \in ToSet(inbox[n])
    BY HeadHome DEF Receive
  <1>2. /\ inbox[n] # <<>> /\ inbox[n] \in Seq(Event)
        /\ \A m \in Node : inbox'[m] = IF m = n THEN Tail(inbox[m]) ELSE inbox[m]
        /\ Tell(n, e.user, e.online)
        /\ UNCHANGED <<cmdq, replyq, lastSeen>>
    BY <1>1 DEF Receive, TypeOK
  <1>3. \A m \in Node : view'[m][u] = IF m = n /\ e.user = u
                                      THEN IF e.online THEN "online" ELSE "offline"
                                      ELSE view[m][u]
    BY <1>2 DEF Tell, TypeOK
  <1>4. n = h => e.user # u
    BY <1>1 DEF Left, NoneIn, News
  <1>5. /\ e \notin News(u) => Stays(inbox[n], Tail(inbox[n]), News(u), EvtOut)
        /\ Ends(inbox[n], News(u), EvtOut) => Ends(Tail(inbox[n]), News(u), EvtOut)
        /\ Ends(inbox[n], News(u), EvtOut) /\ e \in News(u) /\ NoneIn(Tail(inbox[n]), News(u))
             => e \in EvtOut
    BY <1>1, <1>2, TailWord
  <1>6. ASSUME NEW m \in Node \ {h}, Ends(inbox[m], News(u), EvtOut),
               NoneIn(inbox[m], News(u)) => view[m][u] = "offline"
        PROVE  /\ Ends(inbox'[m], News(u), EvtOut)
               /\ NoneIn(inbox'[m], News(u)) => view'[m][u] = "offline"
    <2>1. CASE m # n
      BY <1>2, <1>3, <1>6, <2>1
    <2>2. CASE m = n
      BY <1>2, <1>3, <1>5, <1>6, <2>2 DEF News, EvtOut, Stays
    <2> QED
      BY <2>1, <2>2
  <1>7. Heard(u, h) => Heard(u, h)'
    BY <1>6 DEF Heard
  <1>8. view'[h][u] = view[h][u]
    BY <1>3, <1>4
  <1> QED
    BY <1>2, <1>7, <1>8 DEF Left, Follows, Decided, Stored, Said

\* The DECR that counts the last socket out leaves nothing to count, so its
\* answer is at or below 0, however often HDEL has come between.
LEMMA LeaveWord ==
    ASSUME TypeOK, AtHome, alive = Node, CountBound', NEW u \in User, NEW h \in Node,
           Home(u, h), NEW n \in Node, ExecDecr(n), HeadUser(n) = u, CountedOf(u)' = {}
    PROVE  Follows(u, h)'
  <1>1. PICK k \in Int : k = counts[u] - 1 /\ k = counts'[u]
    BY DEF ExecDecr, TypeOK
  <1>2. /\ cmdq[n] # <<>> /\ Answer(n, k) /\ Head(cmdq[n]).op = "decr"
    BY <1>1 DEF ExecDecr, HeadIs
  <1>3. /\ Head(cmdq[n]) \in Command /\ HeadSock(n) \in Socket /\ UserOf[HeadSock(n)] = u
        /\ n = h
    BY <1>2, HeadHome, HeadType DEF Home, SocketsOf, HeadUser
  <1>4. k <= 0
    <2>1. counts'[u] <= Cardinality(CountedOf(u)')
      BY DEF CountBound, CountedOf, SocketsOf
    <2> QED
      BY <1>1, <2>1, FS_EmptySet
  <1>5. PICK r : r = [op |-> Head(cmdq[n]).op, sock |-> HeadSock(n), count |-> k]
    OBVIOUS
  <1>6. r \in Turned(u) /\ r.op \in Out
    BY <1>2, <1>3, <1>4, <1>5 DEF Turned, Reply, Ops, Out
  <1>7. Placed(replyq'[h], Turned(u), RepOut)
    BY <1>2, <1>3, <1>5, <1>6, AnswerWord
  <1> QED
    BY <1>7 DEF Follows, Placed

-----------------------------------------------------------------------------
(* The rest of the invariant.                                                *)

LEMMA IssueHome ==
    ASSUME TypeOK, AtHome, NEW n \in Node, NEW op \in Ops, NEW s \in Socket,
           Issue(n, op, s), home[s] = n, home' = home,
           \A m \in Node : Rep(m)' \subseteq Rep(m)
    PROVE  AtHome'
  <1>1. \A m \in Node : Cmd(m)' = IF m = n THEN Cmd(m) \cup {[op |-> op, sock |-> s]}
                                           ELSE Cmd(m)
    BY IssueSets
  <1>2. \A m \in Node : \A c \in Cmd(m)' : c \in Cmd(m) \/ (m = n /\ c.sock = s)
    BY <1>1
  <1>3. \A m \in Node : \A r \in Rep(m)' : r \in Rep(m)
    OBVIOUS
  <1> QED
    BY <1>2, <1>3 DEF AtHome, Cmd, Rep

LEMMA AnswerHome ==
    ASSUME TypeOK, AtHome, alive = Node, NEW n \in Node, cmdq[n] # <<>>, NEW k \in Int,
           Answer(n, k), home' = home
    PROVE  AtHome'
  <1>1. /\ \A m \in Node : m # n => Cmd(m)' = Cmd(m) /\ Rep(m)' = Rep(m)
        /\ Cmd(n) = Cmd(n)' \cup {Head(cmdq[n])}
        /\ Rep(n)' = Rep(n) \cup {[op |-> Head(cmdq[n]).op, sock |-> HeadSock(n), count |-> k]}
    BY AnswerSets
  <1>2. home[HeadSock(n)] = n
    BY HeadHome
  <1> QED
    BY <1>1, <1>2 DEF AtHome, Cmd, Rep

LEMMA StepHome ==
    ASSUME TypeOK, AtHome, alive = Node, alive' = Node, [Next]_vars
    PROVE  AtHome'
  <1>1. ASSUME NEW s \in Socket, Connect(s) \/ Disconnect(s) PROVE AtHome'
    <2>1. home[s] \in Node /\ {"incr", "decr"} \subseteq Ops
      BY DEF TypeOK, Ops
    <2>2. home' = home /\ \A m \in Node : Rep(m)' \subseteq Rep(m)
      BY <1>1 DEF Connect, Disconnect, Rep
    <2> QED
      BY <1>1, <2>1, <2>2, IssueHome DEF Connect, Disconnect
  <1>2. ASSUME NEW n \in Node, ExecIncr(n) \/ ExecDecr(n) \/ ExecDel(n) \/ ExecOffline(n)
        PROVE  AtHome'
    <2>1. cmdq[n] # <<>> /\ home' = home
      BY <1>2 DEF ExecIncr, ExecDecr, ExecDel, ExecOffline, HeadIs
    <2>2. counts[HeadUser(n)] \in Int
      BY <2>1, HeadType DEF TypeOK
    <2>3. \E k \in Int : Answer(n, k)
      BY <1>2, <2>2 DEF ExecIncr, ExecDecr, ExecDel, ExecOffline
    <2> QED
      BY <2>1, <2>3, AnswerHome
  <1>3. ASSUME NEW n \in Node, ExecPublish(n) PROVE AtHome'
    <2>1. /\ cmdq[n] # <<>> /\ cmdq' = [cmdq EXCEPT ![n] = Tail(@)]
          /\ home' = home /\ replyq' = replyq
      BY <1>3 DEF ExecPublish, HeadIs
    <2>2. \A m \in Node : Cmd(m)' \subseteq Cmd(m)
      BY <2>1, TakeSets
    <2> QED
      BY <2>1, <2>2 DEF AtHome, Cmd
  <1>4. ASSUME NEW n \in Node, EventLoop(n) PROVE AtHome'
    <2>1. /\ replyq[n] # <<>> /\ Resume(n) /\ home' = home
          /\ UNCHANGED cmdq \/ \E op \in Ops : Issue(n, op, Head(replyq[n]).sock)
      BY <1>4 DEF EventLoop, OnIncrReply, OnDecrReply, OnDelReply, OnOfflineReply, ReplyIs, Ops
    <2>2. Head(replyq[n]).sock \in Socket /\ home[Head(replyq[n]).sock] = n
      BY <2>1, HeadHome, ReplyType
    <2>3. \A m \in Node : Rep(m)' \subseteq Rep(m)
      BY <2>1, ResumeSets
    <2>4. CASE UNCHANGED cmdq
      BY <2>1, <2>3, <2>4 DEF AtHome, Rep
    <2> QED
      BY <2>1, <2>2, <2>3, <2>4, IssueHome
  <1>5. CASE UNCHANGED vars \/ \E n \in Node : Receive(n)
    BY <1>5 DEF Receive, vars, AtHome
  <1>6. ~(\E n \in Node : Stop(n))
    BY DEF Stop
  <1> QED
    BY <1>1, <1>2, <1>3, <1>4, <1>5, <1>6 DEF Next, Redis

\* No node hears of its own announcements from the others.
LEMMA StepOwn ==
    ASSUME TypeOK, AtHome, alive = Node, alive' = Node, [Next]_vars,
           NEW u \in User, NEW h \in Node, Home(u, h), NoneIn(inbox[h], News(u))
    PROVE  NoneIn(inbox[h], News(u))'
  <1>1. ASSUME NEW n \in Node, ExecPublish(n) PROVE NoneIn(inbox[h], News(u))'
    <2>1. Evt(h)' = IF h = n THEN Evt(h)
                    ELSE Evt(h) \cup {[user |-> HeadUser(n), online |-> HeadIs(n, "sayOnline")]}
      BY <1>1, PublishSets
    <2>2. cmdq[n] # <<>>
      BY <1>1 DEF ExecPublish, HeadIs
    <2>3. n # h => HeadUser(n) # u
      BY <2>2, HeadHome, HeadType DEF Home, SocketsOf, HeadUser
    <2> QED
      BY <2>1, <2>3 DEF NoneIn, News, Evt
  <1>2. ASSUME NEW n \in Node, Receive(n) PROVE NoneIn(inbox[h], News(u))'
    <2>1. Evt(h)' \subseteq Evt(h)
      BY <1>2, ReceiveSets
    <2> QED
      BY <2>1 DEF NoneIn, News, Evt
  <1>3. CASE UNCHANGED inbox
    BY <1>3 DEF NoneIn, News
  <1>4. UNCHANGED inbox \/ \E n \in Node : ExecPublish(n) \/ Receive(n)
    BY DEF Next, Connect, Disconnect, Redis, ExecIncr, ExecDecr, ExecDel, ExecOffline, EventLoop,
           OnIncrReply, OnDecrReply, OnDelReply, OnOfflineReply, Stop, vars
  <1> QED
    BY <1>1, <1>2, <1>3, <1>4

\* Nobody has just left but by the DECR of the last socket.
LEMMA AwayKept ==
    ASSUME NEW u \in User, NEW h \in Node, Away(u, h)', CountedOf(u)' = CountedOf(u),
           \A s \in SocketsOf(u) : phase'[s] = phase[s],
           \A s \in SocketsOf(u) : Incr(s) \in Cmd(h) => Incr(s) \in Cmd(h)'
    PROVE  Away(u, h)
  BY DEF Away, SocketsOf, Cmd, Incr

LEMMA AwayBefore ==
    ASSUME TypeOK, QueueInv, AtHome, alive = Node, alive' = Node, [Next]_vars,
           NEW u \in User, NEW h \in Node, Home(u, h), Away(u, h)'
    PROVE  Away(u, h) \/ \E n \in Node : ExecDecr(n) /\ HeadUser(n) = u
  <1>1. ASSUME NEW s \in Socket, Connect(s) \/ Disconnect(s) PROVE Away(u, h)
    <2>1. PICK n \in Node, op \in Ops : n = home[s] /\ Issue(n, op, s) /\ (Connect(s) => op = "incr")
      BY <1>1 DEF Connect, Disconnect, TypeOK, Ops
    <2>2. /\ counted' = counted /\ \A t \in Socket \ {s} : phase'[t] = phase[t]
          /\ Connect(s) \/ phase[s] = "open"
      BY <1>1 DEF Connect, Disconnect, TypeOK
    <2>3. \A m \in Node : Cmd(m)' = IF m = n THEN Cmd(m) \cup {[op |-> op, sock |-> s]}
                                             ELSE Cmd(m)
      BY <2>1, IssueSets
    <2>4. UserOf[s] # u
      <3> SUFFICES ASSUME UserOf[s] = u PROVE FALSE
        OBVIOUS
      <3>1. s \in SocketsOf(u) /\ n = h
        BY <2>1 DEF SocketsOf, Home
      <3>2. Incr(s) \notin Cmd(h)' /\ s \notin counted
        BY <2>2, <3>1 DEF Away, SocketsOf, Cmd, CountedOf, Incr
      <3>3. ~Connect(s)
        BY <2>1, <2>3, <3>1, <3>2 DEF Incr
      <3>4. PICK i \in Pos(h) : Is(h, i, "incr", s)
        BY <2>1, <2>2, <3>1, <3>2, <3>3 DEF QueueInv, SocketInv
      <3>5. cmdq[h][i] \in Cmd(h) /\ cmdq[h][i] \in Command
        <4>1. Pos(h) = DOMAIN cmdq[h]
          BY LenProperties DEF Pos, TypeOK
        <4> QED
          BY <3>4, <4>1, Elems
      <3>6. cmdq[h][i] = Incr(s)
        BY <3>4, <3>5 DEF Is, Command, Incr
      <3> QED
        BY <2>3, <3>2, <3>5, <3>6
    <2> QED
      BY <2>2, <2>3, <2>4, AwayKept DEF CountedOf, SocketsOf
  <1>2. ASSUME NEW n \in Node, Redis(n), ~(ExecDecr(n) /\ HeadUser(n) = u)
        PROVE  Away(u, h)
    <2>1. /\ cmdq[n] # <<>> /\ cmdq' = [cmdq EXCEPT ![n] = Tail(@)] /\ phase' = phase
      BY <1>2 DEF Redis, ExecIncr, ExecDecr, ExecDel, ExecOffline, ExecPublish, HeadIs, Answer
    <2>2. HeadSock(n) \in Socket
      BY <2>1, HeadType
    <2>3. ~(ExecIncr(n) /\ HeadUser(n) = u)
      <3>1. ExecIncr(n) /\ HeadUser(n) = u => HeadSock(n) \in CountedOf(u)'
        BY <2>2 DEF ExecIncr, CountedOf, SocketsOf, HeadUser
      <3> QED
        BY <3>1 DEF Away
    <2>4. CountedOf(u)' = CountedOf(u)
      BY <1>2, <2>2, <2>3
      DEF Redis, ExecIncr, ExecDecr, ExecDel, ExecOffline, ExecPublish, CountedOf, SocketsOf, HeadUser
    <2>5. /\ \A m \in Node : m # n => Cmd(m)' = Cmd(m)
          /\ Cmd(n) = Cmd(n)' \cup {Head(cmdq[n])}
      BY <2>1, TakeSets
    <2>6. \A s \in SocketsOf(u) : Incr(s) # Head(cmdq[n])
      <3> SUFFICES ASSUME NEW s \in SocketsOf(u), Incr(s) = Head(cmdq[n]) PROVE FALSE
        OBVIOUS
      <3>1. Head(cmdq[n]).op = "incr" /\ HeadUser(n) = u
        BY DEF Incr, HeadUser, HeadSock, SocketsOf
      <3> QED
        BY <1>2, <2>3, <3>1 DEF Redis, ExecDecr, ExecDel, ExecOffline, ExecPublish, HeadIs
    <2> QED
      BY <2>1, <2>4, <2>5, <2>6, AwayKept
  <1>3. ASSUME NEW n \in Node, EventLoop(n) PROVE Away(u, h)
    <2>1. /\ replyq[n] # <<>> /\ Resume(n) /\ UNCHANGED <<phase, counted>>
          /\ UNCHANGED cmdq \/ \E op \in Ops : Issue(n, op, Head(replyq[n]).sock)
      BY <1>3 DEF EventLoop, OnIncrReply, OnDecrReply, OnDelReply, OnOfflineReply, ReplyIs, Ops
    <2>2. Head(replyq[n]).sock \in Socket
      BY <2>1, ReplyType
    <2>3. Cmd(h) \subseteq Cmd(h)'
      <3>1. CASE UNCHANGED cmdq
        BY <3>1 DEF Cmd
      <3> QED
        BY <2>1, <2>2, <3>1, IssueSets
    <2> QED
      BY <2>1, <2>3, AwayKept DEF CountedOf, SocketsOf
  <1>4. CASE UNCHANGED vars \/ \E n \in Node : Receive(n)
    BY <1>4, AwayKept DEF Receive, vars, CountedOf, SocketsOf, Cmd
  <1>5. ~(\E n \in Node : Stop(n))
    BY DEF Stop
  <1> QED
    BY <1>1, <1>2, <1>3, <1>4, <1>5 DEF Next

LEMMA LeaveStep == IInv /\ CountBound' /\ LeaveInv /\ [Next]_vars => LeaveInv'
  <1> SUFFICES ASSUME IInv, CountBound', LeaveInv, [Next]_vars, alive' = Node
               PROVE  AtHome' /\ LastWord'
    BY DEF LeaveInv
  <1>1. TypeOK /\ QueueInv
    BY DEF IInv
  <1>2. alive = Node /\ home' = home
    <2>1. alive \subseteq Node
      BY <1>1 DEF TypeOK
    <2> QED
      BY <2>1 DEF Next, Connect, Disconnect, Redis, ExecIncr, ExecDecr, ExecDel, ExecOffline,
                  ExecPublish, EventLoop, OnIncrReply, OnDecrReply, OnDelReply, OnOfflineReply,
                  Receive, Stop, vars
  <1>3. AtHome /\ LastWord
    BY <1>2 DEF LeaveInv
  <1>4. AtHome'
    BY <1>1, <1>2, <1>3, StepHome
  <1>5. ASSUME NEW u \in User, NEW h \in Node, Home(u, h)'
        PROVE  /\ NoneIn(inbox[h], News(u))'
               /\ Away(u, h)' => Follows(u, h)'
    <2>1. Home(u, h)
      BY <1>2, <1>5 DEF Home, SocketsOf
    <2>2. NoneIn(inbox[h], News(u))
      BY <1>3, <2>1 DEF LastWord
    <2>3. NoneIn(inbox[h], News(u))'
      BY <1>1, <1>2, <1>3, <2>1, <2>2, StepOwn
    <2>4. ASSUME NEW n \in Node, ExecDecr(n), HeadUser(n) = u, Away(u, h)'
          PROVE  Follows(u, h)'
      <3>1. CountedOf(u)' = {}
        BY <2>4 DEF Away
      <3> QED
        BY <1>1, <1>2, <1>3, <2>1, <2>4, <3>1, LeaveWord
    <2>5. ASSUME Away(u, h), ~(\E n \in Node : ExecDecr(n) /\ HeadUser(n) = u), Away(u, h)'
          PROVE  Follows(u, h)'
      <3>1. Left(u, h)
        BY <1>2, <1>3, <2>1, <2>2, <2>5 DEF Left, LastWord
      <3>2. ASSUME NEW n \in Node, ExecIncr(n), HeadUser(n) = u PROVE FALSE
        <4>1. cmdq[n] # <<>>
          BY <3>2 DEF ExecIncr, HeadIs
        <4>2. HeadSock(n) \in CountedOf(u)'
          BY <1>1, <3>2, <4>1, HeadType DEF ExecIncr, CountedOf, SocketsOf, HeadUser
        <4> QED
          BY <2>5, <4>2 DEF Away
      <3>3. ASSUME NEW n \in Node, Redis(n) PROVE Follows(u, h)'
        BY <1>1, <1>3, <2>5, <3>1, <3>2, <3>3, AskWord, ActWord, PublishWord DEF Redis
      <3>4. ASSUME NEW n \in Node, EventLoop(n) \/ Receive(n) PROVE Follows(u, h)'
        BY <1>1, <1>3, <3>1, <3>4, AskReplyWord, ActReplyWord, HearWord DEF EventLoop
      <3>5. ASSUME NEW s \in Socket, Connect(s) \/ Disconnect(s) PROVE Follows(u, h)'
        BY <1>1, <3>1, <3>5, PlugWord
      <3>6. CASE UNCHANGED vars
        BY <3>1, <3>6 DEF vars, Left, Follows, Decided, Stored, Said, Heard
      <3>7. ~(\E n \in Node : Stop(n))
        BY <1>2 DEF Stop
      <3> QED
        BY <3>3, <3>4, <3>5, <3>6, <3>7 DEF Next
    <2>6. Away(u, h)' => Away(u, h) \/ \E n \in Node : ExecDecr(n) /\ HeadUser(n) = u
      BY <1>1, <1>2, <1>3, <2>1, AwayBefore
    <2> QED
      BY <2>3, <2>4, <2>5, <2>6
  <1> QED
    BY <1>4, <1>5 DEF LastWord

LEMMA LeaveInit == Init => LeaveInv
  <1> SUFFICES ASSUME Init PROVE AtHome /\ LastWord
    BY DEF LeaveInv
  <1>1. \A n \in Node : Cmd(n) = {} /\ Rep(n) = {} /\ Evt(n) = {}
    BY SetEmpty DEF Init, Cmd, Rep, Evt
  <1>2. AtHome
    BY <1>1 DEF AtHome, Cmd, Rep
  <1>3. \A u \in User, h \in Node : NoneIn(inbox[h], News(u)) /\ ~Away(u, h)
    BY <1>1 DEF NoneIn, Evt, Away, SocketsOf, Init
  <1> QED
    BY <1>2, <1>3 DEF LastWord

LEMMA Leave == Spec => [](IInv /\ NegativeIsTransient /\ LeaveInv)
  <1>1. IInv => CountBound
    BY DEF IInv
  <1> QED
    BY <1>1, Inductive, NegativeIsCleaned, LeaveInit, LeaveStep, PTL DEF Spec

LEMMA QuietCounts ==
    ASSUME IInv, NegativeIsTransient, alive = Node, Quiet, NEW u \in User, Gone(u)
    PROVE  CountedOf(u) = {} /\ counts[u] = 0
  <1> USE DEF IInv
  <1>1. \A n \in Node : cmdq[n] = <<>> /\ replyq[n] = <<>> /\ Pos(n) = {}
    BY EmptySeq DEF Quiet, Pos
  <1>2. ASSUME NEW s \in CountedOf(u) PROVE FALSE
    <2>1. s \in Socket /\ s \in counted /\ phase[s] # "open" /\ home[s] \in Node
      BY DEF CountedOf, SocketsOf, Gone, TypeOK
    <2>2. phase[s] = "closed"
      BY <2>1 DEF QueueInv, SocketInv, TypeOK
    <2> QED
      BY <1>1, <2>1, <2>2 DEF QueueInv, SocketInv
  <1>3. counts[u] \in Int /\ counts[u] <= 0
    BY <1>2, FS_EmptySet DEF CountBound, CountedOf, TypeOK
  <1>4. ~(counts[u] < 0)
    <2>1. \A n \in Node : DOMAIN cmdq[n] = {} /\ DOMAIN replyq[n] = {}
      BY <1>1
    <2> QED
      BY <2>1 DEF NegativeIsTransient, Queued
  <1> QED
    BY <1>2, <1>3, <1>4

LEMMA LeaveSeen == IInv /\ NegativeIsTransient /\ LeaveInv => LeavingIsSeen
  <1> SUFFICES ASSUME IInv, NegativeIsTransient, LeaveInv, NEW u \in User,
                      Quiet, Gone(u), OneHome(u), alive = Node,
                      NEW t \in SocketsOf(u), phase[t] = "closed"
               PROVE  /\ counts[u] = 0
                      /\ u \in lastSeen
                      /\ \A n \in Node : view[n][u] = "offline"
    BY DEF LeavingIsSeen
  <1>1. PICK h \in Node : h = home[t]
    BY DEF IInv, TypeOK, SocketsOf
  <1>2. Home(u, h)
    BY <1>1 DEF OneHome, Home
  <1>3. \A n \in Node : Cmd(n) = {} /\ Rep(n) = {} /\ Evt(n) = {}
    BY SetEmpty DEF Quiet, Cmd, Rep, Evt
  <1>4. CountedOf(u) = {} /\ counts[u] = 0
    BY QuietCounts
  <1>5. Away(u, h)
    BY <1>3, <1>4 DEF Away, Cmd
  <1>6. Follows(u, h)
    BY <1>2, <1>5 DEF LeaveInv, LastWord
  <1>7. \A n \in Node : \A T : NoneIn(cmdq[n], T) /\ NoneIn(replyq[n], T) /\ NoneIn(inbox[n], T)
    BY <1>3 DEF NoneIn, Cmd, Rep, Evt
  <1> QED
    BY <1>4, <1>6, <1>7 DEF Follows, Decided, Stored, Said, Heard

\* However the tabs of a user come and go on one node, and however late each
\* answer of Redis is handled: once nothing is under way and no tab is left,
\* the hash entry is gone, lastSeen is recorded, and every listener was last
\* told "offline".
THEOREM LeavingIsSeenAlways == Spec => []LeavingIsSeen
  BY Leave, LeaveSeen, PTL
=============================================================================
