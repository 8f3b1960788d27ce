------------------------ MODULE PresenceClientProofs ------------------------
(* Theorems about PresenceCalm and the tab that watches it, for any nodes,  *)
(* users and sockets, and any number of sessions of the tab.                *)
EXTENDS PresenceClient, PresenceProofs

-----------------------------------------------------------------------------
(* An announcement on its way.  Arrivals and departures take the same       *)
(* steps: ask the counter, act on lastSeen if the answer turns the user     *)
(* online or offline, say so.                                               *)

Way == {"online", "offline"}
Asks(w) == IF w = "online" THEN "incr" ELSE "decr"
Acts(w) == IF w = "online" THEN "del" ELSE "offline"
Says(w) == IF w = "online" THEN "sayOnline" ELSE "sayOffline"
Turns(w, k) == IF w = "online" THEN k = 1 ELSE k <= 0
Notice(w, u) == [user |-> u, online |-> w = "online"]

\* The step is decided and lastSeen is still to be changed.
Started(w, u) ==
    \E n \in Node :
        \/ \E r \in Rep(n) : r.op = Asks(w) /\ UserOf[r.sock] = u /\ Turns(w, r.count)
        \/ \E c \in Cmd(n) : c.op = Acts(w) /\ UserOf[c.sock] = u
Acted(w, u) == \E n \in Node : \E r \in Rep(n) : r.op = Acts(w) /\ UserOf[r.sock] = u
SaidBy(w, n, u) == \E c \in Cmd(n) : c.op = Says(w) /\ UserOf[c.sock] = u
Heard(w, n, u) == Notice(w, u) \in Evt(n)

\* The listeners at n will be told.
Coming(w, n, u) ==
    \/ Started(w, u) \/ Acted(w, u) \/ Heard(w, n, u)
    \/ \E m \in Node \ {n} : SaidBy(w, m, u)

\* Somebody will be told, or has been while others will.
Turning(w, u) ==
    \/ Started(w, u) \/ Acted(w, u)
    \/ \E n \in Node : SaidBy(w, n, u) \/ Heard(w, n, u)

\* Some step of an arrival, or of a departure, is to be taken.
Flying(w, u) ==
    \E n \in Node :
        \/ \E c \in Cmd(n) : c.op \in {Asks(w), Acts(w), Says(w)} /\ UserOf[c.sock] = u
        \/ \E r \in Rep(n) : r.op \in {Asks(w), Acts(w), Says(w)} /\ UserOf[r.sock] = u
        \/ Heard(w, n, u)

-----------------------------------------------------------------------------
(* The invariant.                                                           *)

Been(u) == \E s \in SocketsOf(u) : phase[s] = "closed"
Here(u) == CountedOf(u) # {}

Apart == \A u \in User : ~(Flying("online", u) /\ Flying("offline", u))
LeftBehind == \A u \in User : Flying("offline", u) => Been(u)

\* Whatever is being announced of a user is so.
Consistent == \A w \in Way, u \in User : Turning(w, u) => (w = "online" <=> Here(u))

\* lastSeen is there for who is away, but for the moments before the MULTI or DEL.
Recorded ==
    \A u \in User :
        /\ u \in lastSeen => Been(u)
        /\ ~Here(u) /\ Been(u) => u \in lastSeen \/ Started("offline", u)
        /\ Here(u) /\ u \in lastSeen => Started("online", u)

\* The listeners of each node know, or are about to be told.
Known ==
    \A u \in User, n \in Node :
        /\ Here(u) => view[n][u] = "online" \/ Coming("online", n, u)
        /\ ~Here(u) /\ Been(u) => view[n][u] = "offline" \/ Coming("offline", n, u)
        /\ ~Here(u) /\ view[n][u] = "online" => Coming("offline", n, u)
        /\ view[n][u] = "offline" => Been(u)

\* (action) The listeners of n fall behind the counter only by what is coming to them.
Onward(n, u) ==
    /\ \A v \in Way : Coming(v, n, u) => Coming(v, n, u)'
    /\ ~Here(u) /\ Here(u)' => Coming("online", n, u)'
    /\ Here(u) /\ ~Here(u)' => Been(u)' /\ Coming("offline", n, u)'
    /\ Been(u) => Been(u)'
    /\ ~Been(u) /\ Been(u)' => Here(u)'

\* (action) The same of every node but the one that tells its listeners.
OnwardBut(n) == \A m \in Node \ {n}, u \in User : Onward(m, u)

Truthful == Apart /\ LeftBehind /\ ExactCount /\ Consistent /\ Recorded /\ Known

CalmInv == TypeOK /\ QueueInv /\ alive = Node /\ Truthful

LEMMA FlyingIsInFlight ==
    ASSUME TypeOK, NEW u \in User
    PROVE  (Flying("online", u) <=> Arriving(u)) /\ (Flying("offline", u) <=> Leaving(u))
  <1>1. \A n \in Node :
          /\ Cmd(n) = {cmdq[n][i] : i \in DOMAIN cmdq[n]}
          /\ Rep(n) = {replyq[n][i] : i \in DOMAIN replyq[n]}
          /\ Evt(n) = {inbox[n][i] : i \in DOMAIN inbox[n]}
    BY Elems
  <1>2. ASSUME NEW ops, NEW said
        PROVE  InFlight(u, ops, said) <=>
                 \E n \in Node :
                   \/ \E c \in Cmd(n) : c.op \in ops /\ UserOf[c.sock] = u
                   \/ \E r \in Rep(n) : r.op \in ops /\ UserOf[r.sock] = u
                   \/ [user |-> u, online |-> said] \in Evt(n)
    BY <1>1 DEF InFlight
  <1>3. Flying("online", u) <=> InFlight(u, {"incr", "del", "sayOnline"}, TRUE)
    <2>1. Asks("online") = "incr" /\ Acts("online") = "del" /\ Says("online") = "sayOnline"
      BY DEF Asks, Acts, Says
    <2>2. InFlight(u, {"incr", "del", "sayOnline"}, TRUE) <=>
            \E n \in Node :
              \/ \E c \in Cmd(n) : c.op \in {"incr", "del", "sayOnline"} /\ UserOf[c.sock] = u
              \/ \E r \in Rep(n) : r.op \in {"incr", "del", "sayOnline"} /\ UserOf[r.sock] = u
              \/ [user |-> u, online |-> TRUE] \in Evt(n)
      BY <1>2
    <2>3. Notice("online", u) = [user |-> u, online |-> TRUE]
      BY DEF Notice
    <2> QED
      BY <2>1, <2>2, <2>3 DEF Flying, Heard
  <1>4. Flying("offline", u) <=> InFlight(u, {"decr", "offline", "sayOffline"}, FALSE)
    <2>1. Asks("offline") = "decr" /\ Acts("offline") = "offline" /\ Says("offline") = "sayOffline"
      BY DEF Asks, Acts, Says
    <2>2. InFlight(u, {"decr", "offline", "sayOffline"}, FALSE) <=>
            \E n \in Node :
              \/ \E c \in Cmd(n) : c.op \in {"decr", "offline", "sayOffline"} /\ UserOf[c.sock] = u
              \/ \E r \in Rep(n) : r.op \in {"decr", "offline", "sayOffline"} /\ UserOf[r.sock] = u
              \/ [user |-> u, online |-> FALSE] \in Evt(n)
      BY <1>2
    <2>3. Notice("offline", u) = [user |-> u, online |-> FALSE]
      BY DEF Notice
    <2> QED
      BY <2>1, <2>2, <2>3 DEF Flying, Heard
  <1> QED
    BY <1>3, <1>4 DEF Arriving, Leaving

-----------------------------------------------------------------------------
(* What each step does to the announcements on their way.                   *)

LEMMA OpNames ==
    ASSUME NEW v \in Way, NEW w \in Way
    PROVE  /\ Asks(v) # Acts(w) /\ Asks(v) # Says(w) /\ Acts(v) # Says(w)
           /\ v # w => Asks(v) # Asks(w) /\ Acts(v) # Acts(w) /\ Says(v) # Says(w)
           /\ Asks(w) \in Ops /\ Acts(w) \in Ops /\ Says(w) \in Ops
  BY DEF Way, Asks, Acts, Says, Ops

\* The counter is asked: the answer may decide on an announcement.
LEMMA AskEffect ==
    ASSUME TypeOK, alive = Node, NEW w \in Way, NEW n \in Node, cmdq[n] # <<>>,
           Head(cmdq[n]).op = Asks(w), NEW k \in Int, Answer(n, k), inbox' = inbox,
           NEW v \in Way, NEW u \in User
    PROVE  /\ Started(v, u)' <=> \/ Started(v, u)
                                 \/ v = w /\ u = HeadUser(n) /\ Turns(w, k)
           /\ Acted(v, u)' <=> Acted(v, u)
           /\ \A m \in Node : /\ SaidBy(v, m, u)' <=> SaidBy(v, m, u)
                              /\ Heard(v, m, u)' <=> Heard(v, m, u)
           /\ Flying(v, u)' => Flying(v, u)
           /\ Flying(w, HeadUser(n))
  <1> DEFINE h == Head(cmdq[n])
             r == [op |-> h.op, sock |-> HeadSock(n), count |-> k]
  <1>1. /\ \A m \in Node : m # n => Cmd(m)' = Cmd(m) /\ Rep(m)' = Rep(m)
        /\ Cmd(n) = Cmd(n)' \cup {h} /\ Rep(n)' = Rep(n) \cup {r}
    BY AnswerSets
  <1>2. h.op = Asks(w) /\ r.op = Asks(w) /\ r.count = k /\ r.sock = h.sock
        /\ UserOf[h.sock] = HeadUser(n)
    BY DEF HeadSock, HeadUser
  <1>3. \A m \in Node : Evt(m)' = Evt(m)
    BY DEF Evt
  <1> HIDE DEF h, r
  <1>4. \A m \in Node : \A c \in Cmd(m) : c.op # Asks(w) => c \in Cmd(m)'
    BY <1>1, <1>2
  <1>5. /\ Asks(w) # Acts(v) /\ Asks(w) # Says(v) /\ Acts(v) # Says(v)
        /\ v # w => Asks(v) # Asks(w)
    BY OpNames
  <1>6. Started(v, u)' <=> \/ Started(v, u)
                           \/ v = w /\ u = HeadUser(n) /\ Turns(w, k)
    <2>1. Started(v, u) => Started(v, u)'
      BY <1>1, <1>4, <1>5 DEF Started
    <2>2. v = w /\ u = HeadUser(n) /\ Turns(w, k) => Started(v, u)'
      BY <1>1, <1>2 DEF Started
    <2>3. Started(v, u)' => \/ Started(v, u)
                            \/ v = w /\ u = HeadUser(n) /\ Turns(w, k)
      BY <1>1, <1>2, <1>5 DEF Started
    <2> QED
      BY <2>1, <2>2, <2>3
  <1>7. Acted(v, u)' <=> Acted(v, u)
    BY <1>1, <1>2, <1>5 DEF Acted
  <1>8. \A m \in Node : /\ SaidBy(v, m, u)' <=> SaidBy(v, m, u)
                        /\ Heard(v, m, u)' <=> Heard(v, m, u)
    BY <1>1, <1>3, <1>4, <1>5 DEF SaidBy, Heard
  <1>9. Flying(w, HeadUser(n))
    BY <1>1, <1>2 DEF Flying
  <1>10. Flying(v, u)' => Flying(v, u)
    BY <1>1, <1>2, <1>3 DEF Flying, Heard
  <1> QED
    BY <1>6, <1>7, <1>8, <1>9, <1>10

\* lastSeen is changed.
LEMMA ActEffect ==
    ASSUME TypeOK, alive = Node, NEW w \in Way, NEW n \in Node, cmdq[n] # <<>>,
           Head(cmdq[n]).op = Acts(w), Answer(n, 0), inbox' = inbox,
           NEW v \in Way, NEW u \in User
    PROVE  /\ Started(v, u)' => Started(v, u)
           /\ Started(v, u) => Started(v, u)' \/ (v = w /\ u = HeadUser(n))
           /\ Acted(v, u)' <=> Acted(v, u) \/ (v = w /\ u = HeadUser(n))
           /\ \A m \in Node : /\ SaidBy(v, m, u)' <=> SaidBy(v, m, u)
                              /\ Heard(v, m, u)' <=> Heard(v, m, u)
           /\ Flying(v, u)' => Flying(v, u)
           /\ Started(w, HeadUser(n)) /\ Flying(w, HeadUser(n))
  <1> DEFINE h == Head(cmdq[n])
             r == [op |-> h.op, sock |-> HeadSock(n), count |-> 0]
  <1>1. /\ \A m \in Node : m # n => Cmd(m)' = Cmd(m) /\ Rep(m)' = Rep(m)
        /\ Cmd(n) = Cmd(n)' \cup {h} /\ Rep(n)' = Rep(n) \cup {r}
    BY AnswerSets
  <1>2. h.op = Acts(w) /\ r.op = Acts(w) /\ r.sock = h.sock /\ UserOf[h.sock] = HeadUser(n)
    BY DEF HeadSock, HeadUser
  <1>3. \A m \in Node : Evt(m)' = Evt(m)
    BY DEF Evt
  <1> HIDE DEF h, r
  <1>4. \A m \in Node : \A c \in Cmd(m) : c.op # Acts(w) => c \in Cmd(m)'
    BY <1>1, <1>2
  <1>5. /\ Acts(w) # Asks(v) /\ Acts(w) # Says(v) /\ Acts(v) # Asks(v)
        /\ v # w => Acts(v) # Acts(w)
    BY OpNames
  <1>6. Started(v, u)' => Started(v, u)
    BY <1>1, <1>2, <1>5 DEF Started
  <1>7. Started(v, u) => Started(v, u)' \/ (v = w /\ u = HeadUser(n))
    BY <1>1, <1>2, <1>4, <1>5 DEF Started
  <1>8. Acted(v, u)' <=> Acted(v, u) \/ (v = w /\ u = HeadUser(n))
    BY <1>1, <1>2, <1>5 DEF Acted
  <1>9. \A m \in Node : /\ SaidBy(v, m, u)' <=> SaidBy(v, m, u)
                        /\ Heard(v, m, u)' <=> Heard(v, m, u)
    BY <1>1, <1>3, <1>4, <1>5 DEF SaidBy, Heard
  <1>10. Started(w, HeadUser(n)) /\ Flying(w, HeadUser(n))
    BY <1>1, <1>2 DEF Started, Flying
  <1>11. Flying(v, u)' => Flying(v, u)
    BY <1>1, <1>2, <1>3 DEF Flying, Heard
  <1> QED
    BY <1>6, <1>7, <1>8, <1>9, <1>10, <1>11

\* The announcement reaches the other nodes.
LEMMA SayEffect ==
    ASSUME TypeOK, alive = Node, NEW n \in Node, ExecPublish(n), NEW w \in Way,
           Head(cmdq[n]).op = Says(w), NEW v \in Way, NEW u \in User
    PROVE  /\ Started(v, u)' <=> Started(v, u)
           /\ Acted(v, u)' <=> Acted(v, u)
           /\ SaidBy(w, n, HeadUser(n)) /\ Flying(w, HeadUser(n))
           /\ \A m \in Node :
                /\ SaidBy(v, m, u)' => SaidBy(v, m, u)
                /\ SaidBy(v, m, u) => SaidBy(v, m, u)' \/ (m = n /\ v = w /\ u = HeadUser(n))
                /\ Heard(v, m, u)' <=> \/ Heard(v, m, u)
                                       \/ m # n /\ v = w /\ u = HeadUser(n)
           /\ Flying(v, u)' => Flying(v, u)
  <1> DEFINE h == Head(cmdq[n])
             x == HeadUser(n)
  <1>1. /\ \A m \in Node : m # n => Cmd(m)' = Cmd(m)
        /\ Cmd(n) = Cmd(n)' \cup {h} /\ \A m \in Node : Rep(m)' = Rep(m)
    BY TakeSets DEF ExecPublish, HeadIs, Rep
  <1>2. h.op = Says(w) /\ UserOf[h.sock] = x
    BY DEF HeadSock, HeadUser
  <1>3. \A m \in Node : Evt(m)' = IF m = n THEN Evt(m) ELSE Evt(m) \cup {Notice(w, x)}
    <2>1. HeadIs(n, "sayOnline") = (w = "online")
      BY DEF ExecPublish, HeadIs, Says, Way
    <2> QED
      BY <2>1, PublishSets DEF Notice
  <1> HIDE DEF h, x
  <1>4. \A m \in Node : \A c \in Cmd(m) : c.op # Says(w) => c \in Cmd(m)'
    BY <1>1, <1>2
  <1>5. /\ Says(w) # Asks(v) /\ Says(w) # Acts(v)
        /\ v # w => Says(v) # Says(w)
    BY OpNames
  <1>6. Started(v, u)' <=> Started(v, u)
    BY <1>1, <1>2, <1>4, <1>5 DEF Started
  <1>7. Acted(v, u)' <=> Acted(v, u)
    BY <1>1 DEF Acted
  <1>8. \A m \in Node :
          /\ SaidBy(v, m, u)' => SaidBy(v, m, u)
          /\ SaidBy(v, m, u) => SaidBy(v, m, u)' \/ (m = n /\ v = w /\ u = x)
    BY <1>1, <1>2, <1>5 DEF SaidBy
  <1>9. \A m \in Node : Heard(v, m, u)' <=> Heard(v, m, u) \/ (m # n /\ v = w /\ u = x)
    <2>1. Notice(v, u) = Notice(w, x) <=> v = w /\ u = x
      BY DEF Notice, Way
    <2> QED
      BY <1>3, <2>1 DEF Heard
  <1>10. SaidBy(w, n, x) /\ Flying(w, x)
    BY <1>1, <1>2 DEF SaidBy, Flying
  <1>11. Flying(v, u)' => Flying(v, u)
    <2> SUFFICES ASSUME Flying(v, u)'
                 PROVE  Flying(v, u)
      OBVIOUS
    <2>1. CASE v = w /\ u = x
      BY <1>10, <2>1
    <2>2. CASE ~(v = w /\ u = x)
      <3>1. PICK m \in Node :
              \/ \E c \in Cmd(m)' : c.op \in {Asks(v), Acts(v), Says(v)} /\ UserOf[c.sock] = u
              \/ \E r \in Rep(m)' : r.op \in {Asks(v), Acts(v), Says(v)} /\ UserOf[r.sock] = u
              \/ Heard(v, m, u)'
        BY DEF Flying
      <3> QED
        BY <1>1, <1>9, <2>2, <3>1 DEF Flying
    <2> QED
      BY <2>1, <2>2
  <1> QED
    BY <1>6, <1>7, <1>8, <1>9, <1>10, <1>11 DEF x

\* A handler resumes with the count.
LEMMA AskReplyEffect ==
    ASSUME TypeOK, NEW w \in Way, NEW n \in Node, replyq[n] # <<>>,
           Head(replyq[n]).op = Asks(w), Resume(n), inbox' = inbox,
           IF Turns(w, Head(replyq[n]).count)
           THEN Issue(n, Acts(w), Head(replyq[n]).sock) ELSE UNCHANGED cmdq,
           NEW v \in Way, NEW u \in User
    PROVE  /\ Started(v, u)' <=> Started(v, u)
           /\ Acted(v, u)' <=> Acted(v, u)
           /\ \A m \in Node : /\ SaidBy(v, m, u)' <=> SaidBy(v, m, u)
                              /\ Heard(v, m, u)' <=> Heard(v, m, u)
           /\ Flying(v, u)' => Flying(v, u)
  <1> DEFINE h == Head(replyq[n])
             turns == Turns(w, h.count)
             c == [op |-> Acts(w), sock |-> h.sock]
  <1>1. h \in Reply /\ h.sock \in Socket
    BY QueueTail, ReplyType DEF TypeOK
  <1>2. /\ \A m \in Node : m # n => Rep(m)' = Rep(m) /\ Cmd(m)' = Cmd(m)
        /\ Rep(n) = Rep(n)' \cup {h}
        /\ turns => Cmd(n)' = Cmd(n) \cup {c}
        /\ ~turns => Cmd(n)' = Cmd(n)
        /\ \A m \in Node : Evt(m)' = Evt(m)
    <2>1. turns => \A m \in Node : Cmd(m)' = IF m = n THEN Cmd(m) \cup {c} ELSE Cmd(m)
      BY <1>1, IssueSets, OpNames
    <2>2. ~turns => \A m \in Node : Cmd(m)' = Cmd(m)
      BY DEF Cmd
    <2>3. \A m \in Node : Evt(m)' = Evt(m)
      BY DEF Evt
    <2> QED
      BY <2>1, <2>2, <2>3, ResumeSets
  <1>3. /\ h.op = Asks(w) /\ c.op = Acts(w) /\ c.sock = h.sock
        /\ turns <=> Turns(w, h.count)
    OBVIOUS
  <1> HIDE DEF h, turns, c
  <1>4. /\ Asks(w) # Acts(v) /\ Asks(w) # Says(v) /\ Acts(w) # Says(v) /\ Acts(w) # Asks(v)
        /\ v # w => Asks(v) # Asks(w) /\ Acts(v) # Acts(w)
    BY OpNames
  <1>5. Started(v, u)' <=> Started(v, u)
    <2>1. ASSUME Started(v, u)'
          PROVE  Started(v, u)
      <3>1. PICK m \in Node :
              \/ \E r \in Rep(m)' : r.op = Asks(v) /\ UserOf[r.sock] = u /\ Turns(v, r.count)
              \/ \E d \in Cmd(m)' : d.op = Acts(v) /\ UserOf[d.sock] = u
        BY <2>1 DEF Started
      <3>2. CASE turns /\ m = n /\ v = w /\ u = UserOf[h.sock]
        BY <1>2, <1>3, <3>2 DEF Started
      <3>3. CASE ~(turns /\ m = n /\ v = w /\ u = UserOf[h.sock])
        BY <1>2, <1>3, <1>4, <3>1, <3>3 DEF Started
      <3> QED
        BY <3>2, <3>3
    <2>2. ASSUME Started(v, u)
          PROVE  Started(v, u)'
      <3>1. PICK m \in Node :
              \/ \E r \in Rep(m) : r.op = Asks(v) /\ UserOf[r.sock] = u /\ Turns(v, r.count)
              \/ \E d \in Cmd(m) : d.op = Acts(v) /\ UserOf[d.sock] = u
        BY <2>2 DEF Started
      <3>2. CASE turns /\ m = n /\ v = w /\ u = UserOf[h.sock]
        BY <1>2, <1>3, <3>2 DEF Started
      <3>3. CASE ~(turns /\ m = n /\ v = w /\ u = UserOf[h.sock])
        BY <1>2, <1>3, <1>4, <3>1, <3>3 DEF Started
      <3> QED
        BY <3>2, <3>3
    <2> QED
      BY <2>1, <2>2
  <1>6. Acted(v, u)' <=> Acted(v, u)
    BY <1>2, <1>3, <1>4 DEF Acted
  <1>7. \A m \in Node : /\ SaidBy(v, m, u)' <=> SaidBy(v, m, u)
                        /\ Heard(v, m, u)' <=> Heard(v, m, u)
    BY <1>2, <1>3, <1>4 DEF SaidBy, Heard
  <1>8. Flying(v, u)' => Flying(v, u)
    <2>1. CASE v = w /\ u = UserOf[h.sock]
      BY <1>2, <1>3, <2>1 DEF Flying
    <2>2. CASE ~(v = w /\ u = UserOf[h.sock])
      BY <1>2, <1>3, <1>4, <2>2 DEF Flying, Heard
    <2> QED
      BY <2>1, <2>2
  <1> QED
    BY <1>5, <1>6, <1>7, <1>8

\* A handler announces to its own node, and to the adapter.
LEMMA ActReplyEffect ==
    ASSUME TypeOK, NEW w \in Way, NEW n \in Node, replyq[n] # <<>>,
           Head(replyq[n]).op = Acts(w), Resume(n), inbox' = inbox,
           Issue(n, Says(w), Head(replyq[n]).sock), NEW x, x = UserOf[Head(replyq[n]).sock],
           NEW v \in Way, NEW u \in User
    PROVE  /\ Started(v, u)' <=> Started(v, u)
           /\ Acted(v, u)' => Acted(v, u)
           /\ Acted(v, u) => Acted(v, u)' \/ (v = w /\ u = x)
           /\ Acted(w, x) /\ Flying(w, x)
           /\ \A m \in Node :
                /\ SaidBy(v, m, u)' <=> SaidBy(v, m, u) \/ (m = n /\ v = w /\ u = x)
                /\ Heard(v, m, u)' <=> Heard(v, m, u)
           /\ Flying(v, u)' => Flying(v, u)
  <1> DEFINE h == Head(replyq[n])
             c == [op |-> Says(w), sock |-> h.sock]
  <1>1. h.sock \in Socket
    BY ReplyType
  <1>2. /\ \A m \in Node : m # n => Rep(m)' = Rep(m) /\ Cmd(m)' = Cmd(m)
        /\ Rep(n) = Rep(n)' \cup {h}
        /\ Cmd(n)' = Cmd(n) \cup {c}
        /\ \A m \in Node : Evt(m)' = Evt(m)
    <2>1. \A m \in Node : Cmd(m)' = IF m = n THEN Cmd(m) \cup {c} ELSE Cmd(m)
      BY <1>1, IssueSets, OpNames
    <2>2. \A m \in Node : Evt(m)' = Evt(m)
      BY DEF Evt
    <2> QED
      BY <2>1, <2>2, ResumeSets
  <1>3. h.op = Acts(w) /\ c.op = Says(w) /\ c.sock = h.sock /\ x = UserOf[h.sock]
    OBVIOUS
  <1> HIDE DEF h, c
  <1>4. /\ Acts(w) # Asks(v) /\ Says(w) # Acts(v) /\ Says(w) # Asks(v) /\ Acts(w) # Says(v)
        /\ v # w => Acts(v) # Acts(w) /\ Says(v) # Says(w)
    BY OpNames
  <1>5. Started(v, u)' <=> Started(v, u)
    BY <1>2, <1>3, <1>4 DEF Started
  <1>6. Acted(v, u)' => Acted(v, u)
    BY <1>2 DEF Acted
  <1>7. Acted(v, u) => Acted(v, u)' \/ (v = w /\ u = x)
    BY <1>2, <1>3, <1>4 DEF Acted
  <1>8. Acted(w, x) /\ Flying(w, x)
    BY <1>2, <1>3 DEF Acted, Flying
  <1>9. \A m \in Node :
          /\ SaidBy(v, m, u)' <=> SaidBy(v, m, u) \/ (m = n /\ v = w /\ u = x)
          /\ Heard(v, m, u)' <=> Heard(v, m, u)
    BY <1>2, <1>3, <1>4 DEF SaidBy, Heard
  <1>10. Flying(v, u)' => Flying(v, u)
    <2>1. CASE v = w /\ u = x
      BY <1>8, <2>1
    <2>2. CASE ~(v = w /\ u = x)
      BY <1>2, <1>3, <1>4, <2>2 DEF Flying, Heard
    <2> QED
      BY <2>1, <2>2
  <1> QED
    BY <1>5, <1>6, <1>7, <1>8, <1>9, <1>10

\* The adapter hands an announcement to the listeners of a node.
LEMMA HearEffect ==
    ASSUME TypeOK, NEW n \in Node, Receive(n), NEW w \in Way, NEW x \in User,
           Head(inbox[n]) = Notice(w, x), NEW v \in Way, NEW u \in User
    PROVE  /\ Started(v, u)' <=> Started(v, u)
           /\ Acted(v, u)' <=> Acted(v, u)
           /\ Heard(w, n, x) /\ Flying(w, x)
           /\ \A m \in Node :
                /\ SaidBy(v, m, u)' <=> SaidBy(v, m, u)
                /\ Heard(v, m, u)' => Heard(v, m, u)
                /\ Heard(v, m, u) => Heard(v, m, u)' \/ (m = n /\ v = w /\ u = x)
           /\ Flying(v, u)' => Flying(v, u)
  <1>1. /\ \A m \in Node : m # n => Evt(m)' = Evt(m)
        /\ Evt(n) = Evt(n)' \cup {Notice(w, x)}
    BY ReceiveSets
  <1>2. \A m \in Node : Cmd(m)' = Cmd(m) /\ Rep(m)' = Rep(m)
    BY DEF Receive, Cmd, Rep
  <1>3. Notice(v, u) = Notice(w, x) => v = w /\ u = x
    BY DEF Notice, Way
  <1>4. \A m \in Node : /\ Heard(v, m, u)' => Heard(v, m, u)
                        /\ Heard(v, m, u) => Heard(v, m, u)' \/ (m = n /\ v = w /\ u = x)
    BY <1>1, <1>3 DEF Heard
  <1>5. Heard(w, n, x)
    BY <1>1 DEF Heard
  <1> QED
    BY <1>2, <1>4, <1>5 DEF Started, Acted, SaidBy, Flying

\* A socket connects or disconnects.
LEMMA PlugEffect ==
    ASSUME TypeOK, NEW w \in Way, NEW s \in Socket, Issue(home[s], Asks(w), s),
           UNCHANGED <<replyq, inbox>>, NEW v \in Way, NEW u \in User
    PROVE  /\ Started(v, u)' <=> Started(v, u)
           /\ Acted(v, u)' <=> Acted(v, u)
           /\ \A m \in Node : /\ SaidBy(v, m, u)' <=> SaidBy(v, m, u)
                              /\ Heard(v, m, u)' <=> Heard(v, m, u)
           /\ Flying(v, u)' => Flying(v, u) \/ (v = w /\ u = UserOf[s])
  <1> DEFINE c == [op |-> Asks(w), sock |-> s]
  <1>1. PICK n \in Node : n = home[s]
    BY DEF TypeOK
  <1>2. \A m \in Node : Cmd(m)' = IF m = n THEN Cmd(m) \cup {c} ELSE Cmd(m)
    BY <1>1, IssueSets, OpNames
  <1>3. \A m \in Node : Rep(m)' = Rep(m) /\ Evt(m)' = Evt(m)
    BY DEF Rep, Evt
  <1>4. c.op = Asks(w) /\ c.sock = s
    OBVIOUS
  <1> HIDE DEF c
  <1>5. /\ Asks(w) # Acts(v) /\ Asks(w) # Says(v)
        /\ v # w => Asks(v) # Asks(w)
    BY OpNames
  <1>6. Started(v, u)' <=> Started(v, u)
    BY <1>2, <1>3, <1>4, <1>5 DEF Started
  <1>7. Acted(v, u)' <=> Acted(v, u)
    BY <1>3 DEF Acted
  <1>8. \A m \in Node : /\ SaidBy(v, m, u)' <=> SaidBy(v, m, u)
                        /\ Heard(v, m, u)' <=> Heard(v, m, u)
    BY <1>2, <1>3, <1>4, <1>5 DEF SaidBy, Heard
  <1>9. Flying(v, u)' => Flying(v, u) \/ (v = w /\ u = UserOf[s])
    BY <1>2, <1>3, <1>4, <1>5 DEF Flying, Heard
  <1> QED
    BY <1>6, <1>7, <1>8, <1>9

-----------------------------------------------------------------------------
(* The invariant is kept.                                                   *)

LEMMA TurningFlies ==
    ASSUME NEW w \in Way, NEW u \in User, Turning(w, u)
    PROVE  Flying(w, u)
  BY DEF Turning, Coming, Started, Acted, SaidBy, Flying

LEMMA HereCounts ==
    ASSUME TypeOK, ExactCount, NEW u \in User
    PROVE  counts[u] \in Nat /\ (Here(u) <=> counts[u] > 0)
  <1>1. counts[u] = Cardinality(CountedOf(u))
    BY DEF ExactCount, CountedOf
  <1>2. IsFiniteSet(CountedOf(u)) /\ Cardinality(CountedOf(u)) \in Nat
    BY CountedFinite
  <1>3. Cardinality(CountedOf(u)) = 0 <=> CountedOf(u) = {}
    BY <1>2, FS_EmptySet
  <1> QED
    BY <1>1, <1>2, <1>3 DEF Here

\* Nothing new begins, and the sockets stay as they are.
LEMMA FlowKeeps ==
    ASSUME Apart, LeftBehind, phase' = phase,
           \A v \in Way, u \in User : Flying(v, u)' => Flying(v, u)
    PROVE  Apart' /\ LeftBehind'
  <1>1. "online" \in Way /\ "offline" \in Way
    BY DEF Way
  <1> QED
    BY <1>1 DEF Apart, LeftBehind, Been

LEMMA IncrKeeps ==
    ASSUME CalmInv, NEW n \in Node, ExecIncr(n)
    PROVE  Truthful' /\ \A m \in Node, u \in User : Onward(m, u)
  <1> USE DEF CalmInv, Truthful
  <1>0. PICK x \in User, s \in Socket : x = HeadUser(n) /\ s = HeadSock(n)
    BY HeadType DEF ExecIncr, HeadIs
  <1>1. /\ s \notin counted /\ x = UserOf[s]
        /\ cmdq[n] # <<>> /\ Head(cmdq[n]).op = Asks("online") /\ "online" \in Way
    BY <1>0, RedisQueueInv DEF ExecIncr, Redis, HeadIs, HeadUser, Asks, Way
  <1> DEFINE k == counts[x] + 1
  <1>2. /\ counts[x] \in Nat /\ (Here(x) <=> counts[x] > 0)
        /\ Turns("online", k) <=> ~Here(x)
    BY <1>1, HereCounts DEF Turns
  <1>3. k \in Int /\ Answer(n, k) /\ UNCHANGED <<phase, inbox, lastSeen, view>>
    BY <1>0, <1>2 DEF ExecIncr
  <1>4. \A u \in User : Here(u)' <=> Here(u) \/ u = x
    BY <1>0, <1>1 DEF ExecIncr, Here, CountedOf, SocketsOf
  <1>5. ExactCount'
    <2> SUFFICES ASSUME NEW u \in User
                 PROVE  counts'[u] = Cardinality(CountedOf(u)')
      BY DEF ExactCount, CountedOf, SocketsOf
    <2>1. Cardinality(CountedOf(u)') = Cardinality(CountedOf(u)) + (IF u = x THEN 1 ELSE 0)
      BY <1>0, <1>1, CountIn DEF ExecIncr
    <2>2. counts'[u] = IF u = x THEN k ELSE counts[u]
      BY <1>0 DEF ExecIncr, TypeOK
    <2>3. counts[u] = Cardinality(CountedOf(u)) /\ counts[u] \in Nat
      BY HereCounts DEF ExactCount, CountedOf
    <2> QED
      BY <2>1, <2>2, <2>3
  <1> HIDE DEF k
  <1>6. ASSUME NEW v \in Way, NEW u \in User
        PROVE  /\ Started(v, u)' <=> Started(v, u) \/ (v = "online" /\ u = x /\ ~Here(x))
               /\ Acted(v, u)' <=> Acted(v, u)
               /\ \A m \in Node : /\ SaidBy(v, m, u)' <=> SaidBy(v, m, u)
                                  /\ Heard(v, m, u)' <=> Heard(v, m, u)
               /\ Flying(v, u)' => Flying(v, u)
               /\ Flying("online", x)
    BY <1>0, <1>1, <1>2, <1>3, AskEffect
  <1>7. "online" \in Way /\ "offline" \in Way /\ \A v \in Way : v = "online" \/ v = "offline"
    BY DEF Way
  <1>8. ~Turning("offline", x)'
    <2>1. ~Turning("offline", x)
      BY <1>6, <1>7, TurningFlies DEF Apart
    <2>2. Turning("offline", x)' => Turning("offline", x)
      BY <1>6, <1>7 DEF Turning
    <2> QED
      BY <2>1, <2>2
  <1>9. Apart' /\ LeftBehind'
    BY <1>3, <1>6, FlowKeeps
  <1>10. Consistent'
    <2> SUFFICES ASSUME NEW v \in Way, NEW u \in User, Turning(v, u)'
                 PROVE  v = "online" <=> Here(u)'
      BY DEF Consistent
    <2>1. CASE u = x
      BY <1>4, <1>7, <1>8, <2>1
    <2>2. CASE u # x
      <3>1. Turning(v, u)
        BY <1>6, <2>2 DEF Turning
      <3> QED
        BY <1>4, <2>2, <3>1 DEF Consistent
    <2> QED
      BY <2>1, <2>2
  <1>11. Recorded'
    <2> SUFFICES ASSUME NEW u \in User
                 PROVE  /\ u \in lastSeen => Been(u)'
                        /\ ~Here(u)' /\ Been(u)' => u \in lastSeen \/ Started("offline", u)'
                        /\ Here(u)' /\ u \in lastSeen => Started("online", u)'
      BY <1>3 DEF Recorded
    <2>1. Been(u)' <=> Been(u)
      BY <1>3 DEF Been
    <2> QED
      BY <1>4, <1>6, <1>7, <2>1 DEF Recorded
  <1>12. Known'
    <2> SUFFICES ASSUME NEW u \in User, NEW m \in Node
                 PROVE  /\ Here(u)' => view[m][u] = "online" \/ Coming("online", m, u)'
                        /\ ~Here(u)' /\ Been(u)' => view[m][u] = "offline" \/ Coming("offline", m, u)'
                        /\ ~Here(u)' /\ view[m][u] = "online" => Coming("offline", m, u)'
                        /\ view[m][u] = "offline" => Been(u)'
      BY <1>3 DEF Known
    <2>1. Been(u)' <=> Been(u)
      BY <1>3 DEF Been
    <2>2. \A v \in Way : Coming(v, m, u) => Coming(v, m, u)'
      BY <1>6 DEF Coming
    <2>3. u = x /\ ~Here(x) => Coming("online", m, u)'
      BY <1>6, <1>7 DEF Coming
    <2> QED
      BY <1>4, <1>7, <2>1, <2>2, <2>3 DEF Known
  <1>13. ASSUME NEW m \in Node, NEW u \in User PROVE Onward(m, u)
    <2>1. Been(u)' <=> Been(u)
      BY <1>3 DEF Been
    <2>2. \A v \in Way : Coming(v, m, u) => Coming(v, m, u)'
      BY <1>6 DEF Coming
    <2>3. ~Here(u) /\ Here(u)' => Coming("online", m, u)'
      BY <1>4, <1>6, <1>7 DEF Coming
    <2> QED
      BY <1>4, <2>1, <2>2, <2>3 DEF Onward
  <1> QED
    BY <1>5, <1>9, <1>10, <1>11, <1>12, <1>13

LEMMA ComingTurns ==
    ASSUME NEW w \in Way, NEW n \in Node, NEW u \in User, Coming(w, n, u)
    PROVE  Turning(w, u)
  BY DEF Coming, Turning

LEMMA DecrKeeps ==
    ASSUME CalmInv, NEW n \in Node, ExecDecr(n)
    PROVE  Truthful' /\ \A m \in Node, u \in User : Onward(m, u)
  <1> USE DEF CalmInv, Truthful
  <1>0. PICK x \in User, s \in Socket : x = HeadUser(n) /\ s = HeadSock(n)
    BY HeadType DEF ExecDecr, HeadIs
  <1>1. /\ s \in counted /\ x = UserOf[s] /\ Here(x)
        /\ cmdq[n] # <<>> /\ Head(cmdq[n]).op = Asks("offline") /\ "offline" \in Way
    BY <1>0, RedisQueueInv
    DEF ExecDecr, Redis, HeadIs, HeadUser, Asks, Way, Here, CountedOf, SocketsOf
  <1> DEFINE k == counts[x] - 1
  <1>2. counts[x] \in Nat /\ counts[x] > 0 /\ k \in Nat
    BY <1>1, HereCounts
  <1>3. k \in Int /\ Answer(n, k) /\ UNCHANGED <<phase, inbox, lastSeen, view>>
    BY <1>0, <1>2 DEF ExecDecr
  <1>4. ASSUME NEW u \in User
        PROVE  /\ counts'[u] = Cardinality(CountedOf(u)')
               /\ Here(u)' <=> counts'[u] # 0
               /\ u # x => (Here(u)' <=> Here(u))
               /\ counts'[x] = k
    <2>1. Cardinality(CountedOf(u)') = Cardinality(CountedOf(u)) - (IF u = x THEN 1 ELSE 0)
      BY <1>0, <1>1, CountOut DEF ExecDecr
    <2>2. counts'[u] = (IF u = x THEN k ELSE counts[u]) /\ counts'[x] = k
      BY <1>0 DEF ExecDecr, TypeOK
    <2>3. counts[u] = Cardinality(CountedOf(u)) /\ counts[u] \in Nat
      BY HereCounts DEF ExactCount, CountedOf
    <2>4. CountedOf(u)' \subseteq CountedOf(u)
      BY <1>0 DEF ExecDecr, CountedOf, SocketsOf
    <2>5. IsFiniteSet(CountedOf(u)')
      BY <2>4, CountedFinite, FS_Subset
    <2>6. Here(u)' <=> Cardinality(CountedOf(u)') # 0
      BY <2>5, FS_EmptySet DEF Here
    <2>7. Here(u) <=> counts[u] # 0
      BY <2>3, HereCounts
    <2> HIDE DEF k
    <2>8. counts'[u] = Cardinality(CountedOf(u)')
      <3>1. CASE u = x
        BY <2>1, <2>2, <2>3, <3>1 DEF k
      <3>2. CASE u # x
        BY <2>1, <2>2, <2>3, <3>2
      <3> QED
        BY <3>1, <3>2
    <2> QED
      BY <2>2, <2>6, <2>7, <2>8
  <1>5. ExactCount'
    BY <1>4 DEF ExactCount, CountedOf, SocketsOf
  <1>6. Turns("offline", k) <=> ~Here(x)'
    BY <1>2, <1>4 DEF Turns
  <1> HIDE DEF k
  <1>7. ASSUME NEW v \in Way, NEW u \in User
        PROVE  /\ Started(v, u)' <=> Started(v, u) \/ (v = "offline" /\ u = x /\ ~Here(x)')
               /\ Acted(v, u)' <=> Acted(v, u)
               /\ \A m \in Node : /\ SaidBy(v, m, u)' <=> SaidBy(v, m, u)
                                  /\ Heard(v, m, u)' <=> Heard(v, m, u)
               /\ Flying(v, u)' => Flying(v, u)
               /\ Flying("offline", x)
    <2>1. inbox' = inbox /\ alive = Node
      BY <1>3
    <2>2. /\ Started(v, u)' <=> Started(v, u) \/ (v = "offline" /\ u = x /\ Turns("offline", k))
          /\ Acted(v, u)' <=> Acted(v, u)
          /\ \A m \in Node : /\ SaidBy(v, m, u)' <=> SaidBy(v, m, u)
                             /\ Heard(v, m, u)' <=> Heard(v, m, u)
          /\ Flying(v, u)' => Flying(v, u)
          /\ Flying("offline", x)
      BY <1>0, <1>1, <1>3, <2>1, AskEffect
    <2> QED
      BY <1>6, <2>2
  <1>8. "online" \in Way /\ "offline" \in Way /\ \A v \in Way : v = "online" \/ v = "offline"
    BY DEF Way
  <1>9. ~Turning("online", x) /\ ~Turning("offline", x) /\ Been(x)
    BY <1>1, <1>7, <1>8, TurningFlies DEF Apart, LeftBehind, Consistent
  <1>10. Apart' /\ LeftBehind'
    BY <1>3, <1>7, FlowKeeps
  <1>11. Consistent'
    <2> SUFFICES ASSUME NEW v \in Way, NEW u \in User, Turning(v, u)'
                 PROVE  v = "online" <=> Here(u)'
      BY DEF Consistent
    <2>1. CASE u = x
      <3>1. Turning(v, x) \/ (v = "offline" /\ ~Here(x)')
        BY <1>7, <2>1 DEF Turning
      <3> QED
        BY <1>8, <1>9, <2>1, <3>1
    <2>2. CASE u # x
      <3>1. Turning(v, u)
        BY <1>7, <2>2 DEF Turning
      <3> QED
        BY <1>4, <2>2, <3>1 DEF Consistent
    <2> QED
      BY <2>1, <2>2
  <1>12. \A u \in User : Been(u)' <=> Been(u)
    BY <1>3 DEF Been
  <1>13. Recorded'
    <2> SUFFICES ASSUME NEW u \in User
                 PROVE  /\ u \in lastSeen => Been(u)'
                        /\ ~Here(u)' /\ Been(u)' => u \in lastSeen \/ Started("offline", u)'
                        /\ Here(u)' /\ u \in lastSeen => Started("online", u)'
      BY <1>3 DEF Recorded
    <2>1. CASE u = x
      <3>1. x \notin lastSeen
        BY <1>1, <1>9 DEF Recorded, Turning
      <3> QED
        BY <1>7, <1>8, <2>1, <3>1
    <2>2. CASE u # x
      BY <1>4, <1>7, <1>8, <1>12, <2>2 DEF Recorded
    <2> QED
      BY <2>1, <2>2
  <1>14. Known'
    <2> SUFFICES ASSUME NEW u \in User, NEW m \in Node
                 PROVE  /\ Here(u)' => view[m][u] = "online" \/ Coming("online", m, u)'
                        /\ ~Here(u)' /\ Been(u)' => view[m][u] = "offline" \/ Coming("offline", m, u)'
                        /\ ~Here(u)' /\ view[m][u] = "online" => Coming("offline", m, u)'
                        /\ view[m][u] = "offline" => Been(u)'
      BY <1>3 DEF Known
    <2>1. \A v \in Way : Coming(v, m, u) => Coming(v, m, u)'
      BY <1>7 DEF Coming
    <2>2. CASE u = x
      <3>1. view[m][x] = "online"
        BY <1>1, <1>8, <1>9, ComingTurns DEF Known
      <3>2. ~Here(x)' => Coming("offline", m, u)'
        BY <1>7, <1>8, <2>2 DEF Coming
      <3> QED
        BY <2>2, <3>1, <3>2
    <2>3. CASE u # x
      BY <1>4, <1>8, <1>12, <2>1, <2>3 DEF Known
    <2> QED
      BY <2>2, <2>3
  <1>15. ASSUME NEW m \in Node, NEW u \in User PROVE Onward(m, u)
    <2>1. \A v \in Way : Coming(v, m, u) => Coming(v, m, u)'
      BY <1>7 DEF Coming
    <2>2. Here(u) /\ ~Here(u)' => u = x /\ Coming("offline", m, u)'
      BY <1>4, <1>7, <1>8 DEF Coming
    <2>3. ~Here(u) => ~Here(u)'
      BY <1>1, <1>4
    <2> QED
      BY <1>9, <1>12, <2>1, <2>2, <2>3 DEF Onward
  <1> QED
    BY <1>5, <1>10, <1>11, <1>13, <1>14, <1>15

\* The counter stays as it is, and no announcement begins.
LEMMA StillKeeps ==
    ASSUME CalmInv, UNCHANGED <<phase, counts, counted>>,
           \A v \in Way, u \in User : /\ Flying(v, u)' => Flying(v, u)
                                      /\ Turning(v, u)' => Turning(v, u)
    PROVE  /\ Apart' /\ LeftBehind' /\ ExactCount' /\ Consistent'
           /\ \A u \in User : (Here(u)' <=> Here(u)) /\ (Been(u)' <=> Been(u))
  <1> USE DEF CalmInv, Truthful
  <1>1. \A u \in User : (Here(u)' <=> Here(u)) /\ (Been(u)' <=> Been(u))
    BY DEF Here, Been, CountedOf, SocketsOf
  <1>2. ExactCount'
    BY DEF ExactCount, SocketsOf
  <1>3. Consistent'
    BY <1>1 DEF Consistent
  <1> QED
    BY <1>1, <1>2, <1>3, FlowKeeps

LEMMA DelKeeps ==
    ASSUME CalmInv, NEW n \in Node, ExecDel(n)
    PROVE  Truthful' /\ \A m \in Node, u \in User : Onward(m, u)
  <1> USE DEF CalmInv, Truthful
  <1>0. PICK x \in User : x = HeadUser(n)
    BY HeadType DEF ExecDel, HeadIs
  <1>1. /\ cmdq[n] # <<>> /\ Head(cmdq[n]).op = Acts("online")
        /\ Answer(n, 0) /\ UNCHANGED <<phase, inbox, counts, counted, view>>
        /\ lastSeen' = lastSeen \ {x}
    BY <1>0 DEF ExecDel, HeadIs, Acts
  <1>2. "online" \in Way /\ "offline" \in Way /\ \A v \in Way : v = "online" \/ v = "offline"
    BY DEF Way
  <1>3. ASSUME NEW v \in Way, NEW u \in User
        PROVE  /\ Started(v, u)' => Started(v, u)
               /\ Started(v, u) => Started(v, u)' \/ (v = "online" /\ u = x)
               /\ Acted(v, u)' <=> Acted(v, u) \/ (v = "online" /\ u = x)
               /\ \A m \in Node : /\ SaidBy(v, m, u)' <=> SaidBy(v, m, u)
                                  /\ Heard(v, m, u)' <=> Heard(v, m, u)
               /\ Flying(v, u)' => Flying(v, u)
               /\ Started("online", x)
    BY <1>0, <1>1, <1>2, ActEffect
  <1>4. \A v \in Way, u \in User : Turning(v, u)' => Turning(v, u)
    BY <1>3 DEF Turning
  <1>5. /\ Apart' /\ LeftBehind' /\ ExactCount' /\ Consistent'
        /\ \A u \in User : (Here(u)' <=> Here(u)) /\ (Been(u)' <=> Been(u))
    BY <1>1, <1>3, <1>4, StillKeeps
  <1>6. Here(x)
    BY <1>2, <1>3 DEF Consistent, Turning
  <1>7. Recorded'
    BY <1>1, <1>2, <1>3, <1>5, <1>6 DEF Recorded
  <1>8. \A v \in Way, m \in Node, u \in User : Coming(v, m, u) => Coming(v, m, u)'
    BY <1>3 DEF Coming
  <1>9. Known'
    BY <1>1, <1>2, <1>5, <1>8 DEF Known
  <1>10. \A m \in Node, u \in User : Onward(m, u)
    BY <1>5, <1>8 DEF Onward
  <1> QED
    BY <1>5, <1>7, <1>9, <1>10

LEMMA OfflineKeeps ==
    ASSUME CalmInv, NEW n \in Node, ExecOffline(n)
    PROVE  Truthful' /\ \A m \in Node, u \in User : Onward(m, u)
  <1> USE DEF CalmInv, Truthful
  <1>0. PICK x \in User : x = HeadUser(n)
    BY HeadType DEF ExecOffline, HeadIs
  <1>1. /\ cmdq[n] # <<>> /\ Head(cmdq[n]).op = Acts("offline")
        /\ Answer(n, 0) /\ UNCHANGED <<phase, inbox, counted, view>>
        /\ counts' = [counts EXCEPT ![x] = 0] /\ lastSeen' = lastSeen \cup {x}
    BY <1>0 DEF ExecOffline, HeadIs, Acts
  <1>2. "online" \in Way /\ "offline" \in Way /\ \A v \in Way : v = "online" \/ v = "offline"
    BY DEF Way
  <1>3. ASSUME NEW v \in Way, NEW u \in User
        PROVE  /\ Started(v, u)' => Started(v, u)
               /\ Started(v, u) => Started(v, u)' \/ (v = "offline" /\ u = x)
               /\ Acted(v, u)' <=> Acted(v, u) \/ (v = "offline" /\ u = x)
               /\ \A m \in Node : /\ SaidBy(v, m, u)' <=> SaidBy(v, m, u)
                                  /\ Heard(v, m, u)' <=> Heard(v, m, u)
               /\ Flying(v, u)' => Flying(v, u)
               /\ Started("offline", x) /\ Flying("offline", x)
    BY <1>0, <1>1, <1>2, ActEffect
  <1>4. \A v \in Way, u \in User : Turning(v, u)' => Turning(v, u)
    BY <1>3 DEF Turning
  <1>5. ~Here(x) /\ Been(x)
    BY <1>2, <1>3 DEF Consistent, Turning, LeftBehind
  <1>6. counts' = counts
    <2>1. counts[x] = 0
      BY <1>5, HereCounts
    <2> QED
      BY <1>1, <2>1 DEF TypeOK
  <1>7. /\ Apart' /\ LeftBehind' /\ ExactCount' /\ Consistent'
        /\ \A u \in User : (Here(u)' <=> Here(u)) /\ (Been(u)' <=> Been(u))
    BY <1>1, <1>3, <1>4, <1>6, StillKeeps
  <1>8. Recorded'
    BY <1>1, <1>2, <1>3, <1>5, <1>7 DEF Recorded
  <1>9. \A v \in Way, m \in Node, u \in User : Coming(v, m, u) => Coming(v, m, u)'
    BY <1>3 DEF Coming
  <1>10. Known'
    BY <1>1, <1>2, <1>7, <1>9 DEF Known
  <1>11. \A m \in Node, u \in User : Onward(m, u)
    BY <1>7, <1>9 DEF Onward
  <1> QED
    BY <1>7, <1>8, <1>10, <1>11

LEMMA PublishKeeps ==
    ASSUME CalmInv, NEW n \in Node, ExecPublish(n)
    PROVE  Truthful' /\ \A m \in Node, u \in User : Onward(m, u)
  <1> USE DEF CalmInv, Truthful
  <1>0. PICK x \in User, w \in Way : x = HeadUser(n) /\ Head(cmdq[n]).op = Says(w)
    <2>1. /\ HeadUser(n) \in User
          /\ Head(cmdq[n]).op = Says("online") \/ Head(cmdq[n]).op = Says("offline")
      BY HeadType DEF ExecPublish, HeadIs, Says
    <2> QED
      BY <2>1 DEF Way
  <1>1. UNCHANGED <<phase, counts, counted, lastSeen, view>>
    BY DEF ExecPublish
  <1>2. "online" \in Way /\ "offline" \in Way
    BY DEF Way
  <1>3. ASSUME NEW v \in Way, NEW u \in User
        PROVE  /\ Started(v, u)' <=> Started(v, u)
               /\ Acted(v, u)' <=> Acted(v, u)
               /\ SaidBy(w, n, x)
               /\ \A m \in Node :
                    /\ SaidBy(v, m, u)' => SaidBy(v, m, u)
                    /\ SaidBy(v, m, u) => SaidBy(v, m, u)' \/ (m = n /\ v = w /\ u = x)
                    /\ Heard(v, m, u)' <=> Heard(v, m, u) \/ (m # n /\ v = w /\ u = x)
               /\ Flying(v, u)' => Flying(v, u)
    BY <1>0, SayEffect
  <1>4. \A v \in Way, u \in User : Turning(v, u)' => Turning(v, u)
    BY <1>3 DEF Turning
  <1>5. /\ Apart' /\ LeftBehind' /\ ExactCount' /\ Consistent'
        /\ \A u \in User : (Here(u)' <=> Here(u)) /\ (Been(u)' <=> Been(u))
    BY <1>1, <1>3, <1>4, StillKeeps
  <1>6. Recorded'
    BY <1>1, <1>2, <1>3, <1>5 DEF Recorded
  <1>7. ASSUME NEW v \in Way, NEW m \in Node, NEW u \in User, Coming(v, m, u)
        PROVE  Coming(v, m, u)'
    BY <1>3, <1>7 DEF Coming
  <1>8. Known'
    BY <1>1, <1>2, <1>5, <1>7 DEF Known
  <1>9. \A m \in Node, u \in User : Onward(m, u)
    BY <1>5, <1>7 DEF Onward
  <1> QED
    BY <1>5, <1>6, <1>8, <1>9

\* A handler resumes with the count: the ask's answer decides on the act.
LEMMA AskReplyForm ==
    ASSUME NEW n \in Node, OnIncrReply(n) \/ OnDecrReply(n)
    PROVE  \E w \in Way :
             /\ Head(replyq[n]).op = Asks(w)
             /\ IF Turns(w, Head(replyq[n]).count)
                THEN Issue(n, Acts(w), Head(replyq[n]).sock) ELSE UNCHANGED cmdq
  <1>1. CASE OnIncrReply(n)
    <2>1. /\ Head(replyq[n]).op = Asks("online") /\ "online" \in Way
          /\ IF Turns("online", Head(replyq[n]).count)
             THEN Issue(n, Acts("online"), Head(replyq[n]).sock) ELSE UNCHANGED cmdq
      BY <1>1 DEF OnIncrReply, ReplyIs, Asks, Acts, Turns, Way
    <2> QED
      BY <2>1
  <1>2. CASE OnDecrReply(n)
    <2>1. /\ Head(replyq[n]).op = Asks("offline") /\ "offline" \in Way
          /\ IF Turns("offline", Head(replyq[n]).count)
             THEN Issue(n, Acts("offline"), Head(replyq[n]).sock) ELSE UNCHANGED cmdq
      BY <1>2 DEF OnDecrReply, ReplyIs, Asks, Acts, Turns, Way
    <2> QED
      BY <2>1
  <1> QED
    BY <1>1, <1>2

LEMMA AskReplyKeeps ==
    ASSUME CalmInv, NEW n \in Node, OnIncrReply(n) \/ OnDecrReply(n)
    PROVE  Truthful' /\ \A m \in Node, u \in User : Onward(m, u)
  <1> USE DEF CalmInv, Truthful
  <1>0. PICK w \in Way :
          /\ Head(replyq[n]).op = Asks(w)
          /\ IF Turns(w, Head(replyq[n]).count)
             THEN Issue(n, Acts(w), Head(replyq[n]).sock) ELSE UNCHANGED cmdq
    BY AskReplyForm
  <1>1. /\ replyq[n] # <<>> /\ Resume(n)
        /\ UNCHANGED <<phase, inbox, counts, counted, lastSeen, view>>
    BY DEF OnIncrReply, OnDecrReply, ReplyIs
  <1>2. "online" \in Way /\ "offline" \in Way
    BY DEF Way
  <1>3. ASSUME NEW v \in Way, NEW u \in User
        PROVE  /\ Started(v, u)' <=> Started(v, u)
               /\ Acted(v, u)' <=> Acted(v, u)
               /\ \A m \in Node : /\ SaidBy(v, m, u)' <=> SaidBy(v, m, u)
                                  /\ Heard(v, m, u)' <=> Heard(v, m, u)
               /\ Flying(v, u)' => Flying(v, u)
    BY <1>0, <1>1, AskReplyEffect
  <1>4. \A v \in Way, u \in User : Turning(v, u)' => Turning(v, u)
    BY <1>3 DEF Turning
  <1>5. /\ Apart' /\ LeftBehind' /\ ExactCount' /\ Consistent'
        /\ \A u \in User : (Here(u)' <=> Here(u)) /\ (Been(u)' <=> Been(u))
    BY <1>1, <1>3, <1>4, StillKeeps
  <1>6. Recorded'
    BY <1>1, <1>2, <1>3, <1>5 DEF Recorded
  <1>7. \A v \in Way, m \in Node, u \in User : Coming(v, m, u) => Coming(v, m, u)'
    BY <1>3 DEF Coming
  <1>8. Known'
    BY <1>1, <1>2, <1>5, <1>7 DEF Known
  <1>9. \A m \in Node, u \in User : Onward(m, u)
    BY <1>5, <1>7 DEF Onward
  <1> QED
    BY <1>5, <1>6, <1>8, <1>9

\* The listeners of a node are told of x.
LEMMA TellKeeps ==
    ASSUME CalmInv, NEW n \in Node, NEW w \in Way, NEW x \in User,
           UNCHANGED <<phase, counts, counted, lastSeen>>,
           view' = [view EXCEPT ![n][x] = w], Turning(w, x),
           \A v \in Way, u \in User :
             /\ Started(v, u)' <=> Started(v, u)
             /\ Flying(v, u)' => Flying(v, u)
             /\ Turning(v, u)' => Turning(v, u)
             /\ \A m \in Node : Coming(v, m, u) => \/ Coming(v, m, u)'
                                                   \/ v = w /\ u = x /\ m = n
    PROVE  Truthful' /\ OnwardBut(n)
  <1> USE DEF CalmInv, Truthful
  <1>1. "online" \in Way /\ "offline" \in Way /\ (w = "online" \/ w = "offline")
    BY DEF Way
  <1>2. /\ Apart' /\ LeftBehind' /\ ExactCount' /\ Consistent'
        /\ \A u \in User : (Here(u)' <=> Here(u)) /\ (Been(u)' <=> Been(u))
    BY StillKeeps
  <1>3. /\ w = "online" <=> Here(x)
        /\ w = "offline" => Been(x)
    BY TurningFlies DEF Consistent, LeftBehind
  <1>4. Recorded'
    BY <1>1, <1>2 DEF Recorded
  <1>5. \A u \in User, m \in Node :
          view'[m][u] = IF u = x /\ m = n THEN w ELSE view[m][u]
    BY DEF TypeOK
  <1>6. Known'
    <2> SUFFICES ASSUME NEW u \in User, NEW m \in Node
                 PROVE  /\ Here(u)' => view'[m][u] = "online" \/ Coming("online", m, u)'
                        /\ ~Here(u)' /\ Been(u)' => view'[m][u] = "offline" \/ Coming("offline", m, u)'
                        /\ ~Here(u)' /\ view'[m][u] = "online" => Coming("offline", m, u)'
                        /\ view'[m][u] = "offline" => Been(u)'
      BY DEF Known
    <2>1. CASE u = x /\ m = n
      BY <1>1, <1>2, <1>3, <1>5, <2>1
    <2>2. CASE ~(u = x /\ m = n)
      <3>1. /\ Here(u) => view[m][u] = "online" \/ Coming("online", m, u)
            /\ ~Here(u) /\ Been(u) => view[m][u] = "offline" \/ Coming("offline", m, u)
            /\ ~Here(u) /\ view[m][u] = "online" => Coming("offline", m, u)
            /\ view[m][u] = "offline" => Been(u)
        BY DEF Known
      <3>2. \A v \in Way : Coming(v, m, u) => Coming(v, m, u)'
        BY <2>2
      <3> QED
        BY <1>1, <1>2, <1>5, <2>2, <3>1, <3>2
    <2> QED
      BY <2>1, <2>2
  <1>7. OnwardBut(n)
    BY <1>2 DEF Onward, OnwardBut
  <1> QED
    BY <1>2, <1>4, <1>6, <1>7

LEMMA ActReplyForm ==
    ASSUME NEW n \in Node, NEW x, x = UserOf[Head(replyq[n]).sock],
           OnDelReply(n) \/ OnOfflineReply(n)
    PROVE  \E w \in Way : /\ Head(replyq[n]).op = Acts(w)
                         /\ Issue(n, Says(w), Head(replyq[n]).sock)
                         /\ view' = [view EXCEPT ![n][x] = w]
  <1>1. CASE OnDelReply(n)
    <2>1. /\ Head(replyq[n]).op = Acts("online") /\ "online" \in Way
          /\ Issue(n, Says("online"), Head(replyq[n]).sock)
          /\ view' = [view EXCEPT ![n][x] = "online"]
      BY <1>1 DEF OnDelReply, ReplyIs, Acts, Says, Way, Tell
    <2> QED
      BY <2>1
  <1>2. CASE OnOfflineReply(n)
    <2>1. /\ Head(replyq[n]).op = Acts("offline") /\ "offline" \in Way
          /\ Issue(n, Says("offline"), Head(replyq[n]).sock)
          /\ view' = [view EXCEPT ![n][x] = "offline"]
      BY <1>2 DEF OnOfflineReply, ReplyIs, Acts, Says, Way, Tell
    <2> QED
      BY <2>1
  <1> QED
    BY <1>1, <1>2

LEMMA ActReplyKeeps ==
    ASSUME CalmInv, NEW n \in Node, OnDelReply(n) \/ OnOfflineReply(n)
    PROVE  Truthful' /\ OnwardBut(n)
  <1> USE DEF CalmInv, Truthful
  <1>1. /\ replyq[n] # <<>> /\ Resume(n)
        /\ UNCHANGED <<phase, inbox, counts, counted, lastSeen>>
    BY DEF OnDelReply, OnOfflineReply, ReplyIs
  <1>2. PICK x \in User : x = UserOf[Head(replyq[n]).sock]
    BY <1>1, ReplyType
  <1>3. PICK w \in Way : /\ Head(replyq[n]).op = Acts(w)
                         /\ Issue(n, Says(w), Head(replyq[n]).sock)
                         /\ view' = [view EXCEPT ![n][x] = w]
    BY <1>2, ActReplyForm
  <1>4. ASSUME NEW v \in Way, NEW u \in User
        PROVE  /\ Started(v, u)' <=> Started(v, u)
               /\ Acted(v, u)' => Acted(v, u)
               /\ Acted(v, u) => Acted(v, u)' \/ (v = w /\ u = x)
               /\ Acted(w, x)
               /\ \A m \in Node :
                    /\ SaidBy(v, m, u)' <=> SaidBy(v, m, u) \/ (m = n /\ v = w /\ u = x)
                    /\ Heard(v, m, u)' <=> Heard(v, m, u)
               /\ Flying(v, u)' => Flying(v, u)
    BY <1>1, <1>2, <1>3, ActReplyEffect
  <1>5. Turning(w, x)
    BY <1>4 DEF Turning
  <1>6. \A v \in Way, u \in User : Turning(v, u)' => Turning(v, u)
    BY <1>4 DEF Turning
  <1>7. ASSUME NEW v \in Way, NEW u \in User, NEW m \in Node, Coming(v, m, u)
        PROVE  Coming(v, m, u)' \/ (v = w /\ u = x /\ m = n)
    BY <1>4, <1>7 DEF Coming
  <1> QED
    BY <1>1, <1>3, <1>4, <1>5, <1>6, <1>7, TellKeeps

LEMMA HearForm ==
    ASSUME TypeOK, NEW n \in Node, Receive(n)
    PROVE  \E w \in Way, x \in User : /\ Head(inbox[n]) = Notice(w, x)
                                      /\ view' = [view EXCEPT ![n][x] = w]
  <1>1. Head(inbox[n]) \in Event
    BY ReceiveSets
  <1>2. PICK x \in User, b \in BOOLEAN : Head(inbox[n]) = [user |-> x, online |-> b]
    BY <1>1 DEF Event
  <1>3. PICK w \in Way : b = (w = "online")
    BY <1>2 DEF Way
  <1>4. Head(inbox[n]) = Notice(w, x)
    BY <1>2, <1>3 DEF Notice
  <1>5. view' = [view EXCEPT ![n][x] = w]
    <2>1. Head(inbox[n]).user = x /\ Head(inbox[n]).online = (w = "online")
      BY <1>2, <1>3
    <2>2. (IF w = "online" THEN "online" ELSE "offline") = w
      BY DEF Way
    <2> QED
      BY <2>1, <2>2 DEF Receive, Tell
  <1> QED
    BY <1>4, <1>5

LEMMA HearKeeps ==
    ASSUME CalmInv, NEW n \in Node, Receive(n)
    PROVE  Truthful' /\ OnwardBut(n)
  <1> USE DEF CalmInv, Truthful
  <1>1. PICK w \in Way, x \in User : /\ Head(inbox[n]) = Notice(w, x)
                                     /\ view' = [view EXCEPT ![n][x] = w]
    BY HearForm
  <1>2. UNCHANGED <<phase, counts, counted, lastSeen>>
    BY DEF Receive
  <1>3. ASSUME NEW v \in Way, NEW u \in User
        PROVE  /\ Started(v, u)' <=> Started(v, u)
               /\ Acted(v, u)' <=> Acted(v, u)
               /\ Heard(w, n, x)
               /\ \A m \in Node :
                    /\ SaidBy(v, m, u)' <=> SaidBy(v, m, u)
                    /\ Heard(v, m, u)' => Heard(v, m, u)
                    /\ Heard(v, m, u) => Heard(v, m, u)' \/ (m = n /\ v = w /\ u = x)
               /\ Flying(v, u)' => Flying(v, u)
    BY <1>1, HearEffect
  <1>4. Turning(w, x)
    BY <1>3 DEF Turning
  <1>5. \A v \in Way, u \in User : Turning(v, u)' => Turning(v, u)
    BY <1>3 DEF Turning
  <1>6. ASSUME NEW v \in Way, NEW u \in User, NEW m \in Node, Coming(v, m, u)
        PROVE  Coming(v, m, u)' \/ (v = w /\ u = x /\ m = n)
    BY <1>3, <1>6 DEF Coming
  <1>7. \A v \in Way, u \in User :
          /\ Started(v, u)' <=> Started(v, u)
          /\ Flying(v, u)' => Flying(v, u)
          /\ Turning(v, u)' => Turning(v, u)
          /\ \A m \in Node : Coming(v, m, u) => \/ Coming(v, m, u)'
                                                \/ v = w /\ u = x /\ m = n
    BY <1>3, <1>5, <1>6
  <1>8. view' = [view EXCEPT ![n][x] = w]
    BY <1>1
  <1> QED
    BY <1>2, <1>4, <1>7, <1>8, TellKeeps

LEMMA ConnectKeeps ==
    ASSUME CalmInv, NEW s \in Socket, ~Leaving(UserOf[s]), Connect(s)
    PROVE  Truthful' /\ \A m \in Node, u \in User : Onward(m, u)
  <1> USE DEF CalmInv, Truthful
  <1>0. PICK x \in User : x = UserOf[s]
    BY UserOfAssumption
  <1>1. "online" \in Way /\ "offline" \in Way /\ \A v \in Way : v = "online" \/ v = "offline"
    BY DEF Way
  <1>2. ~Flying("offline", x)
    BY <1>0, FlyingIsInFlight
  <1>3. /\ Issue(home[s], Asks("online"), s)
        /\ UNCHANGED <<replyq, inbox, counts, counted, lastSeen, view>>
    BY DEF Connect, Asks
  <1>4. ASSUME NEW v \in Way, NEW u \in User
        PROVE  /\ Started(v, u)' <=> Started(v, u)
               /\ Acted(v, u)' <=> Acted(v, u)
               /\ \A m \in Node : /\ SaidBy(v, m, u)' <=> SaidBy(v, m, u)
                                  /\ Heard(v, m, u)' <=> Heard(v, m, u)
               /\ Flying(v, u)' => Flying(v, u) \/ (v = "online" /\ u = x)
    BY <1>0, <1>1, <1>3, PlugEffect
  <1>5. \A u \in User : (Here(u)' <=> Here(u)) /\ (Been(u)' <=> Been(u))
    BY <1>3 DEF Here, Been, CountedOf, SocketsOf, Connect, TypeOK
  <1>6. Apart'
    BY <1>1, <1>2, <1>4 DEF Apart
  <1>7. LeftBehind'
    BY <1>1, <1>4, <1>5 DEF LeftBehind
  <1>8. ExactCount'
    BY <1>3 DEF ExactCount, SocketsOf
  <1>9. \A v \in Way, u \in User : Turning(v, u)' => Turning(v, u)
    BY <1>4 DEF Turning
  <1>10. Consistent'
    BY <1>5, <1>9 DEF Consistent
  <1>11. Recorded'
    BY <1>1, <1>3, <1>4, <1>5 DEF Recorded
  <1>12. \A v \in Way, m \in Node, u \in User : Coming(v, m, u) => Coming(v, m, u)'
    BY <1>4 DEF Coming
  <1>13. Known'
    BY <1>1, <1>3, <1>5, <1>12 DEF Known
  <1>14. \A m \in Node, u \in User : Onward(m, u)
    BY <1>5, <1>12 DEF Onward
  <1> QED
    BY <1>6, <1>7, <1>8, <1>10, <1>11, <1>13, <1>14

\* A socket that is open when no arrival is under way is counted.
LEMMA OpenCounts ==
    ASSUME CalmInv, NEW s \in Socket, phase[s] = "open", ~Flying("online", UserOf[s])
    PROVE  s \in counted
  <1> USE DEF CalmInv
  <1>1. PICK n \in Node : n = home[s]
    BY DEF TypeOK
  <1>2. s \in counted \/ \E i \in Pos(n) : Is(n, i, "incr", s)
    BY <1>1 DEF QueueInv, SocketInv
  <1>3. ASSUME NEW i \in Pos(n), Is(n, i, "incr", s) PROVE FALSE
    <2>1. Pos(n) = DOMAIN cmdq[n]
      BY LenProperties DEF Pos, TypeOK
    <2>2. cmdq[n][i] \in Cmd(n)
      BY <2>1, Elems
    <2>3. cmdq[n][i].op = Asks("online") /\ UserOf[cmdq[n][i].sock] = UserOf[s]
      BY <1>3 DEF Is, Asks
    <2> QED
      BY <2>2, <2>3 DEF Flying
  <1> QED
    BY <1>2, <1>3

LEMMA DisconnectKeeps ==
    ASSUME CalmInv, NEW s \in Socket, ~Arriving(UserOf[s]), Disconnect(s)
    PROVE  Truthful' /\ \A m \in Node, u \in User : Onward(m, u)
  <1> USE DEF CalmInv, Truthful
  <1>0. PICK x \in User : x = UserOf[s]
    BY UserOfAssumption
  <1>1. "online" \in Way /\ "offline" \in Way /\ \A v \in Way : v = "online" \/ v = "offline"
    BY DEF Way
  <1>2. ~Flying("online", x)
    BY <1>0, FlyingIsInFlight
  <1>3. /\ Issue(home[s], Asks("offline"), s)
        /\ UNCHANGED <<replyq, inbox, counts, counted, lastSeen, view>>
    BY DEF Disconnect, Asks
  <1>4. ASSUME NEW v \in Way, NEW u \in User
        PROVE  /\ Started(v, u)' <=> Started(v, u)
               /\ Acted(v, u)' <=> Acted(v, u)
               /\ \A m \in Node : /\ SaidBy(v, m, u)' <=> SaidBy(v, m, u)
                                  /\ Heard(v, m, u)' <=> Heard(v, m, u)
               /\ Flying(v, u)' => Flying(v, u) \/ (v = "offline" /\ u = x)
    BY <1>0, <1>1, <1>3, PlugEffect
  <1>5. Here(x)
    <2>1. s \in counted
      BY <1>0, <1>2, OpenCounts DEF Disconnect
    <2> QED
      BY <1>0, <2>1 DEF Here, CountedOf, SocketsOf
  <1>6. \A u \in User : /\ Here(u)' <=> Here(u)
                        /\ Been(u)' <=> Been(u) \/ u = x
    BY <1>0, <1>3 DEF Here, Been, CountedOf, SocketsOf, Disconnect, TypeOK
  <1>7. Apart'
    BY <1>1, <1>2, <1>4 DEF Apart
  <1>8. LeftBehind'
    BY <1>1, <1>4, <1>6 DEF LeftBehind
  <1>9. ExactCount'
    BY <1>3 DEF ExactCount, SocketsOf
  <1>10. \A v \in Way, u \in User : Turning(v, u)' => Turning(v, u)
    BY <1>4 DEF Turning
  <1>11. Consistent'
    BY <1>6, <1>10 DEF Consistent
  <1>12. Recorded'
    BY <1>1, <1>3, <1>4, <1>5, <1>6 DEF Recorded
  <1>13. \A v \in Way, m \in Node, u \in User : Coming(v, m, u) => Coming(v, m, u)'
    BY <1>4 DEF Coming
  <1>14. Known'
    BY <1>1, <1>3, <1>5, <1>6, <1>13 DEF Known
  <1>15. \A m \in Node, u \in User : Onward(m, u)
    BY <1>5, <1>6, <1>13 DEF Onward
  <1> QED
    BY <1>7, <1>8, <1>9, <1>11, <1>12, <1>14, <1>15

-----------------------------------------------------------------------------
(* The counter under the calm schedule.                                     *)

CalmSockets == \E s \in Socket : CalmSocket(s)

CalmNext ==
    CalmSockets \/ \E n \in Node : Redis(n) \/ EventLoop(n) \/ Receive(n)

LEMMA NextIsCalm == ClientNext => CalmNext \/ UNCHANGED vars
  <1>1. Others => CalmNext
    BY AtAssumption DEF Others, Sockets, Emits, CalmNext, CalmSockets, EventLoop
  <1>2. Tab => UNCHANGED vars
    BY DEF Tab, Login, Logout, Join, Drop, Hear, ReadUsers, ReadCounts, ReadLastSeen, Merge, Fail
  <1>3. ASSUME NEW u \in User, Register(u) PROVE UNCHANGED vars
    BY <1>3 DEF Register
  <1> QED
    BY <1>1, <1>2, <1>3 DEF ClientNext

LEMMA CalmInit == Init => CalmInv
  <1> SUFFICES ASSUME Init PROVE CalmInv
    OBVIOUS
  <1>1. TypeOK /\ QueueInv /\ alive = Node
    BY InitType, InitQueueInv DEF Init
  <1>2. \A n \in Node : Cmd(n) = {} /\ Rep(n) = {} /\ Evt(n) = {}
    BY SetEmpty DEF Init, Cmd, Rep, Evt
  <1>3. \A v \in Way, u \in User :
          /\ ~Flying(v, u) /\ ~Turning(v, u)
    BY <1>2, TurningFlies DEF Flying, Heard
  <1>4. "online" \in Way /\ "offline" \in Way
    BY DEF Way
  <1>5. \A u \in User : ~Here(u) /\ ~Been(u)
    BY DEF Init, Here, Been, CountedOf, SocketsOf
  <1>6. ExactCount
    BY FS_EmptySet DEF Init, ExactCount
  <1>7. Apart /\ LeftBehind /\ Consistent
    BY <1>3, <1>4 DEF Apart, LeftBehind, Consistent
  <1>8. Recorded /\ Known
    BY <1>5 DEF Init, Recorded, Known
  <1> QED
    BY <1>1, <1>6, <1>7, <1>8 DEF CalmInv, Truthful

LEMMA CalmStep == CalmInv /\ (CalmNext \/ UNCHANGED vars) => CalmInv'
  <1> SUFFICES ASSUME CalmInv, CalmNext \/ UNCHANGED vars PROVE CalmInv'
    OBVIOUS
  <1>1. [Next]_vars
    BY DEF CalmNext, CalmSockets, CalmSocket, Next
  <1>2. TypeOK' /\ QueueInv'
    BY <1>1, StepType, StepQueueInv DEF CalmInv
  <1>3. alive' = alive
    BY DEF CalmNext, CalmSockets, CalmSocket, Connect, Disconnect, Redis, ExecIncr, ExecDecr, ExecDel,
           ExecOffline, ExecPublish, EventLoop, OnIncrReply, OnDecrReply, OnDelReply,
           OnOfflineReply, Receive, vars
  <1>4. CASE UNCHANGED vars
    <2>1. Apart' /\ LeftBehind' /\ Consistent' /\ Recorded' /\ Known'
      BY <1>4 DEF CalmInv, Truthful, vars, Apart, LeftBehind, Consistent, Recorded, Known,
                  Flying, Turning, Coming, Started, Acted, SaidBy, Heard, Here, Been,
                  CountedOf, SocketsOf, Cmd, Rep, Evt
    <2>2. ExactCount'
      BY <1>4 DEF CalmInv, Truthful, vars, ExactCount, SocketsOf
    <2> QED
      BY <1>2, <1>3, <2>1, <2>2 DEF CalmInv, Truthful
  <1>5. CASE CalmNext
    <2>1. Truthful'
      BY <1>5, ConnectKeeps, DisconnectKeeps, IncrKeeps, DecrKeeps, DelKeeps, OfflineKeeps,
         PublishKeeps, AskReplyKeeps, ActReplyKeeps, HearKeeps
      DEF CalmNext, CalmSockets, CalmSocket, Redis, EventLoop
    <2> QED
      BY <1>2, <1>3, <2>1 DEF CalmInv
  <1> QED
    BY <1>4, <1>5

LEMMA Calm == ClientSpec => []CalmInv
  <1>1. ClientInit => CalmInv
    BY CalmInit DEF ClientInit
  <1>2. CalmInv /\ [ClientNext]_all => CalmInv'
    BY NextIsCalm, CalmStep DEF all, vars
  <1> QED
    BY <1>1, <1>2, PTL DEF ClientSpec

\* When a user's comings and goings are far enough apart, presence:counts holds
\* the number of the user's sockets that have been counted in and not out.
THEOREM CountIsExact == ClientSpec => []ExactCount
  BY Calm, PTL DEF CalmInv, Truthful

\* A counted socket is open, but for a departure under way.
LEMMA CountedIsOpen ==
    ASSUME CalmInv, NEW s \in Socket, s \in counted, ~Flying("offline", UserOf[s])
    PROVE  phase[s] = "open"
  <1> USE DEF CalmInv
  <1>1. PICK n \in Node : n = home[s]
    BY DEF TypeOK
  <1>2. /\ phase[s] # "new"
        /\ phase[s] = "closed" => \E i \in Pos(n) : Is(n, i, "decr", s)
    BY <1>1 DEF QueueInv, SocketInv
  <1>3. ASSUME NEW i \in Pos(n), Is(n, i, "decr", s) PROVE FALSE
    <2>1. Pos(n) = DOMAIN cmdq[n]
      BY LenProperties DEF Pos, TypeOK
    <2>2. cmdq[n][i] \in Cmd(n)
      BY <2>1, Elems
    <2>3. cmdq[n][i].op = Asks("offline") /\ UserOf[cmdq[n][i].sock] = UserOf[s]
      BY <1>3 DEF Is, Asks
    <2> QED
      BY <2>2, <2>3 DEF Flying
  <1>4. phase[s] \in {"new", "open", "closed"}
    BY DEF TypeOK
  <1> QED
    BY <1>2, <1>3, <1>4

LEMMA HereIsOpen ==
    ASSUME CalmInv, NEW u \in User, ~Flying("online", u), ~Flying("offline", u)
    PROVE  Here(u) <=> \E s \in SocketsOf(u) : phase[s] = "open"
  BY CountedIsOpen, OpenCounts DEF Here, CountedOf, SocketsOf

LEMMA QuietFlies ==
    ASSUME Quiet, NEW w \in Way, NEW u \in User
    PROVE  ~Flying(w, u) /\ ~Turning(w, u)
  <1>1. \A n \in Node : Cmd(n) = {} /\ Rep(n) = {} /\ Evt(n) = {}
    BY SetEmpty DEF Quiet, Cmd, Rep, Evt
  <1> QED
    BY <1>1, TurningFlies DEF Flying, Heard

LEMMA CalmSettles == CalmInv => SettledTruth
  <1> SUFFICES ASSUME CalmInv, Quiet, NEW u \in User
               PROVE  LET here == \E s \in SocketsOf(u) : phase[s] = "open"
                          been == \E s \in SocketsOf(u) : phase[s] = "closed"
                      IN  /\ counts[u] > 0 <=> here
                          /\ u \in lastSeen <=> been /\ ~here
                          /\ \A n \in Node : view[n][u] = IF here THEN "online"
                                                          ELSE IF been THEN "offline"
                                                          ELSE "nothing"
    BY DEF SettledTruth
  <1> DEFINE here == \E s \in SocketsOf(u) : phase[s] = "open"
             been == \E s \in SocketsOf(u) : phase[s] = "closed"
  <1> USE DEF CalmInv, Truthful
  <1>1. "online" \in Way /\ "offline" \in Way
    BY DEF Way
  <1>2. \A w \in Way : ~Flying(w, u) /\ ~Turning(w, u)
    BY QuietFlies
  <1>3. (here <=> Here(u)) /\ (been <=> Been(u))
    BY <1>1, <1>2, HereIsOpen DEF Been, Here
  <1> HIDE DEF here, been
  <1>4. counts[u] > 0 <=> here
    BY <1>3, HereCounts
  <1>5. u \in lastSeen <=> been /\ ~here
    BY <1>1, <1>2, <1>3 DEF Recorded, Turning
  <1>6. ASSUME NEW n \in Node
        PROVE  view[n][u] = IF here THEN "online" ELSE IF been THEN "offline" ELSE "nothing"
    <2>1. view[n][u] \in Told
      BY DEF TypeOK
    <2>2. \A w \in Way : ~Coming(w, n, u)
      BY <1>2, ComingTurns
    <2> QED
      BY <1>1, <1>3, <2>1, <2>2 DEF Known, Told
  <1> QED
    BY <1>4, <1>5, <1>6 DEF here, been

\* Once nothing is in flight, the counter, lastSeen and what the listeners of
\* every node were last told agree with the sockets that are open.
THEOREM SettlesToTheTruth == ClientSpec => []SettledTruth
  BY Calm, CalmSettles, PTL

-----------------------------------------------------------------------------
(* The tab.                                                                 *)

LEMMA TabTypeInit == TabInit => TabTypeOK
  <1> SUFFICES ASSUME TabInit PROVE TabTypeOK
    OBVIOUS
  <1>1. Absent \in [User -> Entry]
    BY DEF Absent, Entry
  <1>2. "idle" \in FetchPC /\ 0 \in 0..MaxLogins
    BY MaxLoginsAssumption DEF FetchPC
  <1>3. wire \in Seq(Event)
    BY EmptySeq DEF TabInit
  <1> QED
    BY <1>1, <1>2, <1>3 DEF TabInit, TabTypeOK

\* What the node of the tab emits: an event of the user it tells of.
LEMMA EmitsEvent ==
    ASSUME TypeOK, Emits(At)
    PROVE  \E w \in Way, u \in User :
             /\ Push(u, w = "online") /\ view' = [view EXCEPT ![At][u] = w]
             /\ UNCHANGED <<phase, counts, lastSeen, counted>>
             /\ \/ /\ replyq[At] # <<>> /\ Resume(At) /\ inbox' = inbox
                   /\ Head(replyq[At]).op = Acts(w) /\ UserOf[Head(replyq[At]).sock] = u
                   /\ Issue(At, Says(w), Head(replyq[At]).sock)
                \/ Receive(At) /\ Head(inbox[At]) = Notice(w, u)
  <1> USE AtAssumption
  <1>1. CASE OnDelReply(At) /\ Push(UserOf[Head(replyq[At]).sock], TRUE)
    <2>1. PICK u \in User : u = UserOf[Head(replyq[At]).sock]
      BY <1>1, ReplyType DEF OnDelReply, ReplyIs
    <2>2. "online" \in Way /\ Acts("online") = "del" /\ Says("online") = "sayOnline"
      BY DEF Way, Acts, Says
    <2>3. /\ Push(u, "online" = "online") /\ view' = [view EXCEPT ![At][u] = "online"]
          /\ replyq[At] # <<>> /\ Resume(At) /\ Head(replyq[At]).op = "del"
          /\ Issue(At, "sayOnline", Head(replyq[At]).sock)
          /\ UNCHANGED <<phase, counts, lastSeen, counted, inbox>>
      BY <1>1, <2>1 DEF OnDelReply, ReplyIs, Tell
    <2> QED
      BY <2>1, <2>2, <2>3
  <1>2. CASE OnOfflineReply(At) /\ Push(UserOf[Head(replyq[At]).sock], FALSE)
    <2>1. PICK u \in User : u = UserOf[Head(replyq[At]).sock]
      BY <1>2, ReplyType DEF OnOfflineReply, ReplyIs
    <2>2. "offline" \in Way /\ Acts("offline") = "offline" /\ Says("offline") = "sayOffline"
      BY DEF Way, Acts, Says
    <2>3. /\ Push(u, "offline" = "online") /\ view' = [view EXCEPT ![At][u] = "offline"]
          /\ replyq[At] # <<>> /\ Resume(At) /\ Head(replyq[At]).op = "offline"
          /\ Issue(At, "sayOffline", Head(replyq[At]).sock)
          /\ UNCHANGED <<phase, counts, lastSeen, counted, inbox>>
      <3>1. ("offline" = "online") = FALSE
        OBVIOUS
      <3> QED
        BY <1>2, <2>1, <3>1 DEF OnOfflineReply, ReplyIs, Tell
    <2> QED
      BY <2>1, <2>2, <2>3
  <1>3. CASE Receive(At) /\ Push(Head(inbox[At]).user, Head(inbox[At]).online)
    <2>1. Head(inbox[At]) \in Event
      BY <1>3, ReceiveSets
    <2>2. PICK u \in User, b \in BOOLEAN : Head(inbox[At]) = [user |-> u, online |-> b]
      BY <2>1 DEF Event
    <2>3. PICK w \in Way : b = (w = "online")
      BY <2>2 DEF Way
    <2>4. (IF w = "online" THEN "online" ELSE "offline") = w
      BY DEF Way
    <2>5. Head(inbox[At]).user = u /\ Head(inbox[At]).online = (w = "online")
      BY <2>2, <2>3
    <2>6. Push(u, w = "online")
      BY <1>3, <2>5
    <2>7. view' = [view EXCEPT ![At][u] = w]
      BY <1>3, <2>4, <2>5 DEF Receive, Tell
    <2>8. Head(inbox[At]) = Notice(w, u)
      BY <2>2, <2>3 DEF Notice
    <2>9. UNCHANGED <<phase, counts, lastSeen, counted>>
      BY <1>3 DEF Receive
    <2> QED
      BY <1>3, <2>6, <2>7, <2>8, <2>9
  <1> QED
    BY <1>1, <1>2, <1>3 DEF Emits

LEMMA TabTypeStep == TypeOK /\ TabTypeOK /\ [ClientNext]_all => TabTypeOK'
  <1> SUFFICES ASSUME TypeOK, TabTypeOK, [ClientNext]_all PROVE TabTypeOK'
    OBVIOUS
  <1> USE MaxLoginsAssumption DEF TabTypeOK
  <1>1. CASE Emits(At)
    <2>1. PICK w \in Way, u \in User : Push(u, w = "online")
      BY <1>1, EmitsEvent
    <2>2. [user |-> u, online |-> (w = "online")] \in Event
      BY DEF Event
    <2>3. wire' \in Seq(Event)
      BY <2>1, <2>2, QueueAppend DEF Push
    <2> QED
      BY <2>1, <2>3 DEF Push
  <1>2. CASE UNCHANGED tab
    BY <1>2 DEF tab
  <1>3. CASE Login
    <2>1. logins + 1 \in Session /\ logins + 1 \in 0..MaxLogins
      BY <1>3 DEF Login, Session
    <2> QED
      BY <1>3, <2>1, EmptySeq DEF Login, FetchPC
  <1>4. CASE Logout
    BY <1>4, EmptySeq DEF Logout, Absent, Entry
  <1>5. CASE Join
    BY <1>5 DEF Join, Unlisted
  <1>6. CASE Drop
    BY <1>6, EmptySeq DEF Drop
  <1>7. CASE Hear
    <2>1. Tail(wire) \in Seq(Event) /\ Head(wire) \in Event
      BY <1>7, QueueTail DEF Hear
    <2> QED
      BY <1>7, <2>1 DEF Hear, Event, Entry
  <1>8. ASSUME NEW i \in Session, ReadCounts(i) PROVE TabTypeOK'
    <2>1. [u \in User |-> IF fetch[i].got[u] = "unseen" /\ counts[u] > 0
                          THEN "online" ELSE fetch[i].got[u]] \in [User -> Entry]
      BY DEF Entry
    <2>2. missed' \subseteq User
      BY <1>8 DEF ReadCounts
    <2> QED
      BY <1>8, <2>1, <2>2 DEF ReadCounts, Step, FetchPC
  <1>9. ASSUME NEW i \in Session, ReadLastSeen(i) PROVE TabTypeOK'
    <2>1. [u \in User |-> IF fetch[i].got[u] = "unseen" /\ u \in lastSeen
                          THEN "seen" ELSE fetch[i].got[u]] \in [User -> Entry]
      BY DEF Entry
    <2> QED
      BY <1>9, <2>1 DEF ReadLastSeen, Step, FetchPC
  <1>10. ASSUME NEW i \in Session, Merge(i) PROVE TabTypeOK'
    <2>1. Merged(presence, fetch[i].got) \in [User -> Entry]
      BY DEF Merged
    <2>2. missed' \subseteq User
      BY <1>10 DEF Merge
    <2>3. Absent \in [User -> Entry]
      BY DEF Absent, Entry
    <2> QED
      BY <1>10, <2>1, <2>2, <2>3 DEF Merge, Step, FetchPC
  <1>11. ASSUME NEW i \in Session, Fail(i) PROVE TabTypeOK'
    <2>1. Absent \in [User -> Entry]
      BY DEF Absent, Entry
    <2> QED
      BY <1>11, <2>1 DEF Fail, FetchPC
  <1>12. ASSUME NEW i \in Session, ReadUsers(i) PROVE TabTypeOK'
    <2>1. [u \in User |-> IF u \in registered THEN "unseen" ELSE "none"] \in [User -> Entry]
      BY DEF Entry
    <2> QED
      BY <1>12, <2>1 DEF ReadUsers, Step, FetchPC
  <1>13. ASSUME NEW u \in User, Register(u) PROVE TabTypeOK'
    BY <1>13 DEF Register
  <1>14. CASE UNCHANGED all
    BY <1>14 DEF all, tab
  <1> QED
    BY <1>1, <1>2, <1>3, <1>4, <1>5, <1>6, <1>7, <1>8, <1>9, <1>10, <1>11, <1>12, <1>13, <1>14
    DEF ClientNext, Others, Sockets, Tab

\* The state of the tab always has its type: no answer or event writes an entry
\* the map cannot show.
THEOREM TabTypeCorrect == ClientSpec => []TabTypeOK
  <1>1. ClientInit => TabTypeOK
    BY TabTypeInit DEF ClientInit
  <1> QED
    BY <1>1, TabTypeStep, Calm, PTL DEF CalmInv, ClientSpec

-----------------------------------------------------------------------------
(* An announcement is made once.  Each arrival or departure that turns its  *)
(* user has one token until the handler speaks: the answer that decides on  *)
(* the lastSeen command, that command, or its answer.                       *)

CmdToken(w, u) == {c \in Command : c.op = Acts(w) /\ UserOf[c.sock] = u}
RepToken(w, u) ==
    {r \in Reply : /\ UserOf[r.sock] = u
                   /\ r.op = Acts(w) \/ (r.op = Asks(w) /\ Turns(w, r.count))}
Pending(w, u, n) == Cmd(n) \cap CmdToken(w, u) # {}
Decided(w, u, n) == Rep(n) \cap RepToken(w, u) # {}

Single(w, u) ==
    \A n \in Node : /\ AtMostOne(cmdq[n], CmdToken(w, u))
                    /\ AtMostOne(replyq[n], RepToken(w, u))
Apiece(w, u) ==
    \A m, n \in Node : /\ Pending(w, u, m) /\ Pending(w, u, n) => m = n
                       /\ Decided(w, u, m) /\ Decided(w, u, n) => m = n
                       /\ ~(Pending(w, u, m) /\ Decided(w, u, n))
OneToken == \A w \in Way, u \in User : Single(w, u) /\ Apiece(w, u)

\* While there is a token, nobody has been told, and nobody is about to be but by it.
News ==
    \A w \in Way, u \in User : Started(w, u) \/ Acted(w, u) =>
        \A n \in Node : view[n][u] # w /\ ~SaidBy(w, n, u) /\ ~Heard(w, n, u)

OnceInv == OneToken /\ News

LEMMA Tokens ==
    ASSUME TypeOK, NEW w \in Way, NEW u \in User
    PROVE  Started(w, u) \/ Acted(w, u) <=> \E n \in Node : Pending(w, u, n) \/ Decided(w, u, n)
  <1>1. \A n \in Node : Cmd(n) \subseteq Command /\ Rep(n) \subseteq Reply
    BY Elems
  <1> QED
    BY <1>1 DEF Started, Acted, Pending, Decided, CmdToken, RepToken

\* A command is taken.
LEMMA CmdTaken ==
    ASSUME TypeOK, NEW n \in Node, cmdq[n] # <<>>, cmdq' = [cmdq EXCEPT ![n] = Tail(@)],
           NEW w \in Way, NEW u \in User, Single(w, u)
    PROVE  /\ \A m \in Node : AtMostOne(cmdq'[m], CmdToken(w, u))
           /\ \A m \in Node : Pending(w, u, m)' => Pending(w, u, m)
           /\ Head(cmdq[n]) \in CmdToken(w, u) => Pending(w, u, n) /\ ~Pending(w, u, n)'
  <1> DEFINE T == CmdToken(w, u)
  <1>1. cmdq[n] \in Seq(Command) /\ cmdq'[n] = Tail(cmdq[n])
        /\ \A m \in Node : m # n => cmdq'[m] = cmdq[m]
    BY DEF TypeOK
  <1>2. AtMostOne(cmdq[n], T)
    BY DEF Single
  <1> HIDE DEF T
  <1>3. AtMostOne(cmdq'[n], T) /\ (Head(cmdq[n]) \in T => ToSet(cmdq'[n]) \cap T = {})
    BY <1>1, <1>2, OneTail
  <1>4. \A m \in Node : AtMostOne(cmdq'[m], T)
    BY <1>1, <1>3 DEF Single, T
  <1>5. /\ \A m \in Node : m # n => Cmd(m)' = Cmd(m)
        /\ Cmd(n) = Cmd(n)' \cup {Head(cmdq[n])}
    BY TakeSets
  <1>6. CmdToken(w, u)' = CmdToken(w, u)
    BY DEF CmdToken
  <1>7. Cmd(n)' = ToSet(cmdq'[n])
    BY DEF Cmd
  <1> QED
    BY <1>3, <1>4, <1>5, <1>6, <1>7 DEF Pending, T

\* A command is issued.
LEMMA CmdIssued ==
    ASSUME TypeOK, NEW n \in Node, NEW op \in Ops, NEW s \in Socket, Issue(n, op, s),
           NEW w \in Way, NEW u \in User, Single(w, u),
           [op |-> op, sock |-> s] \in CmdToken(w, u) => ~Pending(w, u, n)
    PROVE  /\ \A m \in Node : AtMostOne(cmdq'[m], CmdToken(w, u))
           /\ \A m \in Node : Pending(w, u, m)' =>
                Pending(w, u, m) \/ (m = n /\ [op |-> op, sock |-> s] \in CmdToken(w, u))
  <1> DEFINE T == CmdToken(w, u)
             c == [op |-> op, sock |-> s]
  <1>1. /\ c \in Command /\ cmdq[n] \in Seq(Command) /\ cmdq'[n] = Append(cmdq[n], c)
        /\ \A m \in Node : m # n => cmdq'[m] = cmdq[m]
    BY DEF TypeOK, Issue, Command
  <1>2. AtMostOne(cmdq[n], T) /\ (c \in T => ToSet(cmdq[n]) \cap T = {})
    BY DEF Single, Pending, Cmd
  <1>3. \A m \in Node : Cmd(m)' = IF m = n THEN Cmd(m) \cup {c} ELSE Cmd(m)
    BY IssueSets
  <1> HIDE DEF T, c
  <1>4. AtMostOne(cmdq'[n], T)
    BY <1>1, <1>2, OneAppend
  <1>5. \A m \in Node : AtMostOne(cmdq'[m], T)
    BY <1>1, <1>4 DEF Single, T
  <1>6. CmdToken(w, u)' = CmdToken(w, u)
    BY DEF CmdToken
  <1>7. \A m \in Node : Pending(w, u, m)' => Pending(w, u, m) \/ (m = n /\ c \in T)
    BY <1>3, <1>6 DEF Pending, T
  <1> QED
    BY <1>5, <1>7 DEF T, c

\* An answer comes in.
LEMMA RepIssued ==
    ASSUME TypeOK, alive = Node, NEW n \in Node, cmdq[n] # <<>>, NEW k \in Int, Answer(n, k),
           NEW r, r = [op |-> Head(cmdq[n]).op, sock |-> HeadSock(n), count |-> k],
           NEW w \in Way, NEW u \in User, Single(w, u),
           r \in RepToken(w, u) => ~Decided(w, u, n)
    PROVE  /\ \A m \in Node : AtMostOne(replyq'[m], RepToken(w, u))
           /\ \A m \in Node : Decided(w, u, m)' =>
                Decided(w, u, m) \/ (m = n /\ r \in RepToken(w, u))
  <1> DEFINE T == RepToken(w, u)
  <1>1. /\ replyq[n] \in Seq(Reply) /\ replyq'[n] = Append(replyq[n], r)
        /\ \A m \in Node : m # n => replyq'[m] = replyq[m]
    BY DEF TypeOK, Answer
  <1>2. r \in Reply
    <2>1. Head(cmdq[n]) \in Command
      BY QueueTail DEF TypeOK
    <2> QED
      BY <2>1 DEF Command, Reply, HeadSock, TypeOK
  <1>3. AtMostOne(replyq[n], T) /\ (r \in T => ToSet(replyq[n]) \cap T = {})
    BY DEF Single, Decided, Rep
  <1>4. \A m \in Node : Rep(m)' = IF m = n THEN Rep(m) \cup {r} ELSE Rep(m)
    BY AnswerSets
  <1> HIDE DEF T
  <1>5. AtMostOne(replyq'[n], T)
    BY <1>1, <1>2, <1>3, OneAppend
  <1>6. \A m \in Node : AtMostOne(replyq'[m], T)
    BY <1>1, <1>5 DEF Single, T
  <1>7. RepToken(w, u)' = RepToken(w, u)
    BY DEF RepToken
  <1>8. \A m \in Node : Decided(w, u, m)' => Decided(w, u, m) \/ (m = n /\ r \in T)
    BY <1>4, <1>7 DEF Decided, T
  <1> QED
    BY <1>6, <1>8 DEF T

\* An answer is handled.
LEMMA RepTaken ==
    ASSUME TypeOK, NEW n \in Node, replyq[n] # <<>>, Resume(n),
           NEW w \in Way, NEW u \in User, Single(w, u)
    PROVE  /\ \A m \in Node : AtMostOne(replyq'[m], RepToken(w, u))
           /\ \A m \in Node : Decided(w, u, m)' => Decided(w, u, m)
           /\ Head(replyq[n]) \in RepToken(w, u) => Decided(w, u, n) /\ ~Decided(w, u, n)'
  <1> DEFINE T == RepToken(w, u)
  <1>1. replyq[n] \in Seq(Reply) /\ replyq'[n] = Tail(replyq[n])
        /\ \A m \in Node : m # n => replyq'[m] = replyq[m]
    BY DEF TypeOK, Resume
  <1>2. AtMostOne(replyq[n], T)
    BY DEF Single
  <1> HIDE DEF T
  <1>3. AtMostOne(replyq'[n], T) /\ (Head(replyq[n]) \in T => ToSet(replyq'[n]) \cap T = {})
    BY <1>1, <1>2, OneTail
  <1>4. \A m \in Node : AtMostOne(replyq'[m], T)
    BY <1>1, <1>3 DEF Single, T
  <1>5. /\ \A m \in Node : m # n => Rep(m)' = Rep(m)
        /\ Rep(n) = Rep(n)' \cup {Head(replyq[n])}
    BY ResumeSets
  <1>6. RepToken(w, u)' = RepToken(w, u)
    BY DEF RepToken
  <1>7. Rep(n)' = ToSet(replyq'[n])
    BY DEF Rep
  <1> QED
    BY <1>3, <1>4, <1>5, <1>6, <1>7 DEF Decided, T

\* When the count says that a user turns, nothing says so yet.
LEMMA AskIsNew ==
    ASSUME CalmInv, NEW n \in Node, ExecIncr(n) \/ ExecDecr(n)
    PROVE  \E w \in Way, x \in User, k \in Int :
             /\ cmdq[n] # <<>> /\ Head(cmdq[n]).op = Asks(w) /\ HeadUser(n) = x
             /\ Answer(n, k) /\ UNCHANGED <<inbox, view>>
             /\ Turns(w, k) => ~Turning(w, x) /\ \A m \in Node : view[m][x] # w
  <1> USE DEF CalmInv, Truthful
  <1>0. cmdq[n] # <<>>
    BY DEF ExecIncr, ExecDecr, HeadIs
  <1>1. PICK x \in User, s \in Socket : x = HeadUser(n) /\ s = HeadSock(n) /\ x = UserOf[s]
    BY <1>0, HeadType DEF HeadUser
  <1>2. "online" \in Way /\ "offline" \in Way
    BY DEF Way
  <1>3. counts[x] \in Nat /\ (Here(x) <=> counts[x] > 0)
    BY HereCounts
  <1>4. CASE ExecIncr(n)
    <2>1. PICK k \in Int : k = counts[x] + 1
      BY <1>3
    <2>2. /\ Head(cmdq[n]).op = Asks("online") /\ Answer(n, k) /\ UNCHANGED <<inbox, view>>
      BY <1>1, <1>4, <2>1 DEF ExecIncr, HeadIs, Asks
    <2>3. Flying("online", x)
      <3>1. Head(cmdq[n]) \in Cmd(n)
        BY <1>0, SetTail DEF Cmd, TypeOK
      <3> QED
        BY <1>1, <2>2, <3>1 DEF Flying, HeadSock
    <2>4. ~Flying("offline", x)
      BY <2>3 DEF Apart
    <2>5. ASSUME Turns("online", k)
          PROVE  ~Turning("online", x) /\ \A m \in Node : view[m][x] # "online"
      <3>1. ~Here(x)
        BY <1>3, <2>1, <2>5 DEF Turns
      <3>2. \A m \in Node : ~Coming("offline", m, x)
        BY <1>2, <2>4, ComingTurns, TurningFlies
      <3> QED
        BY <1>2, <3>1, <3>2 DEF Consistent, Known
    <2> QED
      BY <1>0, <1>1, <1>2, <2>1, <2>2, <2>5
  <1>5. CASE ExecDecr(n)
    <2>1. PICK k \in Int : k = counts[x] - 1
      BY <1>3
    <2>2. /\ Head(cmdq[n]).op = Asks("offline") /\ Answer(n, k) /\ UNCHANGED <<inbox, view>>
      BY <1>1, <1>5, <2>1 DEF ExecDecr, HeadIs, Asks
    <2>3. Flying("offline", x)
      <3>1. Head(cmdq[n]) \in Cmd(n)
        BY <1>0, SetTail DEF Cmd, TypeOK
      <3> QED
        BY <1>1, <2>2, <3>1 DEF Flying, HeadSock
    <2>4. ~Flying("online", x)
      BY <2>3 DEF Apart
    <2>5. Here(x)
      <3>1. s \in counted
        BY <1>1, <1>5, RedisQueueInv DEF ExecDecr, Redis
      <3> QED
        BY <1>1, <3>1 DEF Here, CountedOf, SocketsOf
    <2>6. ~Turning("offline", x) /\ \A m \in Node : view[m][x] # "offline"
      <3>1. \A m \in Node : ~Coming("online", m, x)
        BY <1>2, <2>4, ComingTurns, TurningFlies
      <3> QED
        BY <1>2, <2>5, <3>1 DEF Consistent, Known
    <2> QED
      BY <1>0, <1>1, <1>2, <2>1, <2>2, <2>6
  <1> QED
    BY <1>4, <1>5

LEMMA AskOnce ==
    ASSUME CalmInv, OnceInv, NEW n \in Node, ExecIncr(n) \/ ExecDecr(n)
    PROVE  OnceInv'
  <1> USE DEF CalmInv, Truthful
  <1>1. PICK w \in Way, x \in User, k \in Int :
          /\ cmdq[n] # <<>> /\ Head(cmdq[n]).op = Asks(w) /\ HeadUser(n) = x
          /\ Answer(n, k) /\ UNCHANGED <<inbox, view>>
          /\ Turns(w, k) => ~Turning(w, x) /\ \A m \in Node : view[m][x] # w
    BY AskIsNew
  <1>2. PICK r \in Reply : /\ r = [op |-> Head(cmdq[n]).op, sock |-> HeadSock(n), count |-> k]
                           /\ r.op = Asks(w) /\ r.count = k /\ UserOf[r.sock] = x
    <2>1. Head(cmdq[n]) \in Command
      BY <1>1, QueueTail DEF TypeOK
    <2> DEFINE a == [op |-> Head(cmdq[n]).op, sock |-> HeadSock(n), count |-> k]
    <2>2. a \in Reply
      BY <2>1 DEF Command, Reply, HeadSock
    <2>3. a.op = Head(cmdq[n]).op /\ a.count = k /\ UserOf[a.sock] = HeadUser(n)
      BY DEF HeadUser
    <2> QED
      BY <1>1, <2>2, <2>3
  <1>3. cmdq' = [cmdq EXCEPT ![n] = Tail(@)]
    BY <1>1 DEF Answer
  <1>4. ASSUME NEW v \in Way, NEW u \in User
        PROVE  /\ Single(v, u)' /\ Apiece(v, u)'
               /\ Started(v, u)' \/ Acted(v, u)' => \A m \in Node :
                    view'[m][u] # v /\ ~SaidBy(v, m, u)' /\ ~Heard(v, m, u)'
    <2>1. /\ Asks(w) # Acts(v) /\ v # w => Asks(v) # Asks(w)
      BY OpNames
    <2>2. Head(cmdq[n]) \notin CmdToken(v, u)
      BY <1>1, <2>1, OpNames DEF CmdToken
    <2>3. r \in RepToken(v, u) => v = w /\ u = x /\ Turns(w, k)
      BY <1>2, <2>1, OpNames DEF RepToken
    <2>4. Turns(w, k) => \A m \in Node : ~Pending(w, x, m) /\ ~Decided(w, x, m)
      BY <1>1, Tokens DEF Turning
    <2>5. Single(v, u) /\ Apiece(v, u)
      BY DEF OnceInv, OneToken
    <2>6. /\ \A m \in Node : AtMostOne(cmdq'[m], CmdToken(v, u))
          /\ \A m \in Node : Pending(v, u, m)' => Pending(v, u, m)
      BY <1>1, <1>3, <2>5, CmdTaken
    <2>7. /\ \A m \in Node : AtMostOne(replyq'[m], RepToken(v, u))
          /\ \A m \in Node : Decided(v, u, m)' =>
               Decided(v, u, m) \/ (m = n /\ r \in RepToken(v, u))
      BY <1>1, <1>2, <2>3, <2>4, <2>5, RepIssued
    <2>8. Single(v, u)'
      BY <2>6, <2>7 DEF Single, CmdToken, RepToken
    <2>9. Apiece(v, u)'
      BY <2>3, <2>4, <2>5, <2>6, <2>7 DEF Apiece
    <2>10. /\ Started(v, u)' <=> Started(v, u) \/ (v = w /\ u = x /\ Turns(w, k))
           /\ Acted(v, u)' <=> Acted(v, u)
           /\ \A m \in Node : /\ SaidBy(v, m, u)' <=> SaidBy(v, m, u)
                              /\ Heard(v, m, u)' <=> Heard(v, m, u)
      <3>1. inbox' = inbox
        BY <1>1
      <3> QED
        BY <1>1, <3>1, AskEffect
    <2>11. ASSUME Started(v, u)' \/ Acted(v, u)', NEW m \in Node
           PROVE  view'[m][u] # v /\ ~SaidBy(v, m, u)' /\ ~Heard(v, m, u)'
      <3>1. CASE Started(v, u) \/ Acted(v, u)
        BY <1>1, <2>10, <3>1 DEF OnceInv, News
      <3>2. CASE v = w /\ u = x /\ Turns(w, k)
        BY <1>1, <2>10, <3>2 DEF Turning
      <3> QED
        BY <2>10, <2>11, <3>1, <3>2
    <2> QED
      BY <2>8, <2>9, <2>11
  <1> QED
    BY <1>4 DEF OnceInv, OneToken, News

LEMMA ActOnce ==
    ASSUME CalmInv, OnceInv, NEW n \in Node, ExecDel(n) \/ ExecOffline(n)
    PROVE  OnceInv'
  <1> USE DEF CalmInv, Truthful
  <1>1. /\ cmdq[n] # <<>> /\ Answer(n, 0) /\ UNCHANGED <<inbox, view>>
        /\ cmdq' = [cmdq EXCEPT ![n] = Tail(@)]
    BY DEF ExecDel, ExecOffline, HeadIs, Answer
  <1>2. PICK w \in Way, x \in User : Head(cmdq[n]).op = Acts(w) /\ HeadUser(n) = x
    <2>1. /\ HeadUser(n) \in User
          /\ Head(cmdq[n]).op = Acts("online") \/ Head(cmdq[n]).op = Acts("offline")
      BY HeadType DEF ExecDel, ExecOffline, HeadIs, Acts
    <2> QED
      BY <2>1 DEF Way
  <1>3. PICK r \in Reply : /\ r = [op |-> Head(cmdq[n]).op, sock |-> HeadSock(n), count |-> 0]
                           /\ r.op = Acts(w) /\ UserOf[r.sock] = x
    <2>1. Head(cmdq[n]) \in Command
      BY <1>1, QueueTail DEF TypeOK
    <2> DEFINE a == [op |-> Head(cmdq[n]).op, sock |-> HeadSock(n), count |-> 0]
    <2>2. a \in Reply
      BY <2>1 DEF Command, Reply, HeadSock
    <2>3. a.op = Head(cmdq[n]).op /\ a.count = 0 /\ UserOf[a.sock] = HeadUser(n)
      BY DEF HeadUser
    <2> QED
      BY <1>2, <2>2, <2>3
  <1>4. Head(cmdq[n]) \in CmdToken(w, x)
    <2>1. Head(cmdq[n]) \in Command
      BY <1>1, QueueTail DEF TypeOK
    <2> QED
      BY <1>2, <2>1 DEF CmdToken, HeadUser, HeadSock
  <1>5. ASSUME NEW v \in Way, NEW u \in User
        PROVE  /\ Single(v, u)' /\ Apiece(v, u)'
               /\ Started(v, u)' \/ Acted(v, u)' => \A m \in Node :
                    view'[m][u] # v /\ ~SaidBy(v, m, u)' /\ ~Heard(v, m, u)'
    <2>1. r \in RepToken(v, u) => v = w /\ u = x
      BY <1>3, OpNames DEF RepToken
    <2>2. Single(v, u) /\ Apiece(v, u)
      BY DEF OnceInv, OneToken
    <2>3. /\ \A m \in Node : AtMostOne(cmdq'[m], CmdToken(v, u))
          /\ \A m \in Node : Pending(v, u, m)' => Pending(v, u, m)
          /\ v = w /\ u = x => Pending(v, u, n) /\ ~Pending(v, u, n)'
      BY <1>1, <1>4, <2>2, CmdTaken
    <2>4. r \in RepToken(v, u) => ~Decided(v, u, n)
      BY <2>1, <2>2, <2>3 DEF Apiece
    <2>5. /\ \A m \in Node : AtMostOne(replyq'[m], RepToken(v, u))
          /\ \A m \in Node : Decided(v, u, m)' =>
               Decided(v, u, m) \/ (m = n /\ r \in RepToken(v, u))
      BY <1>1, <1>3, <2>2, <2>4, RepIssued
    <2>6. Single(v, u)'
      BY <2>3, <2>5 DEF Single, CmdToken, RepToken
    <2>7. Apiece(v, u)'
      BY <2>1, <2>2, <2>3, <2>5 DEF Apiece
    <2>8. /\ Started(v, u)' => Started(v, u)
          /\ Acted(v, u)' <=> Acted(v, u) \/ (v = w /\ u = x)
          /\ \A m \in Node : /\ SaidBy(v, m, u)' <=> SaidBy(v, m, u)
                             /\ Heard(v, m, u)' <=> Heard(v, m, u)
          /\ Started(w, x)
      <3>1. inbox' = inbox
        BY <1>1
      <3> QED
        BY <1>1, <1>2, <3>1, ActEffect
    <2>9. Started(v, u)' \/ Acted(v, u)' => \A m \in Node :
            view'[m][u] # v /\ ~SaidBy(v, m, u)' /\ ~Heard(v, m, u)'
      BY <1>1, <2>8 DEF OnceInv, News
    <2> QED
      BY <2>6, <2>7, <2>9
  <1> QED
    BY <1>5 DEF OnceInv, OneToken, News

LEMMA PublishOnce ==
    ASSUME CalmInv, OnceInv, NEW n \in Node, ExecPublish(n)
    PROVE  OnceInv'
  <1> USE DEF CalmInv, Truthful
  <1>1. PICK x \in User, w \in Way : x = HeadUser(n) /\ Head(cmdq[n]).op = Says(w)
    <2>1. /\ HeadUser(n) \in User
          /\ Head(cmdq[n]).op = Says("online") \/ Head(cmdq[n]).op = Says("offline")
      BY HeadType DEF ExecPublish, HeadIs, Says
    <2> QED
      BY <2>1 DEF Way
  <1>2. /\ cmdq[n] # <<>> /\ cmdq' = [cmdq EXCEPT ![n] = Tail(@)]
        /\ UNCHANGED <<replyq, view>>
    BY DEF ExecPublish, HeadIs
  <1>3. ASSUME NEW v \in Way, NEW u \in User
        PROVE  /\ Single(v, u)' /\ Apiece(v, u)'
               /\ Started(v, u)' \/ Acted(v, u)' => \A m \in Node :
                    view'[m][u] # v /\ ~SaidBy(v, m, u)' /\ ~Heard(v, m, u)'
    <2>1. Single(v, u) /\ Apiece(v, u)
      BY DEF OnceInv, OneToken
    <2>2. /\ \A m \in Node : AtMostOne(cmdq'[m], CmdToken(v, u))
          /\ \A m \in Node : Pending(v, u, m)' => Pending(v, u, m)
      BY <1>2, <2>1, CmdTaken
    <2>3. \A m \in Node : /\ AtMostOne(replyq'[m], RepToken(v, u))
                          /\ Decided(v, u, m)' <=> Decided(v, u, m)
      BY <1>2, <2>1 DEF Single, Decided, Rep, RepToken
    <2>4. Single(v, u)'
      BY <2>2, <2>3 DEF Single, CmdToken, RepToken
    <2>5. Apiece(v, u)'
      BY <2>1, <2>2, <2>3 DEF Apiece
    <2>6. /\ Started(v, u)' <=> Started(v, u)
          /\ Acted(v, u)' <=> Acted(v, u)
          /\ SaidBy(w, n, x)
          /\ \A m \in Node :
               /\ SaidBy(v, m, u)' => SaidBy(v, m, u)
               /\ Heard(v, m, u)' <=> Heard(v, m, u) \/ (m # n /\ v = w /\ u = x)
      BY <1>1, SayEffect
    <2>7. ASSUME Started(v, u)' \/ Acted(v, u)', NEW m \in Node
          PROVE  view'[m][u] # v /\ ~SaidBy(v, m, u)' /\ ~Heard(v, m, u)'
      <3>1. /\ view[m][u] # v /\ ~SaidBy(v, m, u) /\ ~Heard(v, m, u)
            /\ ~SaidBy(v, n, u)
        BY <2>6, <2>7 DEF OnceInv, News
      <3> QED
        BY <1>2, <2>6, <3>1
    <2> QED
      BY <2>4, <2>5, <2>7
  <1> QED
    BY <1>3 DEF OnceInv, OneToken, News

LEMMA AskReplyOnce ==
    ASSUME CalmInv, OnceInv, NEW n \in Node, OnIncrReply(n) \/ OnDecrReply(n)
    PROVE  OnceInv'
  <1> USE DEF CalmInv, Truthful
  <1>0. PICK w \in Way :
          /\ Head(replyq[n]).op = Asks(w)
          /\ IF Turns(w, Head(replyq[n]).count)
             THEN Issue(n, Acts(w), Head(replyq[n]).sock) ELSE UNCHANGED cmdq
    BY AskReplyForm
  <1>1. /\ replyq[n] # <<>> /\ Resume(n) /\ UNCHANGED <<inbox, view>> /\ inbox' = inbox
    BY DEF OnIncrReply, OnDecrReply, ReplyIs
  <1> DEFINE h == Head(replyq[n])
             turns == Turns(w, h.count)
  <1>2. h \in Reply /\ h.sock \in Socket /\ UserOf[h.sock] \in User
    BY <1>1, QueueTail, ReplyType DEF TypeOK
  <1>3. PICK s \in Socket, x \in User : s = h.sock /\ x = UserOf[s]
    BY <1>2
  <1>4. ASSUME NEW v \in Way, NEW u \in User
        PROVE  /\ Single(v, u)' /\ Apiece(v, u)'
               /\ Started(v, u)' \/ Acted(v, u)' => \A m \in Node :
                    view'[m][u] # v /\ ~SaidBy(v, m, u)' /\ ~Heard(v, m, u)'
    <2>1. Single(v, u) /\ Apiece(v, u)
      BY DEF OnceInv, OneToken
    <2>2. /\ \A m \in Node : AtMostOne(replyq'[m], RepToken(v, u))
          /\ \A m \in Node : Decided(v, u, m)' => Decided(v, u, m)
          /\ h \in RepToken(v, u) => Decided(v, u, n) /\ ~Decided(v, u, n)'
      BY <1>1, <2>1, RepTaken
    <2>3. turns /\ v = w /\ u = x => h \in RepToken(v, u)
      BY <1>0, <1>2, <1>3 DEF RepToken
    <2>4. [op |-> Acts(w), sock |-> s] \in CmdToken(v, u) => v = w /\ u = x
      BY <1>3, OpNames DEF CmdToken
    <2>5. /\ \A m \in Node : AtMostOne(cmdq'[m], CmdToken(v, u))
          /\ \A m \in Node : Pending(v, u, m)' =>
               Pending(v, u, m) \/ (m = n /\ v = w /\ u = x /\ turns)
      <3>1. CASE turns
        <4>1. Issue(n, Acts(w), s) /\ Acts(w) \in Ops
          BY <1>0, <1>3, <3>1, OpNames
        <4>2. v = w /\ u = x => ~Pending(v, u, n)
          BY <2>1, <2>2, <2>3, <3>1 DEF Apiece
        <4> QED
          BY <2>1, <2>4, <3>1, <4>1, <4>2, CmdIssued
      <3>2. CASE ~turns
        <4>1. cmdq' = cmdq
          BY <1>0, <3>2
        <4> QED
          BY <2>1, <4>1 DEF Single, Pending, Cmd, CmdToken
      <3> QED
        BY <3>1, <3>2
    <2> HIDE DEF h, turns
    <2>6. Single(v, u)'
      BY <2>2, <2>5 DEF Single, CmdToken, RepToken
    <2>7. Apiece(v, u)'
      BY <2>1, <2>2, <2>3, <2>5 DEF Apiece
    <2>8. /\ Started(v, u)' <=> Started(v, u)
          /\ Acted(v, u)' <=> Acted(v, u)
          /\ \A m \in Node : /\ SaidBy(v, m, u)' <=> SaidBy(v, m, u)
                             /\ Heard(v, m, u)' <=> Heard(v, m, u)
      BY <1>0, <1>1, AskReplyEffect
    <2>9. Started(v, u)' \/ Acted(v, u)' => \A m \in Node :
            view'[m][u] # v /\ ~SaidBy(v, m, u)' /\ ~Heard(v, m, u)'
      BY <1>1, <2>8 DEF OnceInv, News
    <2> QED
      BY <2>6, <2>7, <2>9
  <1> QED
    BY <1>4 DEF OnceInv, OneToken, News

LEMMA ActReplyOnce ==
    ASSUME CalmInv, OnceInv, NEW n \in Node, OnDelReply(n) \/ OnOfflineReply(n)
    PROVE  OnceInv'
  <1> USE DEF CalmInv, Truthful
  <1>1. replyq[n] # <<>> /\ Resume(n) /\ inbox' = inbox
    BY DEF OnDelReply, OnOfflineReply, ReplyIs
  <1>2. PICK x \in User, s \in Socket : s = Head(replyq[n]).sock /\ x = UserOf[s]
    BY <1>1, ReplyType
  <1>3. PICK w \in Way : /\ Head(replyq[n]).op = Acts(w)
                         /\ Issue(n, Says(w), Head(replyq[n]).sock)
                         /\ view' = [view EXCEPT ![n][x] = w]
    BY <1>2, ActReplyForm
  <1>4. Head(replyq[n]) \in RepToken(w, x)
    <2>1. Head(replyq[n]) \in Reply
      BY <1>1, QueueTail DEF TypeOK
    <2> QED
      BY <1>2, <1>3, <2>1 DEF RepToken
  <1>5. \A m \in Node, u \in User : view'[m][u] = IF m = n /\ u = x THEN w ELSE view[m][u]
    BY <1>3 DEF TypeOK
  <1>6. ASSUME NEW v \in Way, NEW u \in User
        PROVE  /\ Single(v, u)' /\ Apiece(v, u)'
               /\ Started(v, u)' \/ Acted(v, u)' => \A m \in Node :
                    view'[m][u] # v /\ ~SaidBy(v, m, u)' /\ ~Heard(v, m, u)'
    <2>1. Single(v, u) /\ Apiece(v, u)
      BY DEF OnceInv, OneToken
    <2>2. /\ \A m \in Node : AtMostOne(replyq'[m], RepToken(v, u))
          /\ \A m \in Node : Decided(v, u, m)' => Decided(v, u, m)
          /\ v = w /\ u = x => Decided(v, u, n) /\ ~Decided(v, u, n)'
      BY <1>1, <1>4, <2>1, RepTaken
    <2>3. [op |-> Says(w), sock |-> s] \notin CmdToken(v, u)
      BY OpNames DEF CmdToken
    <2>4. /\ \A m \in Node : AtMostOne(cmdq'[m], CmdToken(v, u))
          /\ \A m \in Node : Pending(v, u, m)' => Pending(v, u, m)
      <3>1. Issue(n, Says(w), s) /\ Says(w) \in Ops
        BY <1>2, <1>3, OpNames
      <3> QED
        BY <2>1, <2>3, <3>1, CmdIssued
    <2>5. Single(v, u)'
      BY <2>2, <2>4 DEF Single, CmdToken, RepToken
    <2>6. Apiece(v, u)'
      BY <2>1, <2>2, <2>4 DEF Apiece
    <2>7. v = w /\ u = x => ~Started(v, u)' /\ ~Acted(v, u)'
      <3>1. v = w /\ u = x => \A m \in Node : ~Pending(v, u, m)' /\ ~Decided(v, u, m)'
        BY <2>1, <2>2, <2>4 DEF Apiece
      <3>2. TypeOK'
        BY StepType DEF Next, EventLoop
      <3>3. \A m \in Node : Cmd(m)' \subseteq Command /\ Rep(m)' \subseteq Reply
        BY <3>2, SetType DEF TypeOK, Cmd, Rep
      <3> QED
        BY <3>1, <3>3 DEF Started, Acted, Pending, Decided, CmdToken, RepToken
    <2>8. /\ Started(v, u)' <=> Started(v, u)
          /\ Acted(v, u)' => Acted(v, u)
          /\ \A m \in Node :
               /\ SaidBy(v, m, u)' <=> SaidBy(v, m, u) \/ (m = n /\ v = w /\ u = x)
               /\ Heard(v, m, u)' <=> Heard(v, m, u)
      BY <1>1, <1>2, <1>3, ActReplyEffect
    <2>9. ASSUME Started(v, u)' \/ Acted(v, u)', NEW m \in Node
          PROVE  view'[m][u] # v /\ ~SaidBy(v, m, u)' /\ ~Heard(v, m, u)'
      <3>1. ~(v = w /\ u = x)
        BY <2>7, <2>9
      <3>2. view[m][u] # v /\ ~SaidBy(v, m, u) /\ ~Heard(v, m, u)
        BY <2>8, <2>9 DEF OnceInv, News
      <3> QED
        BY <1>5, <2>8, <3>1, <3>2
    <2> QED
      BY <2>5, <2>6, <2>9
  <1> QED
    BY <1>6 DEF OnceInv, OneToken, News

LEMMA HearOnce ==
    ASSUME CalmInv, OnceInv, NEW n \in Node, Receive(n)
    PROVE  OnceInv'
  <1> USE DEF CalmInv, Truthful
  <1>1. PICK w \in Way, x \in User : /\ Head(inbox[n]) = Notice(w, x)
                                     /\ view' = [view EXCEPT ![n][x] = w]
    BY HearForm
  <1>2. \A m \in Node, u \in User : view'[m][u] = IF m = n /\ u = x THEN w ELSE view[m][u]
    BY <1>1 DEF TypeOK
  <1>3. OneToken'
    <2>1. cmdq' = cmdq /\ replyq' = replyq
      BY DEF Receive
    <2>2. \A v \in Way, u \in User : Single(v, u)' <=> Single(v, u)
      BY <2>1 DEF Single, CmdToken, RepToken
    <2>3. \A v \in Way, u \in User, m \in Node :
            (Pending(v, u, m)' <=> Pending(v, u, m)) /\ (Decided(v, u, m)' <=> Decided(v, u, m))
      BY <2>1 DEF Pending, Decided, Cmd, Rep, CmdToken, RepToken
    <2>4. \A v \in Way, u \in User : Apiece(v, u)' <=> Apiece(v, u)
      BY <2>3 DEF Apiece
    <2> QED
      BY <2>2, <2>4 DEF OnceInv, OneToken
  <1>4. ASSUME NEW v \in Way, NEW u \in User, Started(v, u)' \/ Acted(v, u)', NEW m \in Node
        PROVE  view'[m][u] # v /\ ~SaidBy(v, m, u)' /\ ~Heard(v, m, u)'
    <2>1. /\ Started(v, u)' <=> Started(v, u)
          /\ Acted(v, u)' <=> Acted(v, u)
          /\ Heard(w, n, x)
          /\ \A l \in Node :
               /\ SaidBy(v, l, u)' <=> SaidBy(v, l, u)
               /\ Heard(v, l, u)' => Heard(v, l, u)
      BY <1>1, HearEffect
    <2>2. \A l \in Node : view[l][u] # v /\ ~SaidBy(v, l, u) /\ ~Heard(v, l, u)
      BY <1>4, <2>1 DEF OnceInv, News
    <2> QED
      BY <1>2, <2>1, <2>2
  <1> QED
    BY <1>3, <1>4 DEF OnceInv, News

LEMMA PlugOnce ==
    ASSUME CalmInv, OnceInv, NEW s \in Socket, Connect(s) \/ Disconnect(s)
    PROVE  OnceInv'
  <1> USE DEF CalmInv, Truthful
  <1>1. PICK w \in Way : Issue(home[s], Asks(w), s)
    <2>1. Issue(home[s], Asks("online"), s) \/ Issue(home[s], Asks("offline"), s)
      BY DEF Connect, Disconnect, Asks
    <2> QED
      BY <2>1 DEF Way
  <1>2. UNCHANGED <<replyq, inbox, view>> /\ replyq' = replyq /\ view' = view
    BY DEF Connect, Disconnect
  <1>3. PICK n \in Node : n = home[s]
    BY DEF TypeOK
  <1>4. ASSUME NEW v \in Way, NEW u \in User
        PROVE  /\ Single(v, u)' /\ Apiece(v, u)'
               /\ Started(v, u)' \/ Acted(v, u)' => \A m \in Node :
                    view'[m][u] # v /\ ~SaidBy(v, m, u)' /\ ~Heard(v, m, u)'
    <2>1. Single(v, u) /\ Apiece(v, u)
      BY DEF OnceInv, OneToken
    <2>2. [op |-> Asks(w), sock |-> s] \notin CmdToken(v, u)
      BY OpNames DEF CmdToken
    <2>3. /\ \A m \in Node : AtMostOne(cmdq'[m], CmdToken(v, u))
          /\ \A m \in Node : Pending(v, u, m)' => Pending(v, u, m)
      <3>1. Issue(n, Asks(w), s) /\ Asks(w) \in Ops
        BY <1>1, <1>3, OpNames
      <3> QED
        BY <2>1, <2>2, <3>1, CmdIssued
    <2>4. \A m \in Node : /\ AtMostOne(replyq'[m], RepToken(v, u))
                          /\ Decided(v, u, m)' <=> Decided(v, u, m)
      BY <1>2, <2>1 DEF Single, Decided, Rep, RepToken
    <2>5. Single(v, u)'
      BY <2>3, <2>4 DEF Single, CmdToken, RepToken
    <2>6. Apiece(v, u)'
      BY <2>1, <2>3, <2>4 DEF Apiece
    <2>7. /\ Started(v, u)' <=> Started(v, u)
          /\ Acted(v, u)' <=> Acted(v, u)
          /\ \A m \in Node : /\ SaidBy(v, m, u)' <=> SaidBy(v, m, u)
                             /\ Heard(v, m, u)' <=> Heard(v, m, u)
      BY <1>1, <1>2, PlugEffect
    <2>8. Started(v, u)' \/ Acted(v, u)' => \A m \in Node :
            view'[m][u] # v /\ ~SaidBy(v, m, u)' /\ ~Heard(v, m, u)'
      BY <1>2, <2>7 DEF OnceInv, News
    <2> QED
      BY <2>5, <2>6, <2>8
  <1> QED
    BY <1>4 DEF OnceInv, OneToken, News

LEMMA OnceInit == Init => OnceInv
  <1> SUFFICES ASSUME Init PROVE OnceInv
    OBVIOUS
  <1>1. \A n \in Node : /\ Len(cmdq[n]) = 0 /\ Len(replyq[n]) = 0
                        /\ Cmd(n) = {} /\ Rep(n) = {}
    BY EmptySeq, SetEmpty DEF Init, Cmd, Rep
  <1>2. OneToken
    BY <1>1 DEF OneToken, Single, Apiece, Pending, Decided, AtMostOne
  <1>3. News
    BY <1>1 DEF News, Started, Acted
  <1> QED
    BY <1>2, <1>3 DEF OnceInv

LEMMA OnceStep == CalmInv /\ OnceInv /\ (CalmNext \/ UNCHANGED vars) => OnceInv'
  <1> SUFFICES ASSUME CalmInv, OnceInv, CalmNext \/ UNCHANGED vars PROVE OnceInv'
    OBVIOUS
  <1>1. CASE UNCHANGED vars
    <2>1. cmdq' = cmdq /\ replyq' = replyq /\ inbox' = inbox /\ view' = view
      BY <1>1 DEF vars
    <2>2. \A v \in Way, u \in User :
            /\ Single(v, u)' <=> Single(v, u)
            /\ Apiece(v, u)' <=> Apiece(v, u)
      BY <2>1 DEF Single, CmdToken, RepToken, Apiece, Pending, Decided, Cmd, Rep
    <2>3. News'
      BY <2>1 DEF OnceInv, News, Started, Acted, SaidBy, Heard, Cmd, Rep, Evt
    <2> QED
      BY <2>2, <2>3 DEF OnceInv, OneToken
  <1>2. CASE CalmNext
    BY <1>2, AskOnce, ActOnce, PublishOnce, AskReplyOnce, ActReplyOnce, HearOnce, PlugOnce
    DEF CalmNext, CalmSockets, CalmSocket, Redis, EventLoop
  <1> QED
    BY <1>1, <1>2

LEMMA Once == ClientSpec => [](CalmInv /\ OnceInv)
  <1>1. ClientInit => OnceInv
    BY OnceInit DEF ClientInit
  <1>2. CalmInv /\ OnceInv /\ [ClientNext]_all => OnceInv'
    BY NextIsCalm, OnceStep DEF all, vars
  <1> QED
    BY <1>1, <1>2, Calm, PTL DEF ClientSpec

LEMMA ActedIsNews ==
    ASSUME CalmInv, OnceInv, NEW n \in Node, NEW w \in Way, replyq[n] # <<>>,
           Head(replyq[n]).op = Acts(w)
    PROVE  view[n][UserOf[Head(replyq[n]).sock]] # w
  <1>1. PICK x \in User : x = UserOf[Head(replyq[n]).sock]
    <2>1. Head(replyq[n]) \in Reply
      BY QueueTail DEF CalmInv, TypeOK
    <2> QED
      BY <2>1, UserOfAssumption DEF Reply
  <1>2. Head(replyq[n]) \in Rep(n)
    BY SetTail DEF CalmInv, TypeOK, Rep
  <1>3. Acted(w, x)
    BY <1>1, <1>2 DEF Acted
  <1> QED
    BY <1>1, <1>3 DEF OnceInv, News

\* However many tabs open or close together, on whichever nodes, a coming or
\* going is announced once: no node repeats to its listeners what they were
\* told last.
THEOREM ToldOnce == ClientSpec => AnnouncedOnce
  <1> DEFINE New == \A n \in Node :
               /\ OnDelReply(n) => view[n][UserOf[Head(replyq[n]).sock]] # "online"
               /\ OnOfflineReply(n) => view[n][UserOf[Head(replyq[n]).sock]] # "offline"
  <1>1. CalmInv /\ OnceInv => New
    <2> SUFFICES ASSUME CalmInv, OnceInv, NEW n \in Node
                 PROVE  /\ OnDelReply(n) => view[n][UserOf[Head(replyq[n]).sock]] # "online"
                        /\ OnOfflineReply(n) => view[n][UserOf[Head(replyq[n]).sock]] # "offline"
      OBVIOUS
    <2>1. "online" \in Way /\ "offline" \in Way /\ Acts("online") = "del" /\ Acts("offline") = "offline"
      BY DEF Way, Acts
    <2> QED
      BY <2>1, ActedIsNews DEF OnDelReply, OnOfflineReply, ReplyIs
  <1>2. CalmInv /\ OnceInv => [New]_vars
    BY <1>1
  <1> QED
    BY <1>2, Once, PTL DEF AnnouncedOnce

-----------------------------------------------------------------------------
(* The fold.  An entry need not be right as long as its correction has not  *)
(* reached the node of the tab: the event will follow it on the wire.       *)

Fits(e, u) ==
    /\ Here(u) => e = "online" \/ Coming("online", At, u)
    /\ ~Here(u) /\ Been(u) => e = "seen" \/ Coming("offline", At, u)
    /\ ~Here(u) /\ ~Been(u) => e = "unseen"

\* The same of a count, before lastSeen is read.
FitsCount(e, u) ==
    /\ Here(u) => e = "online" \/ Coming("online", At, u)
    /\ ~Here(u) /\ Been(u) => e = "unseen" \/ Coming("offline", At, u)
    /\ ~Here(u) /\ ~Been(u) => e = "unseen"

About(u) == {e \in Event : e.user = u}
EntryOf(e) == IF e.online THEN "online" ELSE "seen"
Silent(u) == ToSet(wire) \cap About(u) = {}

\* What the answer f will make of u, should it become the entry, fits: of a
\* user it does not list the tab goes on showing what it shows of one never seen.
Brings(f, u) ==
    /\ f.pc \in {"listed", "counted", "read", "merged"} /\ f.got[u] = "none" => Fits("unseen", u)
    /\ f.pc = "counted" /\ f.got[u] # "none" => FitsCount(f.got[u], u)
    /\ f.pc = "read" /\ f.got[u] # "none" => Fits(f.got[u], u)

\* What the tab will show of u, should nothing more be sent, fits.
Folds(u) ==
    /\ \A e \in LastIn(wire, About(u)) : Fits(EntryOf(e), u)
    /\ Silent(u) /\ presence[u] # "none" => Fits(presence[u], u)
    /\ Silent(u) /\ presence[u] = "none" => Brings(fetch[logins], u)

\* Before the tab joins the room it has nothing that could be out of date.
SessionInv ==
    /\ logged => logins \in Session
    /\ ~joined => wire = <<>>
    /\ joined => logged
    /\ ~joined => \A u \in User \ missed :
         /\ presence[u] = "none"
         /\ logged /\ fetch[logins].pc \in {"counted", "read", "merged"} =>
              fetch[logins].got[u] = "none"
    /\ \A i \in Session, u \in User :
         /\ fetch[i].pc = "listed" => fetch[i].got[u] \in {"unseen", "none"}
         /\ fetch[i].pc = "merged" => fetch[i].got[u] = "none"

Watching(u) == logged /\ joined /\ u \notin missed
MapInv == \A u \in User : Watching(u) => Folds(u)

FoldInv == SessionInv /\ MapInv

\* Who has a socket is registered.
Signed == \A s \in Socket : phase[s] # "new" => UserOf[s] \in registered

LEMMA StrangerIsAway ==
    ASSUME CalmInv, Signed, NEW u \in User, u \notin registered
    PROVE  Fits("unseen", u)
  <1>1. \A s \in counted : s \in Socket /\ phase[s] # "new"
    <2> SUFFICES ASSUME NEW s \in counted PROVE s \in Socket /\ phase[s] # "new"
      OBVIOUS
    <2>1. s \in Socket
      BY DEF CalmInv, TypeOK
    <2> QED
      BY <2>1 DEF CalmInv, QueueInv, SocketInv
  <1> QED
    BY <1>1 DEF Signed, Fits, Here, Been, CountedOf, SocketsOf

LEMMA SignedStep == TypeOK /\ Signed /\ [ClientNext]_all => Signed'
  <1> SUFFICES ASSUME TypeOK, Signed, [ClientNext]_all PROVE Signed'
    OBVIOUS
  <1>1. CASE UNCHANGED phase /\ registered \subseteq registered'
    BY <1>1 DEF Signed
  <1>2. CASE Sockets
    <2>1. PICK s \in Socket : UserOf[s] \in registered /\ CalmSocket(s)
      BY <1>2 DEF Sockets
    <2>2. \A x \in Socket : x # s => phase'[x] = phase[x]
      BY <2>1 DEF CalmSocket, Connect, Disconnect, TypeOK
    <2>3. registered' = registered
      BY <1>2 DEF Sockets, tab
    <2> QED
      BY <2>1, <2>2, <2>3 DEF Signed
  <1>3. CASE Emits(At)
    <2>1. PICK w \in Way, u \in User : Push(u, w = "online") /\ UNCHANGED phase
      BY <1>3, EmitsEvent
    <2> QED
      BY <1>1, <2>1 DEF Push
  <1>4. CASE /\ UNCHANGED tab
             /\ \/ \E n \in Node : Redis(n) \/ OnIncrReply(n) \/ OnDecrReply(n)
                \/ \E n \in Node \ {At} : OnDelReply(n) \/ OnOfflineReply(n) \/ Receive(n)
    <2>1. ASSUME NEW n \in Node, Redis(n) PROVE phase' = phase
      BY <2>1 DEF Redis, ExecIncr, ExecDecr, ExecDel, ExecOffline, ExecPublish
    <2>2. ASSUME NEW n \in Node, OnIncrReply(n) \/ OnDecrReply(n) \/ OnDelReply(n)
                                \/ OnOfflineReply(n) \/ Receive(n)
          PROVE  phase' = phase
      BY <2>2 DEF OnIncrReply, OnDecrReply, OnDelReply, OnOfflineReply, Receive
    <2>3. registered' = registered
      BY <1>4 DEF tab
    <2> QED
      BY <1>1, <1>4, <2>1, <2>2, <2>3
  <1>5. ASSUME NEW u \in User, Register(u) PROVE Signed'
    BY <1>1, <1>5 DEF Register, vars
  <1>6. CASE Tab
    <2>1. UNCHANGED vars /\ registered' = registered
      BY <1>6 DEF Tab, Login, Logout, Join, Drop, Hear, ReadUsers, ReadCounts, ReadLastSeen,
         Merge, Fail
    <2> QED
      BY <1>1, <2>1 DEF vars
  <1>7. CASE UNCHANGED all
    BY <1>1, <1>7 DEF all, vars, tab
  <1> QED
    BY <1>2, <1>3, <1>4, <1>5, <1>6, <1>7 DEF ClientNext, Others

LEMMA FitsOnward ==
    ASSUME NEW u \in User, Onward(At, u), NEW e
    PROVE  (Fits(e, u) => Fits(e, u)') /\ (FitsCount(e, u) => FitsCount(e, u)')
  BY DEF Onward, Fits, FitsCount, Way

LEMMA BringsOnward ==
    ASSUME NEW u \in User, Onward(At, u), NEW f, Brings(f, u)
    PROVE  Brings(f, u)'
  BY FitsOnward DEF Brings

LEMMA OthersOnward ==
    ASSUME CalmInv, NEW u \in User,
           \/ CalmSockets
           \/ \E n \in Node : Redis(n) \/ OnIncrReply(n) \/ OnDecrReply(n)
           \/ \E n \in Node \ {At} : OnDelReply(n) \/ OnOfflineReply(n) \/ Receive(n)
    PROVE  Onward(At, u)
  <1> USE AtAssumption
  <1>1. CASE CalmSockets
    BY <1>1, ConnectKeeps, DisconnectKeeps DEF CalmSockets, CalmSocket
  <1>2. ASSUME NEW n \in Node, Redis(n) \/ OnIncrReply(n) \/ OnDecrReply(n)
        PROVE  Onward(At, u)
    BY <1>2, IncrKeeps, DecrKeeps, DelKeeps, OfflineKeeps, PublishKeeps, AskReplyKeeps DEF Redis
  <1>3. ASSUME NEW n \in Node \ {At}, OnDelReply(n) \/ OnOfflineReply(n) \/ Receive(n)
        PROVE  Onward(At, u)
    <2>1. OnwardBut(n)
      BY <1>3, ActReplyKeeps, HearKeeps
    <2> QED
      BY <2>1 DEF OnwardBut
  <1> QED
    BY <1>1, <1>2, <1>3

LEMMA SameOnward ==
    ASSUME UNCHANGED vars, NEW u \in User
    PROVE  Onward(At, u)
  <1>1. Here(u)' = Here(u) /\ Been(u)' = Been(u)
    BY DEF vars, Here, Been, CountedOf, SocketsOf
  <1>2. \A v \in Way : Coming(v, At, u)' = Coming(v, At, u)
    BY DEF vars, Coming, Started, Acted, SaidBy, Heard, Cmd, Rep, Evt
  <1> QED
    BY <1>1, <1>2 DEF Onward

\* The step is none of the tab's, and its node emits nothing.
LEMMA OthersFold ==
    ASSUME FoldInv, \A u \in User : Onward(At, u),
           UNCHANGED <<logged, logins, joined, wire, fetch, presence, missed>>
    PROVE  FoldInv'
  <1>1. SessionInv'
    BY DEF FoldInv, SessionInv
  <1>2. ASSUME NEW u \in User, Watching(u)'
        PROVE  Folds(u)'
    <2>1. Folds(u) /\ Onward(At, u)
      BY <1>2 DEF FoldInv, MapInv, Watching
    <2>2. Silent(u)' = Silent(u) /\ About(u)' = About(u)
      BY DEF Silent, About
    <2>3. \A e \in LastIn(wire, About(u)) : Fits(EntryOf(e), u)'
      BY <2>1, FitsOnward DEF Folds
    <2>4. Silent(u) /\ presence[u] # "none" => Fits(presence[u], u)'
      <3>1. PICK p : p = presence[u]
        OBVIOUS
      <3> QED
        BY <2>1, <2>2, <3>1, FitsOnward DEF Folds
    <2>5. PICK f : f = fetch[logins]
      OBVIOUS
    <2>6. Silent(u) /\ presence[u] = "none" => Brings(f, u)'
      BY <2>1, <2>5, BringsOnward DEF Folds
    <2> QED
      BY <2>2, <2>3, <2>4, <2>5, <2>6 DEF Folds
  <1> QED
    BY <1>1, <1>2 DEF FoldInv, MapInv

\* What the node of the tab emits is so, and nothing else is lost by it.
LEMMA EmitsIsSo ==
    ASSUME CalmInv, Emits(At)
    PROVE  \E w \in Way, x \in User :
             /\ Push(x, w = "online")
             /\ w = "online" <=> Here(x)'
             /\ w = "offline" => Been(x)'
             /\ \A u \in User : u # x => Onward(At, u)
  <1> USE AtAssumption
  <1>1. PICK w \in Way, x \in User :
          /\ Push(x, w = "online") /\ view' = [view EXCEPT ![At][x] = w]
          /\ UNCHANGED <<phase, counts, lastSeen, counted>>
          /\ \/ /\ replyq[At] # <<>> /\ Resume(At) /\ inbox' = inbox
                /\ Head(replyq[At]).op = Acts(w) /\ UserOf[Head(replyq[At]).sock] = x
                /\ Issue(At, Says(w), Head(replyq[At]).sock)
             \/ Receive(At) /\ Head(inbox[At]) = Notice(w, x)
    BY EmitsEvent DEF CalmInv
  <1>2. ASSUME NEW v \in Way, NEW u \in User
        PROVE  /\ Turning(w, x)
               /\ Coming(v, At, u) => Coming(v, At, u)' \/ (v = w /\ u = x)
    <2>1. CASE /\ replyq[At] # <<>> /\ Resume(At) /\ inbox' = inbox
               /\ Head(replyq[At]).op = Acts(w) /\ UserOf[Head(replyq[At]).sock] = x
               /\ Issue(At, Says(w), Head(replyq[At]).sock)
      <3>1. /\ Started(v, u)' <=> Started(v, u)
            /\ Acted(v, u) => Acted(v, u)' \/ (v = w /\ u = x)
            /\ Acted(w, x)
            /\ \A m \in Node :
                 /\ SaidBy(v, m, u)' <=> SaidBy(v, m, u) \/ (m = At /\ v = w /\ u = x)
                 /\ Heard(v, m, u)' <=> Heard(v, m, u)
        <4>1. TypeOK
          BY DEF CalmInv
        <4> QED
          BY <2>1, <4>1, ActReplyEffect
      <3> QED
        BY <3>1 DEF Turning, Coming
    <2>2. CASE Receive(At) /\ Head(inbox[At]) = Notice(w, x)
      <3>1. /\ Started(v, u)' <=> Started(v, u)
            /\ Acted(v, u)' <=> Acted(v, u)
            /\ Heard(w, At, x)
            /\ \A m \in Node :
                 /\ SaidBy(v, m, u)' <=> SaidBy(v, m, u)
                 /\ Heard(v, m, u) => Heard(v, m, u)' \/ (m = At /\ v = w /\ u = x)
        <4>1. TypeOK
          BY DEF CalmInv
        <4> QED
          BY <2>2, <4>1, HearEffect
      <3> QED
        BY <3>1 DEF Turning, Coming
    <2> QED
      BY <1>1, <2>1, <2>2
  <1>3. \A u \in User : (Here(u)' <=> Here(u)) /\ (Been(u)' <=> Been(u))
    BY <1>1 DEF Here, Been, CountedOf, SocketsOf
  <1>4. (w = "online" <=> Here(x)) /\ (w = "offline" => Been(x))
    <2>1. Turning(w, x)
      BY <1>2
    <2> QED
      BY <2>1, TurningFlies DEF CalmInv, Truthful, Consistent, LeftBehind
  <1>5. \A u \in User : u # x => Onward(At, u)
    BY <1>2, <1>3 DEF Onward
  <1> QED
    BY <1>1, <1>3, <1>4, <1>5

LEMMA EmitsFold ==
    ASSUME CalmInv, TabTypeOK, FoldInv, Emits(At)
    PROVE  FoldInv'
  <1>1. PICK w \in Way, x \in User :
          /\ Push(x, w = "online")
          /\ w = "online" <=> Here(x)'
          /\ w = "offline" => Been(x)'
          /\ \A u \in User : u # x => Onward(At, u)
    BY EmitsIsSo
  <1>2. PICK a \in Event : a = [user |-> x, online |-> (w = "online")]
    <2>1. [user |-> x, online |-> (w = "online")] \in Event
      BY DEF Event
    <2> QED
      BY <2>1
  <1>3. /\ UNCHANGED <<logged, logins, joined, fetch, presence, missed>>
        /\ wire' = IF joined THEN Append(wire, a) ELSE wire
    BY <1>1, <1>2 DEF Push
  <1>4. SessionInv'
    BY <1>3 DEF FoldInv, SessionInv
  <1>5. ASSUME NEW u \in User, Watching(u)'
        PROVE  Folds(u)'
    <2>1. Folds(u) /\ joined
      BY <1>3, <1>5 DEF FoldInv, MapInv, Watching
    <2>2. wire \in Seq(Event) /\ wire' = Append(wire, a)
      BY <1>3, <2>1 DEF TabTypeOK
    <2>3. ToSet(wire') = ToSet(wire) \cup {a}
      BY <2>2, SetAppend
    <2>4. a \in About(u) <=> u = x
      BY <1>2 DEF About
    <2>5. \A e \in LastIn(wire', About(u)) :
            IF u = x THEN e = a ELSE e \in LastIn(wire, About(u))
      <3>1. PICK T : T = About(u)
        OBVIOUS
      <3>2. \A e \in LastIn(Append(wire, a), T) :
              IF a \in T THEN e = a ELSE e \in LastIn(wire, T)
        BY <2>2, LastAppend
      <3> QED
        BY <2>2, <2>4, <3>1, <3>2
    <2>6. About(u)' = About(u)
      BY DEF About
    <2>7. CASE u = x
      <3>1. ~Silent(u)'
        BY <2>3, <2>4, <2>6, <2>7 DEF Silent
      <3>2. Fits(EntryOf(a), u)'
        <4>1. EntryOf(a) = IF w = "online" THEN "online" ELSE "seen"
          BY <1>2 DEF EntryOf
        <4>2. w = "online" \/ w = "offline"
          BY DEF Way
        <4> QED
          BY <1>1, <2>7, <4>1, <4>2 DEF Fits
      <3>3. \A e \in LastIn(wire', About(u)) : Fits(EntryOf(e), u)'
        BY <2>5, <2>7, <3>2
      <3> QED
        BY <1>3, <2>1, <2>6, <3>1, <3>3 DEF Folds
    <2>8. CASE u # x
      <3>1. Onward(At, u)
        BY <1>1, <2>8
      <3>2. Silent(u)' <=> Silent(u)
        BY <2>3, <2>4, <2>6, <2>8 DEF Silent
      <3>3. \A e \in LastIn(wire', About(u)) : Fits(EntryOf(e), u)'
        BY <2>1, <2>5, <2>8, <3>1, FitsOnward DEF Folds
      <3>4. Silent(u) /\ presence[u] # "none" => Fits(presence[u], u)'
        <4>1. PICK p : p = presence[u] /\ p = presence'[u]
          BY <1>3
        <4> QED
          BY <2>1, <3>1, <4>1, FitsOnward DEF Folds
      <3>5. PICK f : f = fetch[logins] /\ f = fetch'[logins']
        BY <1>3
      <3>6. Silent(u) /\ presence[u] = "none" => Brings(f, u)'
        BY <2>1, <3>1, <3>5, BringsOnward DEF Folds
      <3> QED
        BY <1>3, <2>6, <3>2, <3>3, <3>4, <3>5, <3>6 DEF Folds
    <2> QED
      BY <2>7, <2>8
  <1> QED
    BY <1>4, <1>5 DEF FoldInv, MapInv

\* The sockets and the counter stay as they are, and the map too.
LEMMA MapKept ==
    ASSUME FoldInv, UNCHANGED <<vars, logins, wire, presence>>,
           \A u \in User : Watching(u)' =>
             /\ Watching(u)
             /\ Silent(u) /\ presence[u] = "none" => Brings(fetch'[logins], u)
    PROVE  MapInv'
  <1> SUFFICES ASSUME NEW u \in User, Watching(u)' PROVE Folds(u)'
    BY DEF MapInv
  <1>1. Folds(u) /\ Onward(At, u)
    BY SameOnward DEF FoldInv, MapInv
  <1>2. (Silent(u)' <=> Silent(u)) /\ About(u)' = About(u)
    BY DEF Silent, About
  <1>3. \A e \in LastIn(wire, About(u)) : Fits(EntryOf(e), u)'
    BY <1>1, FitsOnward DEF Folds
  <1>4. Silent(u) /\ presence[u] # "none" => Fits(presence[u], u)'
    <2>1. PICK p : p = presence[u]
      OBVIOUS
    <2> QED
      BY <1>1, <2>1, FitsOnward DEF Folds
  <1>5. PICK f : f = fetch'[logins]
    OBVIOUS
  <1>6. Silent(u) /\ presence[u] = "none" => Brings(f, u)'
    BY <1>1, <1>5, BringsOnward
  <1> QED
    BY <1>2, <1>3, <1>4, <1>5, <1>6 DEF Folds

\* The request of another session, and the answer keeps the map.
LEMMA OtherRequest ==
    ASSUME FoldInv, NEW i \in Session, \A k \in Session : k # i => fetch'[k] = fetch[k],
           UNCHANGED <<vars, logged, logins, joined, wire, presence>>, missed \subseteq missed',
           \A u \in User : Watching(u) /\ i = logins /\ Folds(u) /\ Silent(u) /\ presence[u] = "none"
                             => Brings(fetch'[i], u)
    PROVE  MapInv'
  <1> SUFFICES ASSUME NEW u \in User, Watching(u)'
               PROVE  /\ Watching(u)
                      /\ Silent(u) /\ presence[u] = "none" => Brings(fetch'[logins], u)
    BY MapKept
  <1>1. Watching(u) /\ logins \in Session
    BY DEF Watching, FoldInv, SessionInv
  <1>2. CASE i = logins
    BY <1>1, <1>2 DEF FoldInv, MapInv
  <1>3. CASE i # logins
    BY <1>1, <1>3 DEF FoldInv, MapInv, Folds
  <1> QED
    BY <1>1, <1>2, <1>3

LEMMA SessionFold ==
    ASSUME CalmInv, TabTypeOK, Signed, FoldInv, Login \/ Logout \/ Join \/ Drop
    PROVE  FoldInv'
  <1> USE MaxLoginsAssumption DEF FoldInv, SessionInv
  <1>1. CASE Login
    <2>1. logins + 1 \in Session /\ fetch'[logins + 1].pc = "sent"
      BY <1>1 DEF Login, Session, TabTypeOK
    <2>2. \A i \in Session : i # logins + 1 => fetch'[i] = fetch[i]
      BY <1>1 DEF Login, TabTypeOK
    <2>3. \A u \in User : u \notin missed' => presence'[u] = "none"
      BY <1>1 DEF Login
    <2>4. SessionInv'
      BY <1>1, <2>1, <2>2, <2>3 DEF Login
    <2> QED
      BY <1>1, <2>4 DEF Login, MapInv, Watching
  <1>2. CASE Logout
    BY <1>2 DEF Logout, MapInv, Watching, Absent
  <1>3. CASE Join
    <2>1. SessionInv'
      BY <1>3 DEF Join
    <2>2. ASSUME NEW u \in User, Watching(u)' PROVE Folds(u)'
      <3>1. wire' = <<>> /\ presence'[u] = "none" /\ UNCHANGED vars
        BY <1>3, <2>2 DEF Join, Watching
      <3>2. LastIn(wire', About(u)) = {} /\ About(u)' = About(u)
        BY <3>1, LastEmpty DEF About
      <3>3. PICK f : f = fetch'[logins'] /\ f = fetch[logins]
        BY <1>3 DEF Join
      <3>4. f.pc \in {"counted", "read", "merged"} => f.got[u] = "none"
        BY <1>3, <2>2, <3>3 DEF Join, Watching
      <3>5. f.pc \in {"listed", "counted", "read", "merged"} /\ f.got[u] = "none" =>
              u \notin registered
        BY <1>3, <2>2, <3>3 DEF Join, Watching, Unlisted
      <3>6. Brings(f, u)
        BY <3>4, <3>5, StrangerIsAway DEF Brings
      <3>7. Brings(f, u)'
        BY <3>1, <3>6, SameOnward, BringsOnward
      <3> QED
        BY <3>1, <3>2, <3>3, <3>7 DEF Folds
    <2> QED
      BY <2>1, <2>2 DEF MapInv
  <1>4. CASE Drop
    BY <1>4 DEF Drop, MapInv, Watching
  <1> QED
    BY <1>1, <1>2, <1>3, <1>4

LEMMA ReadUsersFold ==
    ASSUME CalmInv, TabTypeOK, Signed, FoldInv, NEW i \in Session, ReadUsers(i)
    PROVE  FoldInv'
  <1>1. /\ fetch[i].pc = "sent"
        /\ UNCHANGED <<vars, logged, logins, joined, wire, presence, missed>>
        /\ \A k \in Session : k # i => fetch'[k] = fetch[k]
    BY DEF ReadUsers, Step, TabTypeOK
  <1>2. /\ fetch'[i].pc = IF registered = {} THEN "read" ELSE "listed"
        /\ \A u \in User : fetch'[i].got[u] = IF u \in registered THEN "unseen" ELSE "none"
    BY DEF ReadUsers, Step, TabTypeOK
  <1>3. SessionInv'
    BY <1>1, <1>2 DEF FoldInv, SessionInv
  <1>4. ASSUME NEW u \in User PROVE Brings(fetch'[i], u)
    BY <1>2, StrangerIsAway DEF Brings
  <1>5. MapInv'
    BY <1>1, <1>4, OtherRequest
  <1> QED
    BY <1>3, <1>5 DEF FoldInv

LEMMA ReadCountsFold ==
    ASSUME CalmInv, TabTypeOK, FoldInv, NEW i \in Session, ReadCounts(i)
    PROVE  FoldInv'
  <1>1. /\ fetch[i].pc = "listed"
        /\ UNCHANGED <<vars, logged, logins, joined, wire, presence>>
        /\ missed' = IF i = logins /\ logged /\ ~joined
                     THEN missed \cup (User \ Unlisted(i)) ELSE missed
        /\ \A k \in Session : k # i => fetch'[k] = fetch[k]
    BY DEF ReadCounts, Step, TabTypeOK
  <1>2. /\ fetch'[i].pc = "counted"
        /\ \A u \in User : fetch'[i].got[u] =
             IF fetch[i].got[u] = "unseen" /\ counts[u] > 0
             THEN "online" ELSE fetch[i].got[u]
    BY DEF ReadCounts, Step, TabTypeOK
  <1>3. \A u \in User : fetch[i].got[u] \in {"unseen", "none"}
    BY <1>1 DEF FoldInv, SessionInv
  <1>4. i = logins /\ logged /\ ~joined => \A u \in User \ missed' : fetch[i].got[u] = "none"
    BY <1>1 DEF Unlisted
  <1>5. SessionInv'
    BY <1>1, <1>2, <1>4 DEF FoldInv, SessionInv
  <1>6. ASSUME NEW u \in User, i = logins, Folds(u), Silent(u), presence[u] = "none"
        PROVE  Brings(fetch'[i], u)
    <2>1. Brings(fetch[i], u)
      BY <1>6 DEF Folds
    <2>2. fetch'[i].got[u] = "none" => Fits("unseen", u)
      BY <1>1, <1>2, <2>1 DEF Brings
    <2>3. fetch'[i].got[u] # "none" => FitsCount(fetch'[i].got[u], u)
      BY <1>2, <1>3, HereCounts DEF FitsCount, CalmInv, Truthful
    <2> QED
      BY <1>2, <2>2, <2>3 DEF Brings
  <1>7. MapInv'
    BY <1>1, <1>6, OtherRequest
  <1> QED
    BY <1>5, <1>7 DEF FoldInv

LEMMA ReadLastSeenFold ==
    ASSUME CalmInv, TabTypeOK, FoldInv, NEW i \in Session, ReadLastSeen(i)
    PROVE  FoldInv'
  <1>1. /\ fetch[i].pc = "counted"
        /\ UNCHANGED <<vars, logged, logins, joined, wire, presence, missed>>
        /\ \A k \in Session : k # i => fetch'[k] = fetch[k]
    BY DEF ReadLastSeen, Step, TabTypeOK
  <1>2. /\ fetch'[i].pc = "read"
        /\ \A u \in User : fetch'[i].got[u] = IF fetch[i].got[u] = "unseen" /\ u \in lastSeen
                                               THEN "seen" ELSE fetch[i].got[u]
    BY DEF ReadLastSeen, Step, TabTypeOK
  <1>3. SessionInv'
    BY <1>1, <1>2 DEF FoldInv, SessionInv
  <1>4. ASSUME NEW u \in User, i = logins, Folds(u), Silent(u), presence[u] = "none"
        PROVE  Brings(fetch'[i], u)
    <2>1. Brings(fetch[i], u)
      BY <1>4 DEF Folds
    <2>2. Started("offline", u) => Coming("offline", At, u)
      BY DEF Coming
    <2>3. FitsCount(fetch[i].got[u], u) => Fits(fetch'[i].got[u], u)
      BY <1>2, <2>2 DEF FitsCount, Fits, CalmInv, Truthful, Recorded
    <2> QED
      BY <1>1, <1>2, <2>1, <2>3 DEF Brings
  <1>5. MapInv'
    BY <1>1, <1>4, OtherRequest
  <1> QED
    BY <1>3, <1>5 DEF FoldInv

LEMMA FailFold ==
    ASSUME TabTypeOK, FoldInv, NEW i \in Session, Fail(i)
    PROVE  FoldInv'
  <1>1. /\ fetch'[i].pc = "failed"
        /\ UNCHANGED <<vars, logged, logins, joined, wire, presence, missed>>
        /\ \A k \in Session : k # i => fetch'[k] = fetch[k]
    BY DEF Fail, TabTypeOK
  <1>2. SessionInv'
    BY <1>1 DEF FoldInv, SessionInv
  <1>3. \A u \in User : Brings(fetch'[i], u)
    BY <1>1 DEF Brings
  <1>4. MapInv'
    BY <1>1, <1>3, OtherRequest
  <1> QED
    BY <1>2, <1>4 DEF FoldInv

\* What the answer brings fits, for who has no entry yet.
LEMMA MergeFold ==
    ASSUME TabTypeOK, FoldInv, NEW i \in Session, Merge(i)
    PROVE  FoldInv'
  <1>1. /\ fetch[i].pc = "read" /\ fetch'[i].pc = "merged"
        /\ \A u \in User : fetch'[i].got[u] = "none"
        /\ UNCHANGED <<vars, logged, logins, joined, wire>>
        /\ \A k \in Session : k # i => fetch'[k] = fetch[k]
    BY DEF Merge, Step, TabTypeOK, Absent
  <1>2. \A u \in User : presence'[u] = IF presence[u] # "none" THEN presence[u]
                                        ELSE fetch[i].got[u]
    BY DEF Merge, Merged
  <1>3. missed' = IF i = logins /\ logged THEN missed
                  ELSE missed \cup {u \in User : presence'[u] # presence[u]}
    BY DEF Merge
  <1>4. SessionInv'
    <2>1. ASSUME ~joined, NEW u \in User \ missed' PROVE presence'[u] = "none"
      BY <1>1, <1>2, <1>3, <2>1 DEF FoldInv, SessionInv
    <2> QED
      BY <1>1, <1>3, <2>1 DEF FoldInv, SessionInv
  <1>5. ASSUME NEW u \in User, Watching(u)' PROVE Folds(u)'
    <2>1. Watching(u) /\ logins \in Session
      BY <1>1, <1>3, <1>5 DEF Watching, FoldInv, SessionInv
    <2>2. Folds(u) /\ Onward(At, u)
      BY <1>1, <2>1, SameOnward DEF FoldInv, MapInv
    <2>3. (Silent(u)' <=> Silent(u)) /\ About(u)' = About(u)
      BY <1>1 DEF Silent, About
    <2>4. \A e \in LastIn(wire, About(u)) : Fits(EntryOf(e), u)'
      BY <2>2, FitsOnward DEF Folds
    <2>5. PICK p : p = presence'[u]
      OBVIOUS
    <2>6. Silent(u) /\ p # "none" => Fits(p, u)
      BY <1>1, <1>2, <1>3, <1>5, <2>1, <2>2, <2>5 DEF Folds, Brings, Watching
    <2>7. Silent(u) /\ p # "none" => Fits(p, u)'
      BY <2>2, <2>6, FitsOnward
    <2>8. PICK f : f = fetch'[logins] /\ f = fetch'[logins']
      BY <1>1
    <2>9. Silent(u) /\ p = "none" => Brings(f, u)
      <3>1. p = "none" => presence[u] = "none"
        BY <1>2, <2>5
      <3>2. CASE i # logins
        BY <1>1, <2>1, <2>2, <2>8, <3>1, <3>2 DEF Folds
      <3>3. CASE i = logins
        <4>1. Silent(u) /\ p = "none" => Fits("unseen", u)
          BY <1>1, <1>2, <2>2, <2>5, <3>1, <3>3 DEF Folds, Brings
        <4> QED
          BY <1>1, <2>8, <3>3, <4>1 DEF Brings
      <3> QED
        BY <3>2, <3>3
    <2>10. Silent(u) /\ p = "none" => Brings(f, u)'
      BY <2>2, <2>9, BringsOnward
    <2> QED
      BY <1>1, <2>3, <2>4, <2>5, <2>7, <2>8, <2>10 DEF Folds
  <1> QED
    BY <1>4, <1>5 DEF FoldInv, MapInv

\* The last event about a user fits, so what it writes does.
LEMMA HearFold ==
    ASSUME TabTypeOK, FoldInv, Hear
    PROVE  FoldInv'
  <1>1. /\ wire # <<>> /\ wire \in Seq(Event) /\ wire' = Tail(wire)
        /\ UNCHANGED <<vars, logged, logins, joined, fetch, missed>>
    BY DEF Hear, TabTypeOK
  <1>2. PICK a \in Event : a = Head(wire)
    BY <1>1, QueueTail
  <1>3. \A u \in User : presence'[u] = IF u = a.user THEN EntryOf(a) ELSE presence[u]
    BY <1>2 DEF Hear, TabTypeOK, EntryOf
  <1>4. joined
    BY <1>1 DEF FoldInv, SessionInv
  <1>5. SessionInv'
    BY <1>1, <1>4 DEF FoldInv, SessionInv
  <1>6. ASSUME NEW u \in User, Watching(u)' PROVE Folds(u)'
    <2>1. Folds(u) /\ Onward(At, u)
      BY <1>1, <1>6, SameOnward DEF FoldInv, MapInv, Watching
    <2>2. PICK T : T = About(u)
      OBVIOUS
    <2>3. a \in T <=> u = a.user
      BY <2>2 DEF About
    <2>4. /\ LastIn(Tail(wire), T) \subseteq LastIn(wire, T)
          /\ a \in T /\ ToSet(Tail(wire)) \cap T = {} => a \in LastIn(wire, T)
      BY <1>1, <1>2, LastTail
    <2>5. ToSet(wire) = ToSet(Tail(wire)) \cup {a}
      BY <1>1, <1>2, SetSplit
    <2>6. Silent(u)' <=> ToSet(Tail(wire)) \cap T = {}
      BY <1>1, <2>2 DEF Silent, About
    <2>7. Silent(u) <=> Silent(u)' /\ u # a.user
      BY <2>2, <2>3, <2>5, <2>6 DEF Silent
    <2>8. \A e \in LastIn(Tail(wire), T) : Fits(EntryOf(e), u)'
      BY <2>1, <2>2, <2>4, FitsOnward DEF Folds
    <2>9. Silent(u)' /\ presence'[u] # "none" => Fits(presence'[u], u)
      BY <1>3, <2>1, <2>2, <2>3, <2>4, <2>6, <2>7 DEF Folds
    <2>10. PICK p : p = presence'[u]
      OBVIOUS
    <2>11. Silent(u)' /\ p # "none" => Fits(p, u)'
      BY <2>1, <2>9, <2>10, FitsOnward
    <2>12. presence'[u] = "none" => presence[u] = "none" /\ u # a.user
      BY <1>3 DEF EntryOf
    <2>13. PICK f : f = fetch[logins]
      OBVIOUS
    <2>14. Silent(u)' /\ presence'[u] = "none" => Brings(f, u)'
      BY <2>1, <2>7, <2>12, <2>13, BringsOnward DEF Folds
    <2>15. About(u)' = T
      BY <2>2 DEF About
    <2> QED
      BY <1>1, <2>8, <2>10, <2>11, <2>13, <2>14, <2>15 DEF Folds
  <1> QED
    BY <1>5, <1>6 DEF FoldInv, MapInv

LEMMA FoldInit == ClientInit => FoldInv /\ Signed
  BY DEF ClientInit, Init, TabInit, FoldInv, SessionInv, MapInv, Watching, Absent, Signed

LEMMA FoldStep == CalmInv /\ TabTypeOK /\ Signed /\ FoldInv /\ [ClientNext]_all => FoldInv'
  <1> SUFFICES ASSUME CalmInv, TabTypeOK, Signed, FoldInv, [ClientNext]_all PROVE FoldInv'
    OBVIOUS
  <1>1. CASE Emits(At)
    BY <1>1, EmitsFold
  <1>2. CASE UNCHANGED tab /\ \A u \in User : Onward(At, u)
    BY <1>2, OthersFold DEF tab
  <1>3. CASE Login \/ Logout \/ Join \/ Drop
    BY <1>3, SessionFold
  <1>4. CASE Hear
    BY <1>4, HearFold
  <1>5. ASSUME NEW i \in Session,
               ReadUsers(i) \/ ReadCounts(i) \/ ReadLastSeen(i) \/ Merge(i) \/ Fail(i)
        PROVE  FoldInv'
    BY <1>5, ReadUsersFold, ReadCountsFold, ReadLastSeenFold, MergeFold, FailFold
  <1>6. ASSUME Others, ~Emits(At)
        PROVE  UNCHANGED tab /\ \A u \in User : Onward(At, u)
    <2>1. UNCHANGED tab
      BY <1>6 DEF Others, Sockets
    <2>2. \/ CalmSockets
          \/ \E n \in Node : Redis(n) \/ OnIncrReply(n) \/ OnDecrReply(n)
          \/ \E n \in Node \ {At} : OnDelReply(n) \/ OnOfflineReply(n) \/ Receive(n)
      BY <1>6 DEF Others, Sockets, CalmSockets
    <2> QED
      BY <2>1, <2>2, OthersOnward
  <1>7. ASSUME NEW x \in User, Register(x) PROVE FoldInv'
    <2>1. UNCHANGED <<vars, logged, logins, joined, wire, fetch, presence, missed>>
      BY <1>7 DEF Register
    <2>2. \A u \in User : Onward(At, u)
      BY <2>1, SameOnward
    <2> QED
      BY <2>1, <2>2, OthersFold
  <1>8. CASE UNCHANGED all
    BY <1>8, SameOnward, <1>2 DEF all
  <1> QED
    BY <1>1, <1>2, <1>3, <1>4, <1>5, <1>6, <1>7, <1>8 DEF ClientNext, Tab

LEMMA Fold == ClientSpec => [](CalmInv /\ TabTypeOK /\ FoldInv)
  <1>1. CalmInv => TypeOK
    BY DEF CalmInv
  <1> QED
    BY <1>1, Calm, TabTypeCorrect, FoldInit, SignedStep, FoldStep, PTL DEF ClientSpec

LEMMA FoldFits == CalmInv /\ TabTypeOK /\ FoldInv => FoldIsTruth
  <1> SUFFICES ASSUME CalmInv, TabTypeOK, FoldInv, NEW u \in User, Watching(u),
                      ~(presence[u] = "none" /\ fetch[logins].pc # "merged"), ~Corrected(u)
               PROVE  Status(u) = Truth(u)
    BY DEF FoldIsTruth, Watching
  <1>1. Silent(u)
    <2>1. ToSet(wire) = {wire[i] : i \in DOMAIN wire}
      BY DEF ToSet
    <2> QED
      BY <2>1 DEF Silent, About, Corrected
  <1>2. Folds(u)
    BY DEF FoldInv, MapInv
  <1>3. Fits(Status(u), u)
    <2>1. CASE presence[u] # "none"
      BY <1>1, <1>2, <2>1 DEF Folds, Status
    <2>2. CASE presence[u] = "none"
      <3>1. fetch[logins].pc = "merged" /\ fetch[logins].got[u] = "none"
        BY <2>2 DEF FoldInv, SessionInv, Watching
      <3> QED
        BY <1>1, <1>2, <2>2, <3>1 DEF Folds, Brings, Status
    <2> QED
      BY <2>1, <2>2
  <1>4. "online" \in Way /\ "offline" \in Way /\ At \in Node
    BY AtAssumption DEF Way
  <1>5. ~Flying("online", u) /\ ~Flying("offline", u)
    BY FlyingIsInFlight DEF Corrected, CalmInv
  <1>6. ~Coming("online", At, u) /\ ~Coming("offline", At, u)
    BY <1>4, <1>5, ComingTurns, TurningFlies
  <1>7. Here(u) <=> \E s \in SocketsOf(u) : phase[s] = "open"
    BY <1>5, HereIsOpen
  <1>8. Truth(u) = IF Here(u) THEN "online" ELSE IF Been(u) THEN "seen" ELSE "unseen"
    BY <1>7 DEF Truth, Been
  <1> QED
    BY <1>3, <1>6, <1>8 DEF Fits

\* The map of a tab that was in the room before the counts were read, and has
\* stayed, shows each user as they are, or has the correction on the way to it:
\* whichever of snapshot and live events comes first, whatever came or went
\* between the two reads of Redis, and whoever registered once the tab was in the
\* room, whether or not the list of users the answer is about was read by then.
THEOREM FoldTellsTheTruth == ClientSpec => []FoldIsTruth
  BY Fold, FoldFits, PTL
=============================================================================
