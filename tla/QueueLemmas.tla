---------------------------- MODULE QueueLemmas ----------------------------
(* Facts about FIFO queues: sequences changed by Append, Tail and SubSeq.  *)
EXTENDS Integers, SequencesExt, TLAPS, SequenceTheorems

\* What Append and Tail do to a queue, element by element.
LEMMA QueueAppend ==
    ASSUME NEW S, NEW q \in Seq(S), NEW x \in S
    PROVE  /\ Append(q, x) \in Seq(S)
           /\ Len(q) \in Nat
           /\ Len(Append(q, x)) = Len(q) + 1
           /\ Append(q, x)[Len(q) + 1] = x
           /\ \A i \in 1..Len(q) : Append(q, x)[i] = q[i]
  BY AppendProperties, LenProperties

LEMMA QueueTail ==
    ASSUME NEW S, NEW q \in Seq(S), q # <<>>
    PROVE  /\ Tail(q) \in Seq(S)
           /\ Len(q) \in Nat \ {0}
           /\ Len(Tail(q)) = Len(q) - 1
           /\ Head(q) = q[1]
           /\ Head(q) \in S
           /\ \A i \in 1..(Len(q) - 1) : Tail(q)[i] = q[i + 1]
  BY HeadTailProperties, EmptySeq, LenProperties

LEMMA QueuePrefix ==
    ASSUME NEW S, NEW q \in Seq(S), NEW k \in 0..Len(q)
    PROVE  /\ SubSeq(q, 1, k) \in Seq(S)
           /\ Len(SubSeq(q, 1, k)) = k
           /\ \A i \in 1..k : SubSeq(q, 1, k)[i] = q[i]
  BY SubSeqProperties, LenProperties, ElementOfSeq

\* The elements of a queue after an append and after taking the head.
LEMMA SetAppend ==
    ASSUME NEW S, NEW q \in Seq(S), NEW x \in S
    PROVE  ToSet(Append(q, x)) = ToSet(q) \cup {x}
  <1>1. /\ DOMAIN q = 1..Len(q)
        /\ DOMAIN Append(q, x) = 1..(Len(q) + 1)
    BY QueueAppend, LenProperties
  <1> QED
    BY <1>1, QueueAppend DEF ToSet

LEMMA SetTail ==
    ASSUME NEW S, NEW q \in Seq(S), q # <<>>
    PROVE  ToSet(Tail(q)) \subseteq ToSet(q) /\ Head(q) \in ToSet(q)
  <1>1. /\ DOMAIN q = 1..Len(q)
        /\ DOMAIN Tail(q) = 1..(Len(q) - 1)
    BY QueueTail, LenProperties
  <1> QED
    BY <1>1, QueueTail DEF ToSet

LEMMA SetSplit ==
    ASSUME NEW S, NEW q \in Seq(S), q # <<>>
    PROVE  ToSet(q) = ToSet(Tail(q)) \cup {Head(q)}
  <1>1. /\ DOMAIN q = 1..Len(q) /\ Len(q) \in Nat \ {0}
        /\ DOMAIN Tail(q) = 1..(Len(q) - 1)
        /\ Head(q) = q[1]
        /\ \A i \in 1..(Len(q) - 1) : Tail(q)[i] = q[i + 1]
    BY QueueTail, LenProperties
  <1>2. ASSUME NEW i \in 1..Len(q)
        PROVE  q[i] \in ToSet(Tail(q)) \cup {Head(q)}
    <2>1. CASE i > 1
      <3>1. i - 1 \in 1..(Len(q) - 1) /\ Tail(q)[i - 1] = q[i]
        BY <1>1, <2>1
      <3> QED
        BY <1>1, <3>1 DEF ToSet
    <2> QED
      BY <1>1, <2>1
  <1> QED
    BY <1>1, <1>2, SetTail DEF ToSet

LEMMA SetType ==
    ASSUME NEW S, NEW q \in Seq(S)
    PROVE  ToSet(q) \subseteq S
  BY LenProperties, ElementOfSeq DEF ToSet

LEMMA SetEmpty == ToSet(<<>>) = {}
  BY DEF ToSet

\* At most one element of a queue is in T: what Append and Tail do to that.
AtMostOne(q, T) == \A i, j \in 1..Len(q) : q[i] \in T /\ q[j] \in T => i = j

LEMMA OneAppend ==
    ASSUME NEW S, NEW q \in Seq(S), NEW x \in S, NEW T, AtMostOne(q, T),
           x \in T => ToSet(q) \cap T = {}
    PROVE  AtMostOne(Append(q, x), T)
  <1>1. /\ Len(q) \in Nat /\ Len(Append(q, x)) = Len(q) + 1
        /\ Append(q, x)[Len(q) + 1] = x
        /\ \A i \in 1..Len(q) : Append(q, x)[i] = q[i]
    BY QueueAppend
  <1>2. \A i \in 1..Len(q) : q[i] \in ToSet(q)
    BY LenProperties DEF ToSet
  <1> QED
    BY <1>1, <1>2 DEF AtMostOne

LEMMA OneTail ==
    ASSUME NEW S, NEW q \in Seq(S), q # <<>>, NEW T, AtMostOne(q, T)
    PROVE  /\ AtMostOne(Tail(q), T)
           /\ Head(q) \in T => ToSet(Tail(q)) \cap T = {}
  <1>1. /\ Len(q) \in Nat \ {0} /\ Len(Tail(q)) = Len(q) - 1 /\ Head(q) = q[1]
        /\ \A i \in 1..(Len(q) - 1) : Tail(q)[i] = q[i + 1]
    BY QueueTail
  <1>2. DOMAIN Tail(q) = 1..(Len(q) - 1)
    BY <1>1, QueueTail, LenProperties
  <1>3. \A i \in 1..(Len(q) - 1) : i + 1 \in 1..Len(q) /\ i + 1 # 1
    BY <1>1
  <1>4. AtMostOne(Tail(q), T)
    <2> SUFFICES ASSUME NEW i \in 1..(Len(q) - 1), NEW j \in 1..(Len(q) - 1),
                        Tail(q)[i] \in T, Tail(q)[j] \in T
                 PROVE  i = j
      BY <1>1 DEF AtMostOne
    <2>1. q[i + 1] \in T /\ q[j + 1] \in T
      BY <1>1
    <2>2. i + 1 = j + 1
      BY <1>3, <2>1 DEF AtMostOne
    <2> QED
      BY <2>2
  <1>5. ASSUME Head(q) \in T, NEW i \in 1..(Len(q) - 1), Tail(q)[i] \in T
        PROVE  FALSE
    <2>1. q[i + 1] \in T /\ q[1] \in T /\ 1 \in 1..Len(q)
      BY <1>1, <1>5
    <2> QED
      BY <1>3, <2>1 DEF AtMostOne
  <1> QED
    BY <1>2, <1>4, <1>5 DEF ToSet

\* The last element of a queue that is in T, if there is one.
LastIn(q, T) ==
    {q[i] : i \in {k \in 1..Len(q) : q[k] \in T /\ \A j \in 1..Len(q) : j > k => q[j] \notin T}}

LEMMA LastAppend ==
    ASSUME NEW S, NEW q \in Seq(S), NEW x \in S, NEW T, NEW e \in LastIn(Append(q, x), T)
    PROVE  IF x \in T THEN e = x ELSE e \in LastIn(q, T)
  <1> DEFINE p == Append(q, x)
  <1>1. /\ Len(q) \in Nat /\ Len(p) = Len(q) + 1 /\ p[Len(q) + 1] = x
        /\ \A i \in 1..Len(q) : p[i] = q[i]
    BY QueueAppend
  <1> HIDE DEF p
  <1>2. PICK k \in 1..Len(p) : /\ e = p[k] /\ p[k] \in T
                               /\ \A j \in 1..Len(p) : j > k => p[j] \notin T
    BY DEF LastIn, p
  <1>3. CASE k = Len(q) + 1
    BY <1>1, <1>2, <1>3
  <1>4. CASE k # Len(q) + 1
    <2>1. k \in 1..Len(q) /\ Len(q) + 1 \in 1..Len(p) /\ Len(q) + 1 > k
      BY <1>1, <1>4
    <2>2. x \notin T /\ e = q[k] /\ q[k] \in T
      BY <1>1, <1>2, <2>1
    <2>3. \A j \in 1..Len(q) : j > k => q[j] \notin T
      BY <1>1, <1>2
    <2> QED
      BY <2>1, <2>2, <2>3 DEF LastIn
  <1> QED
    BY <1>3, <1>4

LEMMA LastTail ==
    ASSUME NEW S, NEW q \in Seq(S), q # <<>>, NEW T
    PROVE  /\ LastIn(Tail(q), T) \subseteq LastIn(q, T)
           /\ Head(q) \in T /\ ToSet(Tail(q)) \cap T = {} => Head(q) \in LastIn(q, T)
  <1> DEFINE p == Tail(q)
  <1>1. /\ Len(q) \in Nat \ {0} /\ Len(p) = Len(q) - 1 /\ Head(q) = q[1]
        /\ \A i \in 1..(Len(q) - 1) : p[i] = q[i + 1]
    BY QueueTail
  <1>2. ToSet(p) = {p[i] : i \in 1..Len(p)}
    BY QueueTail, LenProperties DEF ToSet
  <1> HIDE DEF p
  <1>3. ASSUME NEW j \in 1..Len(q), j > 1
        PROVE  j - 1 \in 1..Len(p) /\ q[j] = p[j - 1]
    BY <1>1, <1>3
  <1>4. ASSUME NEW k \in 1..Len(p), p[k] \in T,
               \A j \in 1..Len(p) : j > k => p[j] \notin T
        PROVE  p[k] \in LastIn(q, T)
    <2>1. k + 1 \in 1..Len(q) /\ q[k + 1] = p[k]
      BY <1>1
    <2>2. ASSUME NEW j \in 1..Len(q), j > k + 1
          PROVE  q[j] \notin T
      <3>1. j > 1 /\ j - 1 > k
        BY <2>2
      <3> QED
        BY <1>3, <1>4, <3>1
    <2> QED
      BY <1>4, <2>1, <2>2 DEF LastIn
  <1>5. ASSUME Head(q) \in T, ToSet(p) \cap T = {}
        PROVE  Head(q) \in LastIn(q, T)
    <2>1. \A j \in 1..Len(q) : j > 1 => q[j] \notin T
      BY <1>2, <1>3, <1>5
    <2> QED
      BY <1>1, <1>5, <2>1 DEF LastIn
  <1> QED
    BY <1>4, <1>5 DEF LastIn, p

LEMMA LastEmpty == ASSUME NEW T PROVE LastIn(<<>>, T) = {}
  BY EmptySeq DEF LastIn
=============================================================================
