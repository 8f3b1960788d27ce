------------------------- MODULE ConversationProofs -------------------------
(* Theorems about Conversation, for any peers, messages and times.          *)
EXTENDS Conversation, TLAPS, FiniteSetTheorems, QueueLemmas

-----------------------------------------------------------------------------
(* Sorts and filters: what Arrange does for any sequence and any order.     *)

StrictlyOrders(R, I) ==
    /\ \A i \in I : <<i, i>> \notin R
    /\ \A i, j \in I : i # j => <<i, j>> \in R \/ <<j, i>> \in R
    /\ \A i, j, k \in I : <<i, j>> \in R /\ <<j, k>> \in R => <<i, k>> \in R

LEMMA SameInterval ==
    ASSUME NEW m \in Nat, NEW n \in Nat, 1..m = 1..n
    PROVE  m = n
  <1>1. (m > 0 => m \in 1..n) /\ (n > 0 => n \in 1..m)
    OBVIOUS
  <1> QED
    BY <1>1

\* The elements of s at the places in I.
Elements(s, I) == {s[i] : i \in I}

\* The number of elements before it tells each element's place.
Rank(I, R) == [i \in I |-> Cardinality({j \in I : <<j, i>> \in R})]

LEMMA RankGrows ==
    ASSUME NEW I, IsFiniteSet(I), NEW R, StrictlyOrders(R, I), NEW i \in I, NEW j \in I,
           <<i, j>> \in R
    PROVE  Rank(I, R)[i] < Rank(I, R)[j]
  <1> DEFINE A == {k \in I : <<k, i>> \in R}
             B == {k \in I : <<k, j>> \in R}
  <1>1. A \subseteq B /\ i \in B /\ i \notin A
    BY DEF StrictlyOrders
  <1>2. IsFiniteSet(B) /\ IsFiniteSet(A) /\ Cardinality(A) <= Cardinality(B)
        /\ Cardinality(A) # Cardinality(B)
    <2>1. IsFiniteSet(B)
      BY FS_Subset
    <2> HIDE DEF A, B
    <2> QED
      BY <1>1, <2>1, FS_Subset
  <1>3. Cardinality(A) \in Nat /\ Cardinality(B) \in Nat
    BY <1>2, FS_CardinalityType
  <1> QED
    BY <1>2, <1>3 DEF Rank

LEMMA RankBounds ==
    ASSUME NEW I, IsFiniteSet(I), NEW R, StrictlyOrders(R, I), NEW i \in I
    PROVE  Cardinality(I) \in Nat /\ Rank(I, R)[i] \in 0..(Cardinality(I) - 1)
  <1> DEFINE A == {k \in I : <<k, i>> \in R}
  <1>1. A \subseteq I /\ i \notin A
    BY DEF StrictlyOrders
  <1>2. IsFiniteSet(A) /\ Cardinality(A) <= Cardinality(I) /\ Cardinality(A) # Cardinality(I)
    <2> HIDE DEF A
    <2> QED
      BY <1>1, FS_Subset
  <1>3. Cardinality(A) \in Nat /\ Cardinality(I) \in Nat
    BY <1>2, FS_CardinalityType
  <1> QED
    BY <1>2, <1>3 DEF Rank

LEMMA RankIsOnto ==
    ASSUME NEW I, IsFiniteSet(I), NEW R, StrictlyOrders(R, I), NEW k \in 1..Cardinality(I)
    PROVE  \E i \in I : Rank(I, R)[i] = k - 1
  <1> DEFINE T == 0..(Cardinality(I) - 1)
             f == Rank(I, R)
  <1>1. Cardinality(I) \in Nat /\ IsFiniteSet(T) /\ Cardinality(T) = Cardinality(I)
    <2>1. Cardinality(I) \in Nat /\ Cardinality(I) - 1 \in Int
      BY FS_CardinalityType
    <2> QED
      BY <2>1, FS_Interval
  <1>2. f \in [I -> T]
    BY RankBounds DEF Rank
  <1>3. \A i, j \in I : i # j => f[i] # f[j]
    <2> SUFFICES ASSUME NEW i \in I, NEW j \in I, i # j
                 PROVE  f[i] # f[j]
      OBVIOUS
    <2>1. f[i] \in Int /\ f[j] \in Int
      BY <1>1, <1>2
    <2>2. <<i, j>> \in R \/ <<j, i>> \in R
      BY DEF StrictlyOrders
    <2> QED
      BY <2>1, <2>2, RankGrows
  <1>4. f \in Injection(I, T)
    BY <1>2, <1>3 DEF Injection, IsInjective
  <1>5. f \in Surjection(I, T)
    <2> HIDE DEF T, f
    <2> QED
      BY <1>1, <1>4, FS_Injection
  <1>6. k - 1 \in T
    BY <1>1
  <1> QED
    BY <1>5, <1>6 DEF Surjection

\* Arrange puts every element at a place of I once, in the order R.
Placing(I, R) ==
    [k \in 1..Cardinality(I) |-> CHOOSE i \in I : Cardinality({j \in I : <<j, i>> \in R}) = k - 1]

LEMMA PlacingProperties ==
    ASSUME NEW I, IsFiniteSet(I), NEW R, StrictlyOrders(R, I)
    PROVE  LET p == Placing(I, R) IN
           /\ Cardinality(I) \in Nat
           /\ p \in [1..Cardinality(I) -> I]
           /\ \A i \in I : \E k \in 1..Cardinality(I) : p[k] = i
           /\ \A k, l \in 1..Cardinality(I) : k < l => <<p[k], p[l]>> \in R
           /\ \A k, l \in 1..Cardinality(I) : <<p[k], p[l]>> \in R => k < l
  <1> DEFINE p == Placing(I, R)
             n == Cardinality(I)
  <1>1. n \in Nat
    BY FS_CardinalityType
  <1>2. ASSUME NEW k \in 1..n
        PROVE  p[k] \in I /\ Rank(I, R)[p[k]] = k - 1
    <2>1. p[k] = CHOOSE i \in I : Cardinality({j \in I : <<j, i>> \in R}) = k - 1
      BY DEF Placing
    <2>2. \E i \in I : Cardinality({j \in I : <<j, i>> \in R}) = k - 1
      BY RankIsOnto DEF Rank
    <2>3. p[k] \in I /\ Cardinality({j \in I : <<j, p[k]>> \in R}) = k - 1
      BY <2>1, <2>2
    <2> QED
      BY <2>3 DEF Rank
  <1>3. \A i, j \in I : Rank(I, R)[i] = Rank(I, R)[j] => i = j
    <2> SUFFICES ASSUME NEW i \in I, NEW j \in I, i # j
                 PROVE  Rank(I, R)[i] # Rank(I, R)[j]
      OBVIOUS
    <2>1. Rank(I, R)[i] \in Int /\ Rank(I, R)[j] \in Int
      BY <1>1, RankBounds
    <2>2. <<i, j>> \in R \/ <<j, i>> \in R
      BY DEF StrictlyOrders
    <2> QED
      BY <2>1, <2>2, RankGrows
  <1>4. ASSUME NEW i \in I
        PROVE  \E k \in 1..n : p[k] = i
    <2>1. Rank(I, R)[i] + 1 \in 1..n
      BY <1>1, RankBounds
    <2>2. Rank(I, R)[p[Rank(I, R)[i] + 1]] = Rank(I, R)[i] /\ p[Rank(I, R)[i] + 1] \in I
      BY <1>1, <1>2, <2>1, RankBounds
    <2> QED
      BY <1>3, <2>1, <2>2
  <1>5. ASSUME NEW k \in 1..n, NEW l \in 1..n
        PROVE  k < l <=> <<p[k], p[l]>> \in R
    <2>1. p[k] \in I /\ p[l] \in I /\ Rank(I, R)[p[k]] = k - 1 /\ Rank(I, R)[p[l]] = l - 1
      BY <1>2
    <2>2. CASE <<p[k], p[l]>> \in R
      <3>1. Rank(I, R)[p[k]] < Rank(I, R)[p[l]]
        BY <2>1, <2>2, RankGrows
      <3> QED
        BY <1>1, <2>1, <2>2, <3>1
    <2>3. CASE <<p[k], p[l]>> \notin R /\ k < l
      <3>1. p[k] # p[l]
        BY <1>1, <2>1, <2>3
      <3>2. <<p[l], p[k]>> \in R
        BY <2>1, <2>3, <3>1 DEF StrictlyOrders
      <3>3. Rank(I, R)[p[l]] < Rank(I, R)[p[k]]
        BY <2>1, <3>2, RankGrows
      <3> QED
        BY <1>1, <2>1, <2>3, <3>3
    <2> QED
      BY <2>2, <2>3
  <1>6. p \in [1..n -> I]
    <2> DEFINE c(k) == CHOOSE i \in I : Cardinality({j \in I : <<j, i>> \in R}) = k - 1
    <2>1. p = [k \in 1..n |-> c(k)]
      BY DEF Placing
    <2> HIDE DEF p, c, n
    <2>2. \A k \in 1..n : p[k] \in I
      BY <1>2
    <2> QED
      BY <2>1, <2>2
  <1> HIDE DEF p
  <1> QED
    BY <1>1, <1>4, <1>5, <1>6 DEF p

LEMMA ArrangeProperties ==
    ASSUME NEW S, NEW s \in Seq(S), NEW I \in SUBSET (1..Len(s)), NEW R,
           StrictlyOrders(R, I)
    PROVE  LET p == Placing(I, R)
               t == Arrange(s, I, R) IN
           /\ t \in Seq(S) /\ Len(t) = Cardinality(I) /\ Cardinality(I) \in Nat
           /\ DOMAIN t = 1..Cardinality(I)
           /\ \A k \in 1..Cardinality(I) : t[k] = s[p[k]]
           /\ ToSet(t) = Elements(s, I)
  <1> DEFINE p == Placing(I, R)
             t == Arrange(s, I, R)
             n == Cardinality(I)
  <1>1. IsFiniteSet(I) /\ Len(s) \in Nat
    <2>1. Len(s) \in Nat
      BY LenProperties
    <2>2. IsFiniteSet(1..Len(s))
      BY <2>1, FS_Interval
    <2> QED
      BY <2>1, <2>2, FS_Subset
  <1>2. /\ n \in Nat /\ p \in [1..n -> I]
        /\ \A i \in I : \E k \in 1..n : p[k] = i
    BY <1>1, PlacingProperties
  <1>3. t = [k \in 1..n |-> s[p[k]]]
    BY DEF Arrange, Placing
  <1> HIDE DEF p, t, n
  <1>4. t \in [1..n -> S]
    BY <1>2, <1>3, ElementOfSeq
  <1>5. t \in Seq(S) /\ Len(t) = n /\ DOMAIN t = 1..n
    <2>1. t \in Seq(S)
      BY <1>2, <1>4, SeqDef
    <2>2. DOMAIN t = 1..Len(t) /\ Len(t) \in Nat /\ DOMAIN t = 1..n
      BY <1>4, <2>1, LenProperties
    <2>3. Len(t) = n
      BY <1>2, <2>2, SameInterval
    <2> QED
      BY <2>1, <2>2, <2>3
  <1>6. ToSet(t) = Elements(s, I)
    BY <1>2, <1>3 DEF ToSet, Elements
  <1> QED
    BY <1>2, <1>3, <1>5, <1>6 DEF p, t, n

-----------------------------------------------------------------------------
(* What is rendered.                                                        *)

LEMMA Places ==
    ASSUME NEW n \in Nat, NEW I \in SUBSET (1..n)
    PROVE  /\ IsFiniteSet(1..n) /\ Cardinality(1..n) = n
           /\ IsFiniteSet(I) /\ \A i \in I : i \in Int
  <1>1. IsFiniteSet(1..n) /\ Cardinality(1..n) = n
    BY FS_Interval
  <1>2. IsFiniteSet(I)
    BY <1>1, FS_Subset
  <1> QED
    BY <1>1, <1>2

LEMMA InOrderPair ==
    ASSUME NEW I, NEW i \in I, NEW j \in I
    PROVE  <<i, j>> \in InOrder(I) <=> i < j
  BY DEF InOrder

\* A filter keeps what it is told to, in the order it was in.
LEMMA KeptProperties ==
    ASSUME NEW S, NEW s \in Seq(S), NEW I \in SUBSET (1..Len(s))
    PROVE  LET p == Placing(I, InOrder(I))
               n == Cardinality(I)
               t == Kept(s, I) IN
           /\ t \in Seq(S) /\ n \in Nat /\ DOMAIN t = 1..n
           /\ p \in [1..n -> I] /\ \A i \in I : \E k \in 1..n : p[k] = i
           /\ \A k, l \in 1..n : k < l => p[k] < p[l]
           /\ \A k \in 1..n : t[k] = s[p[k]]
           /\ ToSet(t) = Elements(s, I)
  <1>1. Len(s) \in Nat /\ \A i \in I : i \in Int
    BY LenProperties
  <1>2. StrictlyOrders(InOrder(I), I)
    BY <1>1 DEF StrictlyOrders, InOrder
  <1>3. IsFiniteSet(I)
    BY <1>1, Places
  <1> DEFINE p == Placing(I, InOrder(I))
             n == Cardinality(I)
  <1>4. /\ n \in Nat /\ p \in [1..n -> I]
        /\ \A i \in I : \E k \in 1..n : p[k] = i
        /\ \A k, l \in 1..n : k < l => <<p[k], p[l]>> \in InOrder(I)
    BY <1>2, <1>3, PlacingProperties
  <1>5. \A k, l \in 1..n : k < l => p[k] < p[l]
    <2> HIDE DEF p, n
    <2> QED
      BY <1>4 DEF InOrder
  <1> QED
    BY <1>2, <1>4, <1>5, ArrangeProperties DEF Kept

LEMMA KeptType ==
    ASSUME NEW S, NEW s \in Seq(S), NEW I \in SUBSET (1..Len(s)), NEW T,
           \A i \in I : s[i] \in T
    PROVE  Kept(s, I) \in Seq(T)
  <1> DEFINE t == Kept(s, I)
             p == Placing(I, InOrder(I))
             n == Cardinality(I)
  <1>1. /\ t \in Seq(S) /\ n \in Nat /\ DOMAIN t = 1..n
        /\ p \in [1..n -> I]
        /\ \A k \in 1..n : t[k] = s[p[k]]
    BY KeptProperties
  <1>2. t \in [1..n -> S]
    BY <1>1, LenProperties
  <1> HIDE DEF t, p, n
  <1>3. t \in [1..n -> T]
    BY <1>1, <1>2
  <1> QED
    BY <1>1, <1>3, SeqDef DEF t

\* A sort shows the same messages, none before one that is older.
LEMMA ByTimeProperties ==
    ASSUME at \in [Msg -> Nat], NEW s \in Seq(Msg)
    PROVE  LET t == ByTime(s) IN
           /\ t \in Seq(Msg) /\ DOMAIN t = 1..Len(s) /\ ToSet(t) = ToSet(s)
           /\ \A k, l \in 1..Len(s) : k < l => at[t[k]] <= at[t[l]]
  <1> DEFINE D == 1..Len(s)
             R == TimeOrder(s)
             p == Placing(D, R)
             t == ByTime(s)
             f == [i \in D |-> at[s[i]]]
  <1>1. Len(s) \in Nat /\ DOMAIN s = D /\ \A i \in D : s[i] \in Msg
    BY LenProperties, ElementOfSeq
  <1>2. f \in [D -> Nat] /\ \A i \in D : f[i] = at[s[i]]
    BY <1>1
  <1>3. ASSUME NEW i \in D, NEW j \in D
        PROVE  <<i, j>> \in R <=> (f[i] < f[j]) \/ (f[i] = f[j] /\ i < j)
    BY <1>1 DEF TimeOrder
  <1>4. StrictlyOrders(R, D)
    <2>1. \A i \in D : i \in Int /\ f[i] \in Int
      BY <1>1, <1>2
    <2> HIDE DEF D, R, f
    <2>2. \A i \in D : <<i, i>> \notin R
      BY <2>1, <1>3
    <2>3. ASSUME NEW i \in D, NEW j \in D, i # j
          PROVE  <<i, j>> \in R \/ <<j, i>> \in R
      <3>1. i \in Int /\ j \in Int /\ f[i] \in Int /\ f[j] \in Int
        BY <2>1
      <3>2. (f[i] < f[j]) \/ (f[i] = f[j] /\ i < j) \/ (f[j] < f[i]) \/ (f[j] = f[i] /\ j < i)
        BY <2>3, <3>1
      <3> QED
        BY <1>3, <3>2
    <2>4. ASSUME NEW i \in D, NEW j \in D, NEW k \in D, <<i, j>> \in R, <<j, k>> \in R
          PROVE  <<i, k>> \in R
      <3>1. /\ i \in Int /\ j \in Int /\ k \in Int
            /\ f[i] \in Int /\ f[j] \in Int /\ f[k] \in Int
        BY <2>1
      <3>2. /\ (f[i] < f[j]) \/ (f[i] = f[j] /\ i < j)
            /\ (f[j] < f[k]) \/ (f[j] = f[k] /\ j < k)
        BY <1>3, <2>4
      <3>3. (f[i] < f[k]) \/ (f[i] = f[k] /\ i < k)
        BY <3>1, <3>2
      <3> QED
        BY <1>3, <3>3
    <2> QED
      BY <2>2, <2>3, <2>4 DEF StrictlyOrders
  <1>5. IsFiniteSet(D) /\ Cardinality(D) = Len(s)
    BY <1>1, Places
  <1>6. /\ p \in [1..Len(s) -> D]
        /\ \A k, l \in 1..Len(s) : k < l => <<p[k], p[l]>> \in R
    BY <1>4, <1>5, PlacingProperties
  <1>7. t = Arrange(s, D, R)
    BY <1>1 DEF ByTime
  <1>8. /\ t \in Seq(Msg) /\ DOMAIN t = 1..Len(s)
        /\ \A k \in 1..Len(s) : t[k] = s[p[k]]
        /\ ToSet(t) = Elements(s, D)
    <2>1. D \in SUBSET (1..Len(s))
      OBVIOUS
    <2>2. /\ Arrange(s, D, R) \in Seq(Msg) /\ DOMAIN Arrange(s, D, R) = 1..Cardinality(D)
          /\ \A k \in 1..Cardinality(D) : Arrange(s, D, R)[k] = s[Placing(D, R)[k]]
          /\ ToSet(Arrange(s, D, R)) = Elements(s, D)
      <3> HIDE DEF R, D
      <3> QED
        BY <1>4, <2>1, ArrangeProperties
    <2> QED
      BY <1>5, <1>7, <2>2
  <1>9. \A k, l \in 1..Len(s) : k < l => at[t[k]] <= at[t[l]]
    <2> SUFFICES ASSUME NEW k \in 1..Len(s), NEW l \in 1..Len(s), k < l
                 PROVE  at[t[k]] <= at[t[l]]
      OBVIOUS
    <2>1. PICK i \in D, j \in D : i = p[k] /\ j = p[l] /\ <<i, j>> \in R
      BY <1>6
    <2> HIDE DEF p, D, R, t, f
    <2>2. f[i] \in Nat /\ f[j] \in Nat
      BY <1>2
    <2>3. (f[i] < f[j]) \/ (f[i] = f[j] /\ i < j)
      BY <1>3, <2>1
    <2>4. f[i] <= f[j]
      BY <2>2, <2>3
    <2> QED
      BY <1>2, <1>8, <2>1, <2>4
  <1> QED
    BY <1>1, <1>8, <1>9 DEF ToSet, Elements

LEMMA Least ==
    ASSUME NEW n \in Nat, NEW J \in SUBSET (1..n), J # {}
    PROVE  \E j \in J : \A i \in J : j <= i
  <1> DEFINE p == Placing(J, InOrder(J))
  <1>1. IsFiniteSet(J) /\ \A i \in J : i \in Int
    BY Places
  <1>2. StrictlyOrders(InOrder(J), J)
    BY <1>1 DEF StrictlyOrders, InOrder
  <1>3. /\ Cardinality(J) \in Nat /\ p \in [1..Cardinality(J) -> J]
        /\ \A i \in J : \E k \in 1..Cardinality(J) : p[k] = i
        /\ \A k, l \in 1..Cardinality(J) : k < l => <<p[k], p[l]>> \in InOrder(J)
    BY <1>1, <1>2, PlacingProperties
  <1> HIDE DEF p
  <1>4. 1 \in 1..Cardinality(J) /\ p[1] \in J
    <2>1. PICK k \in 1..Cardinality(J) : TRUE
      BY <1>3
    <2> QED
      BY <1>3, <2>1
  <1>5. ASSUME NEW i \in J
        PROVE  p[1] <= i
    <2>1. PICK k \in 1..Cardinality(J) : p[k] = i
      BY <1>3
    <2>2. CASE k = 1
      BY <1>1, <1>4, <2>1, <2>2
    <2>3. CASE k > 1
      <3>1. <<p[1], p[k]>> \in InOrder(J)
        BY <1>3, <1>4, <2>3
      <3> QED
        <4>1. p[1] < p[k] /\ p[1] \in Int /\ p[k] \in Int
          BY <1>1, <1>4, <2>1, <3>1, InOrderPair
        <4> QED
          BY <2>1, <4>1
    <2> QED
      BY <1>3, <2>1, <2>2, <2>3
  <1> QED
    BY <1>4, <1>5

Leaders(t) == {i \in DOMAIN t : i = 1 \/ t[i] # t[i - 1]}

\* Stripping equal neighbours takes no message away.
LEMMA LeadersShow ==
    ASSUME NEW S, NEW t \in Seq(S)
    PROVE  /\ Leaders(t) \in SUBSET (1..Len(t))
           /\ Elements(t, Leaders(t)) = ToSet(t)
  <1>1. Len(t) \in Nat /\ DOMAIN t = 1..Len(t)
    BY LenProperties
  <1>2. ASSUME NEW i \in 1..Len(t)
        PROVE  \E j \in Leaders(t) : t[j] = t[i]
    <2> DEFINE J == {j \in 1..Len(t) : t[j] = t[i]}
    <2>1. PICK j \in J : \A k \in J : j <= k
      <3>1. J \in SUBSET (1..Len(t)) /\ J # {}
        OBVIOUS
      <3> HIDE DEF J
      <3> QED
        BY <1>1, <3>1, Least
    <2>2. j = 1 \/ t[j] # t[j - 1]
      <3>1. j \in 1..Len(t) /\ t[j] = t[i]
        OBVIOUS
      <3>2. CASE j > 1
        <4>1. j - 1 \in 1..Len(t) /\ ~(j <= j - 1)
          BY <1>1, <3>1, <3>2
        <4> QED
          BY <2>1, <3>1, <4>1
      <3> QED
        BY <1>1, <3>1, <3>2
    <2> QED
      BY <1>1, <2>2 DEF Leaders
  <1> QED
    BY <1>1, <1>2 DEF Leaders, ToSet, Elements

LEMMA ThreadIsList ==
    ASSUME at \in [Msg -> Nat], NEW s \in Seq(Msg)
    PROVE  ToSet(Thread(s)) = ToSet(s)
  <1> DEFINE t == ByTime(s)
  <1>1. t \in Seq(Msg) /\ ToSet(t) = ToSet(s)
    BY ByTimeProperties
  <1>2. Thread(s) = Kept(t, Leaders(t))
    BY DEF Thread, Leaders
  <1> HIDE DEF t
  <1>3. /\ Leaders(t) \in SUBSET (1..Len(t))
        /\ Elements(t, Leaders(t)) = ToSet(t)
    BY <1>1, LeadersShow
  <1>4. ToSet(Kept(t, Leaders(t))) = Elements(t, Leaders(t))
    <2> DEFINE L == Leaders(t)
    <2>1. L \in SUBSET (1..Len(t))
      BY <1>3
    <2>2. ToSet(Kept(t, L)) = Elements(t, L)
      <3> HIDE DEF L
      <3> QED
        BY <1>1, <2>1, KeptProperties
    <2> QED
      BY <2>2
  <1> QED
    BY <1>1, <1>2, <1>3, <1>4

\* Two copies in the rendered list are kept apart by a message of the same time.
LEMMA CopiesAreTied ==
    ASSUME at \in [Msg -> Nat], NEW s \in Seq(Msg),
           NEW i \in DOMAIN Thread(s), NEW j \in DOMAIN Thread(s), i < j,
           Thread(s)[i] = Thread(s)[j]
    PROVE  \E k \in DOMAIN Thread(s) : /\ Thread(s)[k] # Thread(s)[i]
                                       /\ at[Thread(s)[k]] = at[Thread(s)[i]]
  <1> DEFINE t == ByTime(s)
             L == Leaders(t)
             p == Placing(L, InOrder(L))
             n == Cardinality(L)
             r == Thread(s)
  <1>1. /\ t \in Seq(Msg) /\ DOMAIN t = 1..Len(s) /\ ToSet(t) = ToSet(s)
        /\ \A k, l \in 1..Len(s) : k < l => at[t[k]] <= at[t[l]]
    BY ByTimeProperties
  <1>2. r = Kept(t, L) /\ ToSet(r) = ToSet(t)
    BY <1>1, ThreadIsList DEF Thread, Leaders
  <1> HIDE DEF t, r
  <1>3. /\ n \in Nat /\ DOMAIN r = 1..n
        /\ p \in [1..n -> L]
        /\ \A k, l \in 1..n : k < l => p[k] < p[l]
        /\ \A k \in 1..n : r[k] = t[p[k]]
    BY <1>1, <1>2, LeadersShow, KeptProperties
  <1>4. i \in 1..n /\ j \in 1..n /\ i < j /\ r[i] = r[j]
    BY <1>3 DEF r
  <1>5. Len(s) \in Nat /\ L \subseteq 1..Len(s)
    BY <1>1, LenProperties DEF Leaders
  <1>6. p[i] \in L /\ p[j] \in L /\ p[i] < p[j] /\ t[p[i]] = t[p[j]] /\ r[i] = t[p[i]]
    BY <1>3, <1>4
  <1> HIDE DEF p
  <1>7. /\ p[i] \in 1..Len(s) /\ p[j] \in 1..Len(s) /\ p[j] - 1 \in 1..Len(s)
        /\ t[p[j] - 1] # t[p[j]]
    BY <1>5, <1>6 DEF Leaders
  <1>8. p[i] < p[j] - 1 /\ p[j] - 1 < p[j]
    BY <1>5, <1>6, <1>7
  <1>9. at[t[p[j] - 1]] = at[t[p[i]]]
    <2>1. at[t[p[i]]] <= at[t[p[j] - 1]] /\ at[t[p[j] - 1]] <= at[t[p[j]]]
      BY <1>1, <1>7, <1>8
    <2>2. t[p[i]] \in Msg /\ t[p[j] - 1] \in Msg
      BY <1>1, <1>7, LenProperties
    <2>3. at[t[p[i]]] \in Nat /\ at[t[p[j] - 1]] \in Nat
      BY <2>2
    <2> QED
      BY <1>6, <2>1, <2>3
  <1>10. PICK k \in DOMAIN r : r[k] = t[p[j] - 1]
    BY <1>1, <1>2, <1>7 DEF ToSet
  <1> QED
    BY <1>6, <1>7, <1>9, <1>10 DEF r

LEMMA ThreadPlaces ==
    ASSUME at \in [Msg -> Nat], NEW s \in Seq(Msg)
    PROVE  \A i, j \in DOMAIN Thread(s) : i # j => i < j \/ j < i
  <1> DEFINE t == ByTime(s)
             L == Leaders(t)
  <1>1. t \in Seq(Msg) /\ Thread(s) = Kept(t, L)
    BY ByTimeProperties DEF Thread, Leaders
  <1> HIDE DEF t
  <1>2. L \in SUBSET (1..Len(t))
    BY <1>1, LeadersShow
  <1> HIDE DEF L
  <1>3. Cardinality(L) \in Nat /\ DOMAIN Kept(t, L) = 1..Cardinality(L)
    BY <1>1, <1>2, KeptProperties
  <1> QED
    BY <1>1, <1>3

-----------------------------------------------------------------------------
(* The inductive invariant.  Copies travel from the rows to the list by way *)
(* of requests and events: what is said of the list must be said of them.   *)

\* A message that the history request of p leaves out: Limit others come first.
Beyond(m, p) == Cardinality({n \in Stored(p) : at[n] <= at[m]}) > Limit

\* Where a message is that no further answer must bring.
Here == wire \cup lost \cup ToSet(list)

\* The outcome of a request is wanted only if its conversation is still open.
Wanted(r) == r.live => r.peer = open

\* Its rows are of its conversation, and what they say is read was read.
Truthful(r) ==
    /\ \A m \in ToSet(r.rows) : PeerOf[m] = r.peer
    /\ ToSet(r.rows) \ r.unread \subseteq readRows

\* What an answer does not bring was, or will be, heard.
Covers(r) ==
    r.live /\ r.answered =>
        \A m \in announced \cap Readable : PeerOf[m] = r.peer =>
            m \in ToSet(r.rows) \cup Here \/ Beyond(m, r.peer)

Requests == \A i \in DOMAIN reqs : Wanted(reqs[i]) /\ Truthful(reqs[i]) /\ Covers(reqs[i])

AnnouncedIsStored == \A m \in announced : at[m] # 0

ListIsRead == ToSet(list) \ Mine \subseteq asked \cup readRows

Covered ==
    ~loading /\ ~failed =>
        \A m \in announced \cap Readable : PeerOf[m] = open =>
            m \in Here \/ Beyond(m, open)

IInv == /\ TypeOK /\ OnlyThisConversation /\ Requests /\ AnnouncedIsStored
        /\ ListIsRead /\ Covered

-----------------------------------------------------------------------------
(* The list of requests.                                                    *)

LEMMA RemoveProperties ==
    ASSUME NEW S, NEW s \in Seq(S), NEW i \in 1..Len(s)
    PROVE  /\ RemoveAt(s, i) \in Seq(S)
           /\ Len(RemoveAt(s, i)) = Len(s) - 1
           /\ \A k \in DOMAIN RemoveAt(s, i) : \E j \in 1..Len(s) : RemoveAt(s, i)[k] = s[j]
  <1> DEFINE a == SubSeq(s, 1, i - 1)
             b == SubSeq(s, i + 1, Len(s))
             n == Len(s)
  <1>1. n \in Nat /\ i \in Int /\ 1 <= i /\ i <= n /\ \A j \in 1..n : s[j] \in S
    BY LenProperties, ElementOfSeq
  <1>2. /\ a \in Seq(S) /\ Len(a) = i - 1
        /\ \A k \in 1..(i - 1) : a[k] = s[k]
    <2>1. i - 1 \in Int /\ 1 \in Int /\ \A j \in 1..(i - 1) : s[j] \in S
      BY <1>1
    <2>2. /\ a \in Seq(S) /\ Len(a) = IF 1 <= i - 1 THEN (i - 1) - 1 + 1 ELSE 0
          /\ \A k \in 1..((i - 1) - 1 + 1) : a[k] = s[1 + k - 1]
      BY <2>1, SubSeqProperties
    <2>3. \A k \in 1..(i - 1) : 1 + k - 1 = k
      OBVIOUS
    <2> HIDE DEF a
    <2> QED
      BY <1>1, <2>2, <2>3
  <1>3. /\ b \in Seq(S) /\ Len(b) = n - i
        /\ \A k \in 1..(n - i) : b[k] = s[i + k]
    <2>1. i + 1 \in Int /\ n \in Int /\ \A j \in (i + 1)..n : s[j] \in S
      BY <1>1
    <2>2. /\ b \in Seq(S) /\ Len(b) = IF i + 1 <= n THEN n - (i + 1) + 1 ELSE 0
          /\ \A k \in 1..(n - (i + 1) + 1) : b[k] = s[(i + 1) + k - 1]
      BY <2>1, SubSeqProperties
    <2>3. \A k \in 1..(n - i) : (i + 1) + k - 1 = i + k
      BY <1>1
    <2> HIDE DEF b, n
    <2> QED
      BY <1>1, <2>2, <2>3
  <1>4. RemoveAt(s, i) = a \o b
    BY DEF RemoveAt
  <1> HIDE DEF a, b, n
  <1>5. /\ a \o b \in Seq(S) /\ Len(a \o b) = Len(a) + Len(b)
        /\ \A k \in 1..(Len(a) + Len(b)) :
             (a \o b)[k] = IF k <= Len(a) THEN a[k] ELSE b[k - Len(a)]
    BY <1>2, <1>3, ConcatProperties
  <1>6. Len(a \o b) = n - 1 /\ DOMAIN (a \o b) = 1..(n - 1)
    BY <1>1, <1>2, <1>3, <1>5, LenProperties
  <1>7. ASSUME NEW k \in 1..(n - 1)
        PROVE  \E j \in 1..n : (a \o b)[k] = s[j]
    <2>1. CASE k <= i - 1
      <3>1. k \in 1..(i - 1) /\ k \in 1..n /\ k \in 1..(Len(a) + Len(b)) /\ k <= Len(a)
        BY <1>1, <1>2, <1>3, <2>1
      <3> QED
        BY <1>2, <1>5, <3>1
    <2>2. CASE k > i - 1
      <3>1. /\ k \in 1..(Len(a) + Len(b)) /\ ~(k <= Len(a))
            /\ k - Len(a) \in 1..(n - i) /\ i + (k - Len(a)) \in 1..n
        BY <1>1, <1>2, <1>3, <2>2
      <3> QED
        BY <1>3, <1>5, <3>1
    <2>3. k <= i - 1 \/ k > i - 1
      BY <1>1
    <2> QED
      BY <2>1, <2>2, <2>3
  <1> QED
    BY <1>4, <1>5, <1>6, <1>7 DEF n

LEMMA RequestsType ==
    ASSUME TypeOK
    PROVE  /\ reqs \in Seq(Request) /\ Len(reqs) \in Nat /\ DOMAIN reqs = 1..Len(reqs)
           /\ \A i \in DOMAIN reqs : reqs[i] \in Request
           /\ list \in Seq(Msg) /\ ToSet(list) \subseteq Readable
           /\ at \in [Msg -> Nat]
  <1>1. /\ reqs \in Seq(Request) /\ Len(reqs) \in Nat /\ DOMAIN reqs = 1..Len(reqs)
        /\ \A i \in DOMAIN reqs : reqs[i] \in Request
    BY LenProperties, ElementOfSeq DEF TypeOK
  <1>2. list \in Seq(Msg)
    BY MsgAssumption, SeqMonotonic DEF TypeOK
  <1>3. ToSet(list) \subseteq Readable
    BY LenProperties, ElementOfSeq DEF TypeOK, ToSet
  <1>4. at \in [Msg -> Nat]
    <2>1. Time \cup {0} \subseteq Nat
      BY NumberAssumption
    <2> QED
      BY <2>1 DEF TypeOK
  <1> QED
    BY <1>1, <1>2, <1>3, <1>4

\* An outcome takes one request off the list and leaves the others.
LEMMA DoneRequests ==
    ASSUME TypeOK, NEW i \in DOMAIN reqs, Done(i)
    PROVE  /\ reqs' \in Seq(Request) /\ Len(reqs') <= MaxReqs
           /\ \A k \in DOMAIN reqs' : \E j \in DOMAIN reqs : reqs'[k] = reqs[j]
  <1>1. reqs \in Seq(Request) /\ Len(reqs) \in Nat /\ DOMAIN reqs = 1..Len(reqs)
    BY RequestsType
  <1>2. /\ reqs' \in Seq(Request) /\ Len(reqs') = Len(reqs) - 1
        /\ \A k \in DOMAIN reqs' : \E j \in DOMAIN reqs : reqs'[k] = reqs[j]
    <2>1. i \in 1..Len(reqs)
      BY <1>1
    <2>2. RemoveAt(reqs, i) \in Seq(Request) /\ Len(RemoveAt(reqs, i)) = Len(reqs) - 1
      BY <1>1, <2>1, RemoveProperties
    <2>3. ASSUME NEW k \in DOMAIN RemoveAt(reqs, i)
          PROVE  \E j \in 1..Len(reqs) : RemoveAt(reqs, i)[k] = reqs[j]
      BY <1>1, <2>1, RemoveProperties
    <2> QED
      BY <1>1, <2>2, <2>3 DEF Done
  <1>3. Len(reqs) <= MaxReqs /\ MaxReqs \in Nat
    BY NumberAssumption DEF TypeOK
  <1> QED
    BY <1>1, <1>2, <1>3

\* What remains of a cancelled request.
Deaf(r) == [r EXCEPT !.live = FALSE]

LEMMA CancelledRequests ==
    ASSUME TypeOK
    PROVE  /\ Cancelled \in Seq(Request) /\ Len(Cancelled) = Len(reqs)
           /\ DOMAIN Cancelled = DOMAIN reqs
           /\ \A i \in DOMAIN reqs : Cancelled[i] = Deaf(reqs[i])
  <1>1. /\ reqs \in Seq(Request) /\ Len(reqs) \in Nat /\ DOMAIN reqs = 1..Len(reqs)
        /\ \A i \in DOMAIN reqs : reqs[i] \in Request
    BY RequestsType
  <1>2. \A r \in Request : Deaf(r) \in Request
    BY DEF Request, Deaf
  <1>3. Cancelled = [i \in 1..Len(reqs) |-> Deaf(reqs[i])]
    BY <1>1 DEF Cancelled, Deaf
  <1>4. Cancelled \in [1..Len(reqs) -> Request]
    BY <1>1, <1>2, <1>3
  <1>5. Cancelled \in Seq(Request)
    BY <1>1, <1>4, SeqDef
  <1>6. Len(Cancelled) = Len(reqs)
    <2>1. /\ Len(Cancelled) \in Nat /\ DOMAIN Cancelled = 1..Len(Cancelled)
          /\ DOMAIN Cancelled = 1..Len(reqs)
      BY <1>4, <1>5, LenProperties
    <2> QED
      BY <1>1, <2>1, SameInterval
  <1> QED
    BY <1>1, <1>3, <1>5, <1>6

Fresh(p) == [peer |-> p, live |-> TRUE, answered |-> FALSE, rows |-> <<>>, unread |-> {}]

LEMMA ResetRequests ==
    ASSUME TypeOK, NEW p \in Peer, Reset(p)
    PROVE  /\ reqs' \in Seq(Request) /\ Len(reqs') <= MaxReqs
           /\ \A k \in DOMAIN reqs' : \/ \E j \in DOMAIN reqs : reqs'[k] = Deaf(reqs[j])
                                      \/ reqs'[k] = Fresh(p)
  <1>1. reqs' = Append(Cancelled, Fresh(p))
    BY DEF Reset, Fresh
  <1>2. Fresh(p) \in Request
    <2>1. <<>> \in Seq(Msg)
      BY EmptySeq
    <2> QED
      BY <2>1 DEF Fresh, Request
  <1>3. /\ Cancelled \in Seq(Request) /\ Len(Cancelled) = Len(reqs)
        /\ \A i \in DOMAIN reqs : Cancelled[i] = Deaf(reqs[i])
        /\ Len(reqs) \in Nat /\ DOMAIN reqs = 1..Len(reqs)
    BY CancelledRequests, RequestsType
  <1> DEFINE f == Fresh(p)
             c == Cancelled
  <1> HIDE DEF f, c
  <1>4. /\ reqs' \in Seq(Request) /\ Len(reqs') = Len(reqs) + 1
        /\ DOMAIN reqs' = 1..(Len(reqs) + 1)
        /\ reqs'[Len(reqs) + 1] = f
        /\ \A k \in 1..Len(reqs) : reqs'[k] = c[k]
    <2>1. reqs' = Append(c, f) /\ f \in Request /\ c \in Seq(Request) /\ Len(c) = Len(reqs)
      BY <1>1, <1>2, <1>3 DEF f, c
    <2> QED
      BY <1>3, <2>1, QueueAppend, LenProperties
  <1>5. Len(reqs) + 1 <= MaxReqs
    BY <1>3, NumberAssumption DEF Reset
  <1>6. ASSUME NEW k \in DOMAIN reqs'
        PROVE  (\E j \in DOMAIN reqs : reqs'[k] = Deaf(reqs[j])) \/ reqs'[k] = Fresh(p)
    <2>1. k \in 1..Len(reqs) \/ k = Len(reqs) + 1
      BY <1>3, <1>4
    <2> QED
      BY <1>3, <1>4, <2>1 DEF f, c
  <1> QED
    BY <1>4, <1>5, <1>6

-----------------------------------------------------------------------------
(* What a request brings.                                                   *)

LEMMA DecryptedProperties ==
    ASSUME NEW rows \in Seq(Msg)
    PROVE  /\ Decrypted(rows) \in Seq(Readable)
           /\ ToSet(Decrypted(rows)) = ToSet(rows) \cap Readable
  <1> DEFINE I == {i \in DOMAIN rows : rows[i] \in Readable}
  <1>1. DOMAIN rows = 1..Len(rows)
    BY LenProperties
  <1>2. I \in SUBSET (1..Len(rows)) /\ \A i \in I : rows[i] \in Readable
    BY <1>1
  <1>3. Decrypted(rows) = Kept(rows, I)
    BY DEF Decrypted
  <1>4. Elements(rows, I) = ToSet(rows) \cap Readable
    BY DEF Elements, ToSet
  <1> HIDE DEF I
  <1>5. Kept(rows, I) \in Seq(Readable)
    BY <1>2, KeptType
  <1>6. ToSet(Kept(rows, I)) = Elements(rows, I)
    BY <1>2, KeptProperties
  <1> QED
    BY <1>3, <1>4, <1>5, <1>6

LEMMA StoredIsFinite ==
    ASSUME NEW p \in Peer
    PROVE  /\ IsFiniteSet(Stored(p)) /\ Cardinality(Stored(p)) \in Nat
           /\ Stored(p) \subseteq Msg
  <1>1. Stored(p) \subseteq Msg
    BY DEF Stored
  <1>2. IsFiniteSet(Stored(p))
    BY <1>1, MsgAssumption, FS_Subset
  <1> QED
    BY <1>1, <1>2, FS_CardinalityType

LEMMA RowsProperties ==
    ASSUME TypeOK, NEW p \in Peer, NEW rows \in Conversation(p)
    PROVE  /\ rows \in Seq(Msg) /\ ToSet(rows) \subseteq Stored(p)
           /\ \A m \in Stored(p) : m \in ToSet(rows) \/ Beyond(m, p)
  <1> DEFINE S == Stored(p)
             n == Cardinality(S)
  <1>1. IsFiniteSet(S) /\ n \in Nat /\ S \subseteq Msg
    BY StoredIsFinite
  <1>2. PICK q \in SetToSeqs(S) :
          /\ \A i, j \in DOMAIN q : i < j => at[q[i]] <= at[q[j]]
          /\ rows = SubSeq(q, 1, IF Len(q) < Limit THEN Len(q) ELSE Limit)
    BY DEF Conversation
  <1>3. q \in [1..n -> S] /\ \A i, j \in 1..n : i # j => q[i] # q[j]
    BY DEF SetToSeqs
  <1> HIDE DEF S, n
  <1>4. q \in Seq(S) /\ Len(q) = n /\ DOMAIN q = 1..n
    <2>1. q \in Seq(S)
      BY <1>1, <1>3, SeqDef
    <2>2. Len(q) \in Nat /\ DOMAIN q = 1..Len(q) /\ DOMAIN q = 1..n
      BY <1>3, <2>1, LenProperties
    <2> QED
      BY <1>1, <2>1, <2>2, SameInterval
  <1> DEFINE k == IF n < Limit THEN n ELSE Limit
  <1>5. k \in 0..Len(q) /\ k \in Nat /\ k <= n /\ (k < n => k = Limit)
    BY <1>1, <1>4, NumberAssumption
  <1>6. rows = SubSeq(q, 1, k)
    BY <1>2, <1>4
  <1> HIDE DEF k
  <1>7. rows \in Seq(S) /\ Len(rows) = k /\ \A i \in 1..k : rows[i] = q[i]
    BY <1>4, <1>5, <1>6, QueuePrefix
  <1>8. DOMAIN rows = 1..k /\ ToSet(rows) \subseteq S
    BY <1>7, LenProperties, ElementOfSeq DEF ToSet
  <1>9. rows \in Seq(Msg)
    BY <1>1, <1>7, SeqMonotonic
  <1>10. ASSUME NEW m \in S, m \notin ToSet(rows)
         PROVE  Beyond(m, p)
    <2>1. PICK i \in 1..n : q[i] = m
      <3>1. q \in Injection(1..n, S)
        BY <1>3 DEF Injection, IsInjective
      <3>2. Cardinality(1..n) = n
        BY <1>1, Places
      <3>3. q \in Surjection(1..n, S)
        BY <1>1, <3>1, <3>2, FS_Injection DEF n
      <3> QED
        BY <3>3 DEF Surjection
    <2>2. i > k
      <3>1. i \notin 1..k
        BY <1>7, <1>8, <1>10, <2>1 DEF ToSet
      <3> QED
        BY <1>1, <1>5, <3>1
    <2>3. k = Limit /\ i > Limit
      BY <1>1, <1>5, <2>2
    <2> DEFINE B == {x \in Stored(p) : at[x] <= at[m]}
               g == [j \in 1..i |-> q[j]]
    <2>4. IsFiniteSet(B) /\ Cardinality(B) \in Nat
      <3>1. IsFiniteSet(B)
        BY StoredIsFinite, FS_Subset
      <3> HIDE DEF B
      <3> QED
        BY <3>1, FS_CardinalityType
    <2>5. g \in [1..i -> B]
      <3> SUFFICES ASSUME NEW j \in 1..i
                   PROVE  q[j] \in B
        OBVIOUS
      <3>1. j \in 1..n /\ q[j] \in S /\ (j < i \/ j = i)
        BY <1>1, <1>3
      <3>2. at[q[j]] <= at[m]
        <4>1. CASE j < i
          BY <1>2, <1>4, <2>1, <3>1, <4>1
        <4>2. CASE j = i
          <5>1. at[m] \in Nat
            BY <1>1, RequestsType
          <5> QED
            BY <2>1, <4>2, <5>1
        <4> QED
          BY <3>1, <4>1, <4>2
      <3> QED
        BY <3>1, <3>2 DEF S
    <2>6. g \in Injection(1..i, B)
      <3>1. \A a, b \in 1..i : a # b => g[a] # g[b]
        BY <1>1, <1>3
      <3> HIDE DEF g, B
      <3> QED
        BY <2>5, <3>1 DEF Injection, IsInjective
    <2>7. i \in Nat /\ Cardinality(1..i) = i
      <3>1. i \in Nat
        BY <1>1
      <3> QED
        BY <3>1, Places
    <2>8. Cardinality(1..i) <= Cardinality(B)
      <3> HIDE DEF g, B
      <3> QED
        BY <2>4, <2>6, FS_Injection
    <2>9. Cardinality(B) > Limit
      <3> HIDE DEF B
      <3> QED
        BY <2>3, <2>4, <2>7, <2>8, NumberAssumption
    <2> QED
      BY <2>9 DEF Beyond
  <1> QED
    BY <1>8, <1>9, <1>10 DEF S

\* Rows keep their time, so what is beyond a page stays beyond it.
AtGrows == \A m \in Msg : at[m] # 0 => at'[m] = at[m]

LEMMA BeyondStays ==
    ASSUME TypeOK, TypeOK', AtGrows, NEW p \in Peer, NEW m \in Msg, at[m] # 0, Beyond(m, p)
    PROVE  Beyond(m, p)'
  <1> DEFINE A == {n \in Stored(p) : at[n] <= at[m]}
             B == {n \in Stored(p)' : at'[n] <= at'[m]}
  <1>1. A \subseteq B
    BY DEF Stored, AtGrows
  <1>2. Stored(p)' \subseteq Msg
    BY DEF Stored
  <1>3. IsFiniteSet(B)
    <2>1. B \subseteq Msg
      BY <1>2
    <2> HIDE DEF B
    <2> QED
      BY <2>1, MsgAssumption, FS_Subset
  <1>4. Cardinality(A) > Limit
    BY DEF Beyond
  <1> HIDE DEF A, B
  <1>5. /\ Cardinality(A) <= Cardinality(B)
        /\ Cardinality(A) \in Nat /\ Cardinality(B) \in Nat
    BY <1>1, <1>3, FS_Subset, FS_CardinalityType
  <1>6. Cardinality(B) > Limit
    BY <1>4, <1>5, NumberAssumption
  <1> QED
    BY <1>6 DEF B, Beyond

-----------------------------------------------------------------------------
(* Type correctness.                                                        *)

LEMMA OnNewType ==
    ASSUME TypeOK, NEW m \in Msg, OnNew(m)
    PROVE  list' \in Seq(Readable) /\ asked' \subseteq Msg \ Mine
  <1>1. CASE PeerOf[m] = open /\ m \in Readable
    <2>1. list' = Append(list, m) /\ asked' = asked \cup ({m} \ Mine)
      BY <1>1 DEF OnNew
    <2> QED
      BY <1>1, <2>1, QueueAppend DEF TypeOK
  <1>2. CASE ~(PeerOf[m] = open /\ m \in Readable)
    BY <1>2 DEF OnNew, TypeOK
  <1> QED
    BY <1>1, <1>2

LEMMA ReplaceType ==
    ASSUME TypeOK, NEW rows \in Seq(Msg), Replace(rows)
    PROVE  list' \in Seq(Readable) /\ lost' \subseteq Msg
  <1>1. list' \in Seq(Readable)
    BY DecryptedProperties DEF Replace
  <1>2. ToSet(list) \subseteq Msg
    BY RequestsType, MsgAssumption
  <1> QED
    BY <1>1, <1>2 DEF Replace, TypeOK

LEMMA InitType == Init => TypeOK
  <1> SUFFICES ASSUME Init
               PROVE  TypeOK
    OBVIOUS
  <1>1. reqs \in Seq(Request) /\ Len(reqs) <= MaxReqs
    <2>1. reqs = <<>> /\ <<>> \in Seq(Request) /\ Len(<<>>) = 0
      BY EmptySeq DEF Init
    <2>2. MaxReqs \in Nat
      BY NumberAssumption
    <2> QED
      BY <2>1, <2>2
  <1>2. list \in Seq(Readable)
    BY EmptySeq DEF Init
  <1> QED
    BY <1>1, <1>2, MsgAssumption DEF Init, TypeOK

LEMMA StepType == TypeOK /\ [Next]_vars => TypeOK'
  <1> SUFFICES ASSUME TypeOK, [Next]_vars
               PROVE  TypeOK'
    OBVIOUS
  <1> USE DEF db, net, view
  <1>1. ASSUME NEW m \in Msg, Store(m) PROVE TypeOK'
    BY <1>1 DEF Store, TypeOK
  <1>2. ASSUME NEW m \in Msg, Announce(m) PROVE TypeOK'
    BY <1>2 DEF Announce, TypeOK
  <1>3. ASSUME NEW m \in Msg, MarkRead(m) PROVE TypeOK'
    BY <1>3 DEF MarkRead, TypeOK
  <1>4. ASSUME NEW i \in DOMAIN reqs, Query(i) PROVE TypeOK'
    <2>1. PICK rows \in Conversation(reqs[i].peer) :
            reqs' = [reqs EXCEPT ![i].answered = TRUE, ![i].rows = rows,
                                 ![i].unread = ToSet(rows) \ readRows]
      BY <1>4 DEF Query
    <2>2. reqs[i] \in Request /\ reqs[i].peer \in Peer /\ i \in 1..Len(reqs)
      BY RequestsType DEF Request
    <2>3. rows \in Seq(Msg) /\ ToSet(rows) \subseteq Msg
      BY <2>2, RowsProperties, StoredIsFinite
    <2> DEFINE r == [reqs[i] EXCEPT !.answered = TRUE, !.rows = rows,
                                    !.unread = ToSet(rows) \ readRows]
    <2>4. reqs' = [reqs EXCEPT ![i] = r]
      BY <2>1
    <2>5. r \in Request
      BY <2>2, <2>3 DEF Request
    <2> HIDE DEF r
    <2>6. reqs' \in Seq(Request) /\ Len(reqs') = Len(reqs)
      BY <2>2, <2>4, <2>5, RequestsType, ExceptSeq
    <2> QED
      BY <1>4, <2>6 DEF Query, TypeOK
  <1>5. ASSUME NEW i \in DOMAIN reqs, Load(i) PROVE TypeOK'
    <2>1. reqs' \in Seq(Request) /\ Len(reqs') <= MaxReqs
      BY <1>5, DoneRequests DEF Load
    <2>2. /\ reqs[i].rows \in Seq(Msg) /\ reqs[i].live \in BOOLEAN
          /\ reqs[i].unread \subseteq Msg
      BY RequestsType DEF Request
    <2>3. CASE reqs[i].live
      <3>1. list' \in Seq(Readable) /\ lost' \subseteq Msg
        BY <1>5, <2>2, <2>3, ReplaceType DEF Load
      <3> QED
        BY <1>5, <2>1, <2>2, <2>3, <3>1 DEF Load, TypeOK
    <2>4. CASE ~reqs[i].live
      BY <1>5, <2>1, <2>4 DEF Load, TypeOK
    <2> QED
      BY <2>3, <2>4
  <1>6. ASSUME NEW i \in DOMAIN reqs, LoadFails(i) PROVE TypeOK'
    <2>1. reqs' \in Seq(Request) /\ Len(reqs') <= MaxReqs
      BY <1>6, DoneRequests DEF LoadFails
    <2> QED
      BY <1>6, <2>1 DEF LoadFails, TypeOK
  <1>7. ASSUME NEW p \in Peer, Select(p) PROVE TypeOK'
    BY <1>7, ResetRequests, EmptySeq DEF Select, Reset, TypeOK
  <1>8. CASE Rerender
    BY <1>8, ResetRequests, EmptySeq DEF Rerender, Reset, TypeOK
  <1>9. ASSUME NEW m \in Msg, Hear(m) PROVE TypeOK'
    <2>1. list' \in Seq(Readable) /\ asked' \subseteq Msg \ Mine
      BY <1>9, OnNewType DEF Hear
    <2> QED
      BY <1>9, <2>1 DEF Hear, TypeOK
  <1>10. CASE Drop
    BY <1>10 DEF Drop, Unplug, TypeOK
  <1>11. CASE Connect
    BY <1>11 DEF Connect, TypeOK
  <1>12. CASE Logout
    BY <1>12, CancelledRequests, EmptySeq DEF Logout, Unplug, TypeOK
  <1>13. CASE UNCHANGED vars
    BY <1>13 DEF vars, TypeOK
  <1> QED
    BY <1>1, <1>2, <1>3, <1>4, <1>5, <1>6, <1>7, <1>8, <1>9, <1>10, <1>11, <1>12, <1>13
    DEF Next, Server, Answer, Resets

\* The tab's requests, list and receipts, and the rows behind them, keep their
\* types, for any number of peers, messages and requests.
THEOREM TypeCorrect == Spec => []TypeOK
  BY InitType, StepType, PTL DEF Spec

-----------------------------------------------------------------------------
(* What keeps the requests: those that stay, and those that are cancelled.  *)

\* A message of the open conversation is where it was, or is here now.
Hearing ==
    \A m \in announced' \cap Readable :
        PeerOf[m] = open => m \in Here' \/ (m \in announced /\ m \notin Here)

LEMMA RequestsStay ==
    ASSUME TypeOK, TypeOK', Requests, AnnouncedIsStored,
           AtGrows, readRows \subseteq readRows', open' = open, Hearing,
           \A k \in DOMAIN reqs' : \E i \in DOMAIN reqs : reqs'[k] = reqs[i]
    PROVE  Requests'
  <1> SUFFICES ASSUME NEW k \in DOMAIN reqs'
               PROVE  (Wanted(reqs[k]) /\ Truthful(reqs[k]) /\ Covers(reqs[k]))'
    BY DEF Requests
  <1>1. PICK i \in DOMAIN reqs : reqs'[k] = reqs[i]
    OBVIOUS
  <1>2. Wanted(reqs[i]) /\ Truthful(reqs[i]) /\ Covers(reqs[i])
    BY DEF Requests
  <1>3. Wanted(reqs[k])' /\ Truthful(reqs[k])'
    BY <1>1, <1>2 DEF Wanted, Truthful
  <1>4. ASSUME reqs[i].live, reqs[i].answered, NEW p \in Peer, p = open,
               NEW m \in announced' \cap Readable, PeerOf[m] = p, m \notin Here'
        PROVE  m \in ToSet(reqs[i].rows) \/ Beyond(m, p)'
    <2>1. m \in announced /\ m \notin Here
      BY <1>4 DEF Hearing
    <2>2. m \in ToSet(reqs[i].rows) \/ Beyond(m, p)
      BY <1>2, <1>4, <2>1 DEF Covers, Wanted
    <2>3. m \in Msg /\ at[m] # 0
      BY <2>1 DEF TypeOK, AnnouncedIsStored
    <2> QED
      BY <1>4, <2>2, <2>3, BeyondStays
  <1>5. Covers(reqs[k])'
    <2> SUFFICES ASSUME reqs[i].live, reqs[i].answered, NEW p, p = reqs[i].peer,
                        NEW m \in announced' \cap Readable, PeerOf[m] = p, m \notin Here',
                        m \notin ToSet(reqs[i].rows)
                 PROVE  Beyond(m, p)'
      BY <1>1 DEF Covers, Beyond
    <2>1. p \in Peer /\ p = open
      BY <1>2, RequestsType DEF Wanted, Request
    <2> QED
      BY <1>4, <2>1
  <1> QED
    BY <1>3, <1>5

LEMMA CancelledStay ==
    ASSUME TypeOK, Requests, readRows \subseteq readRows', NEW p, p = open',
           \A k \in DOMAIN reqs' : \/ \E i \in DOMAIN reqs : reqs'[k] = Deaf(reqs[i])
                                   \/ reqs'[k] = Fresh(p)
    PROVE  Requests'
  <1> SUFFICES ASSUME NEW k \in DOMAIN reqs'
               PROVE  (Wanted(reqs[k]) /\ Truthful(reqs[k]) /\ Covers(reqs[k]))'
    BY DEF Requests
  <1>1. ASSUME NEW i \in DOMAIN reqs, reqs'[k] = Deaf(reqs[i])
        PROVE  (Wanted(reqs[k]) /\ Truthful(reqs[k]) /\ Covers(reqs[k]))'
    <2>1. reqs[i] \in Request
      BY RequestsType
    <2>2. /\ reqs'[k].live = FALSE /\ reqs'[k].peer = reqs[i].peer
          /\ reqs'[k].rows = reqs[i].rows /\ reqs'[k].unread = reqs[i].unread
      BY <1>1, <2>1 DEF Request, Deaf
    <2>3. Truthful(reqs[i])
      BY DEF Requests
    <2> QED
      BY <2>2, <2>3 DEF Wanted, Truthful, Covers
  <1>2. CASE reqs'[k] = Fresh(p)
    <2>1. /\ reqs'[k].peer = p /\ reqs'[k].answered = FALSE
          /\ reqs'[k].rows = <<>>
      BY <1>2 DEF Fresh
    <2> QED
      BY <2>1, SetEmpty DEF Wanted, Truthful, Covers
  <1> QED
    BY <1>1, <1>2

LEMMA CoveredStays ==
    ASSUME TypeOK, TypeOK', AnnouncedIsStored, Covered, AtGrows, open' = open, Hearing,
           ~loading' /\ ~failed' => ~loading /\ ~failed
    PROVE  Covered'
  <1> SUFFICES ASSUME ~loading, ~failed, NEW m \in announced' \cap Readable,
                      PeerOf[m] = open, m \notin Here'
               PROVE  Beyond(m, open)'
    BY DEF Covered
  <1>1. m \in announced /\ m \notin Here
    BY DEF Hearing
  <1>2. Beyond(m, open)
    BY <1>1 DEF Covered
  <1>3. m \in Msg /\ at[m] # 0 /\ open \in Peer
    BY <1>1, MsgAssumption DEF TypeOK, AnnouncedIsStored
  <1>4. ASSUME NEW p \in Peer, p = open
        PROVE  Beyond(m, p)'
    <2>1. Beyond(m, p)
      BY <1>2, <1>4 DEF Beyond
    <2> QED
      BY <1>3, <2>1, BeyondStays
  <1> QED
    BY <1>3, <1>4 DEF Beyond

-----------------------------------------------------------------------------
(* The steps that need more: the query, the answer, an event heard.         *)

LEMMA QueryRequests ==
    ASSUME TypeOK, Requests, AnnouncedIsStored, NEW i \in DOMAIN reqs, Query(i)
    PROVE  Requests'
  <1> USE DEF db, net
  <1>1. PICK rows \in Conversation(reqs[i].peer) :
          reqs' = [reqs EXCEPT ![i].answered = TRUE, ![i].rows = rows,
                               ![i].unread = ToSet(rows) \ readRows]
    BY DEF Query
  <1>2. UNCHANGED <<at, announced, readRows, online, wire, open, list, lost>>
    BY DEF Query
  <1>3. PICK p \in Peer : p = reqs[i].peer
    BY RequestsType DEF Request
  <1>4. /\ rows \in Seq(Msg) /\ ToSet(rows) \subseteq Stored(p)
        /\ \A m \in Stored(p) : m \in ToSet(rows) \/ Beyond(m, p)
    <2>1. rows \in Conversation(p)
      BY <1>3
    <2> QED
      BY <2>1, RowsProperties
  <1> SUFFICES ASSUME NEW k \in DOMAIN reqs'
               PROVE  (Wanted(reqs[k]) /\ Truthful(reqs[k]) /\ Covers(reqs[k]))'
    BY DEF Requests
  <1>5. k \in DOMAIN reqs /\ (k # i => reqs'[k] = reqs[k])
    BY <1>1
  <1>6. Wanted(reqs[k]) /\ Truthful(reqs[k]) /\ Covers(reqs[k])
    BY <1>5 DEF Requests
  <1>7. CASE k # i
    <2>1. reqs'[k] = reqs[k]
      BY <1>5, <1>7
    <2> QED
      BY <1>2, <1>6, <2>1 DEF Wanted, Truthful, Covers, Here, Beyond, Stored
  <1>8. CASE k = i
    <2>1. reqs[k] \in Request
      BY <1>5, RequestsType
    <2>2. /\ reqs'[k].live = reqs[k].live /\ reqs'[k].peer = p
          /\ reqs'[k].rows = rows /\ reqs'[k].unread = ToSet(rows) \ readRows
      BY <1>1, <1>3, <1>5, <1>8, <2>1 DEF Request
    <2>3. Wanted(reqs[k])' /\ Truthful(reqs[k])'
      BY <1>2, <1>3, <1>4, <1>6, <1>8, <2>2 DEF Wanted, Truthful, Stored
    <2>4. Covers(reqs[k])'
      <3> SUFFICES ASSUME NEW m \in announced \cap Readable, PeerOf[m] = p,
                          m \notin ToSet(rows)
                   PROVE  Beyond(m, p)'
        BY <1>2, <2>2 DEF Covers, Beyond
      <3>1. m \in Stored(p)
        BY DEF Stored, AnnouncedIsStored, TypeOK
      <3> QED
        BY <1>2, <1>4, <3>1 DEF Beyond, Stored
    <2> QED
      BY <2>3, <2>4
  <1> QED
    BY <1>7, <1>8

\* What an answer that is shown brings, keeps and loses.
LEMMA AnswerShown ==
    ASSUME TypeOK, Requests, NEW i \in DOMAIN reqs, Load(i), reqs[i].live
    PROVE  /\ ToSet(list') = ToSet(reqs[i].rows) \cap Readable
           /\ reqs[i].peer = open
           /\ \A m \in Readable : m \in Here => m \in Here'
           /\ \A m \in ToSet(list') : PeerOf[m] = open
           /\ ToSet(list') \ Mine \subseteq asked' \cup readRows
           /\ asked' \ asked \subseteq ToSet(list')
  <1>1. reqs[i] \in Request /\ reqs[i].rows \in Seq(Msg)
    BY RequestsType DEF Request
  <1>2. Wanted(reqs[i]) /\ Truthful(reqs[i])
    BY DEF Requests
  <1>3. /\ list' = Decrypted(reqs[i].rows)
        /\ lost' = (lost \cup ToSet(list)) \ ToSet(reqs[i].rows)
        /\ asked' = asked \cup ((ToSet(list') \cap reqs[i].unread) \ Mine)
        /\ wire' = wire
    BY DEF Load, Replace, net
  <1>4. ToSet(list') = ToSet(reqs[i].rows) \cap Readable
    BY <1>1, <1>3, DecryptedProperties
  <1> QED
    BY <1>2, <1>3, <1>4 DEF Wanted, Truthful, Here

\* A message heard is shown if it is of the open conversation and can be read.
LEMMA EventHeard ==
    ASSUME TypeOK, NEW m \in Msg, Hear(m)
    PROVE  /\ PeerOf[m] = open /\ m \in Readable =>
                /\ ToSet(list') = ToSet(list) \cup {m}
                /\ asked' = asked \cup ({m} \ Mine)
           /\ ~(PeerOf[m] = open /\ m \in Readable) => UNCHANGED <<list, asked>>
           /\ wire' = wire \ {m}
           /\ UNCHANGED <<at, announced, readRows, open, reqs, loading, failed, lost>>
  <1>1. CASE PeerOf[m] = open /\ m \in Readable
    <2>1. list' = Append(list, m) /\ list \in Seq(Readable)
      BY <1>1 DEF Hear, OnNew, TypeOK
    <2>2. ToSet(list') = ToSet(list) \cup {m}
      BY <1>1, <2>1, SetAppend
    <2> QED
      BY <1>1, <2>2 DEF Hear, OnNew, db
  <1>2. CASE ~(PeerOf[m] = open /\ m \in Readable)
    BY <1>2 DEF Hear, OnNew, db
  <1> QED
    BY <1>1, <1>2

LEMMA InitInv == Init => IInv
  <1> SUFFICES ASSUME Init
               PROVE  IInv
    OBVIOUS
  <1>1. TypeOK
    BY InitType
  <1>2. reqs = <<>> /\ list = <<>> /\ DOMAIN <<>> = {} /\ ToSet(<<>>) = {}
    BY SetEmpty DEF Init
  <1>3. OnlyThisConversation /\ ListIsRead
    BY <1>2 DEF OnlyThisConversation, ListIsRead
  <1>4. Requests
    BY <1>2 DEF Requests
  <1>5. AnnouncedIsStored /\ Covered
    <2>1. announced \subseteq Msg /\ announced = Old /\ loading = TRUE
      BY MsgAssumption DEF Init
    <2>2. \A m \in Msg : at[m] # 0 <=> m \in Old
      BY DEF Init
    <2> QED
      BY <2>1, <2>2 DEF AnnouncedIsStored, Covered
  <1> QED
    BY <1>1, <1>3, <1>4, <1>5 DEF IInv

\* A step that leaves the list, what was asked and the requests that remain.
LEMMA InvStays ==
    ASSUME IInv, TypeOK', AtGrows, readRows \subseteq readRows', Hearing,
           UNCHANGED <<open, list, asked>>, \A m \in announced' : at'[m] # 0,
           ~loading' /\ ~failed' => ~loading /\ ~failed,
           \A k \in DOMAIN reqs' : \E i \in DOMAIN reqs : reqs'[k] = reqs[i]
    PROVE  IInv'
  <1>1. Requests'
    BY RequestsStay DEF IInv
  <1>2. Covered'
    BY CoveredStays DEF IInv
  <1>3. OnlyThisConversation' /\ ListIsRead' /\ AnnouncedIsStored'
    BY DEF IInv, OnlyThisConversation, ListIsRead, AnnouncedIsStored
  <1> QED
    BY <1>1, <1>2, <1>3 DEF IInv

\* A step that empties the list and cancels every request.
LEMMA InvResets ==
    ASSUME IInv, TypeOK', UNCHANGED <<at, announced, readRows>>,
           list' = <<>>, loading', NEW p, p = open',
           \A k \in DOMAIN reqs' : \/ \E i \in DOMAIN reqs : reqs'[k] = Deaf(reqs[i])
                                   \/ reqs'[k] = Fresh(p)
    PROVE  IInv'
  <1>1. Requests'
    BY CancelledStay DEF IInv
  <1>2. OnlyThisConversation' /\ ListIsRead'
    BY SetEmpty DEF OnlyThisConversation, ListIsRead
  <1>3. Covered' /\ AnnouncedIsStored'
    BY DEF IInv, Covered, AnnouncedIsStored
  <1> QED
    BY <1>1, <1>2, <1>3 DEF IInv

LEMMA LoadInv ==
    ASSUME IInv, TypeOK', NEW i \in DOMAIN reqs, Load(i)
    PROVE  IInv'
  <1> USE DEF db, net
  <1>1. UNCHANGED <<at, announced, readRows, wire, open, failed>>
    BY DEF Load
  <1>2. \A k \in DOMAIN reqs' : \E j \in DOMAIN reqs : reqs'[k] = reqs[j]
    BY DoneRequests DEF Load, IInv
  <1>3. CASE ~reqs[i].live
    <2>1. UNCHANGED <<list, asked, loading, lost>>
      BY <1>3 DEF Load
    <2> QED
      BY <1>1, <1>2, <2>1, InvStays DEF AtGrows, Hearing, Here, IInv, AnnouncedIsStored
  <1>4. CASE reqs[i].live
    <2>1. /\ ToSet(list') = ToSet(reqs[i].rows) \cap Readable
          /\ reqs[i].peer = open
          /\ \A m \in Readable : m \in Here => m \in Here'
          /\ \A m \in ToSet(list') : PeerOf[m] = open
          /\ ToSet(list') \ Mine \subseteq asked' \cup readRows
      BY <1>4, AnswerShown DEF IInv
    <2>2. Hearing
      BY <1>1, <2>1 DEF Hearing
    <2>3. AtGrows
      BY <1>1 DEF AtGrows
    <2>4. Requests'
      BY <1>1, <1>2, <2>2, <2>3, RequestsStay DEF IInv
    <2>5. Covered'
      <3> SUFFICES ASSUME NEW m \in announced \cap Readable, PeerOf[m] = open, m \notin Here'
                   PROVE  Beyond(m, open)'
        BY <1>1 DEF Covered
      <3>1. Covers(reqs[i]) /\ reqs[i].answered
        BY DEF IInv, Requests, Load
      <3>2. m \notin Here /\ m \notin ToSet(reqs[i].rows)
        BY <2>1 DEF Here
      <3>3. Beyond(m, open)
        BY <1>4, <2>1, <3>1, <3>2 DEF Covers, Beyond
      <3> QED
        BY <1>1, <3>3 DEF Beyond, Stored
    <2>6. OnlyThisConversation' /\ ListIsRead' /\ AnnouncedIsStored'
      BY <1>1, <2>1 DEF IInv, OnlyThisConversation, ListIsRead, AnnouncedIsStored
    <2> QED
      BY <2>4, <2>5, <2>6 DEF IInv
  <1> QED
    BY <1>3, <1>4

LEMMA HearInv ==
    ASSUME IInv, TypeOK', NEW m \in Msg, Hear(m)
    PROVE  IInv'
  <1>1. TypeOK
    BY DEF IInv
  <1>2. UNCHANGED <<at, announced, readRows, open, reqs, loading, failed, lost>>
    BY <1>1, EventHeard
  <1>3. wire' = wire \ {m}
    BY <1>1, EventHeard
  <1>4. PeerOf[m] = open /\ m \in Readable =>
          ToSet(list') = ToSet(list) \cup {m} /\ asked' = asked \cup ({m} \ Mine)
    BY <1>1, EventHeard
  <1>5. ~(PeerOf[m] = open /\ m \in Readable) => list' = list /\ asked' = asked
    BY <1>1, EventHeard
  <1>6. Hearing
    BY <1>2, <1>3, <1>4, <1>5 DEF Hearing, Here
  <1>7. AtGrows
    BY <1>2 DEF AtGrows
  <1>8. Requests'
    BY <1>1, <1>2, <1>6, <1>7, RequestsStay DEF IInv
  <1>9. Covered'
    BY <1>1, <1>2, <1>6, <1>7, CoveredStays DEF IInv
  <1>10. OnlyThisConversation' /\ ListIsRead' /\ AnnouncedIsStored'
    BY <1>2, <1>4, <1>5 DEF IInv, OnlyThisConversation, ListIsRead, AnnouncedIsStored
  <1> QED
    BY <1>8, <1>9, <1>10 DEF IInv

LEMMA StepInv == IInv /\ [Next]_vars => IInv'
  <1> SUFFICES ASSUME IInv, [Next]_vars
               PROVE  IInv'
    OBVIOUS
  <1>0. TypeOK /\ TypeOK' /\ AnnouncedIsStored
    BY StepType DEF IInv
  <1> USE DEF db, net, view
  <1>1. ASSUME NEW m \in Msg, Store(m) PROVE IInv'
    <2>1. /\ UNCHANGED <<announced, readRows, net, view, lost>>
          /\ \A n \in Msg : n # m => at'[n] = at[n]
          /\ at[m] = 0 /\ at'[m] # 0
      BY <1>0, <1>1, NumberAssumption DEF Store, TypeOK
    <2>2. AtGrows /\ \A n \in announced' : at'[n] # 0
      BY <1>0, <2>1 DEF AtGrows, AnnouncedIsStored, TypeOK
    <2> QED
      BY <1>0, <2>1, <2>2, InvStays DEF Hearing, Here
  <1>2. ASSUME NEW m \in Msg, Announce(m) PROVE IInv'
    <2>1. /\ UNCHANGED <<at, readRows, view>> /\ announced' = announced \cup {m}
          /\ Here' = Here \cup {m} /\ at[m] # 0
      BY <1>2 DEF Announce, Here
    <2>2. AtGrows /\ Hearing /\ \A n \in announced' : at'[n] # 0
      BY <1>0, <2>1 DEF AtGrows, Hearing, AnnouncedIsStored
    <2> QED
      BY <1>0, <2>1, <2>2, InvStays
  <1>3. ASSUME NEW m \in Msg, MarkRead(m) PROVE IInv'
    <2>1. UNCHANGED <<at, announced, net, view, lost>> /\ readRows \subseteq readRows'
      BY <1>3 DEF MarkRead
    <2> QED
      BY <1>0, <2>1, InvStays DEF AtGrows, Hearing, Here, AnnouncedIsStored
  <1>4. ASSUME NEW i \in DOMAIN reqs, Query(i) PROVE IInv'
    <2>1. UNCHANGED <<db, net, open, list, loading, asked, failed, lost>>
      BY <1>4 DEF Query
    <2>2. Requests'
      BY <1>0, <1>4, QueryRequests DEF IInv
    <2>3. Covered'
      BY <2>1 DEF IInv, Covered, Here, Beyond, Stored
    <2> QED
      BY <1>0, <2>1, <2>2, <2>3
      DEF IInv, OnlyThisConversation, ListIsRead, AnnouncedIsStored
  <1>5. ASSUME NEW i \in DOMAIN reqs, Load(i) PROVE IInv'
    BY <1>0, <1>5, LoadInv
  <1>6. ASSUME NEW i \in DOMAIN reqs, LoadFails(i) PROVE IInv'
    <2>1. /\ UNCHANGED <<db, net, open, list, asked, lost>>
          /\ ~loading' /\ ~failed' => ~loading /\ ~failed
      BY <1>6 DEF LoadFails
    <2>2. \A k \in DOMAIN reqs' : \E j \in DOMAIN reqs : reqs'[k] = reqs[j]
      BY <1>0, <1>6, DoneRequests DEF LoadFails
    <2> QED
      BY <1>0, <2>1, <2>2, InvStays DEF AtGrows, Hearing, Here, AnnouncedIsStored
  <1>7. ASSUME NEW p \in Peer, Select(p) PROVE IInv'
    <2>1. UNCHANGED <<db, net, asked, lost>> /\ open' = p /\ Reset(p)
      BY <1>7 DEF Select
    <2>2. \A k \in DOMAIN reqs' : \/ \E j \in DOMAIN reqs : reqs'[k] = Deaf(reqs[j])
                                  \/ reqs'[k] = Fresh(p)
      BY <1>0, <2>1, ResetRequests
    <2>3. list' = <<>> /\ loading'
      BY <2>1 DEF Reset
    <2> QED
      BY <1>0, <2>1, <2>2, <2>3, InvResets
  <1>8. CASE Rerender
    <2>1. PICK p \in Peer : p = open
      BY <1>0, <1>8 DEF Rerender, TypeOK
    <2>2. UNCHANGED <<db, net, open, asked, lost>> /\ Reset(p)
      BY <1>8, <2>1 DEF Rerender
    <2>3. \A k \in DOMAIN reqs' : \/ \E j \in DOMAIN reqs : reqs'[k] = Deaf(reqs[j])
                                  \/ reqs'[k] = Fresh(p)
      BY <1>0, <2>2, ResetRequests
    <2>4. list' = <<>> /\ loading'
      BY <2>2 DEF Reset
    <2> QED
      BY <1>0, <2>1, <2>2, <2>3, <2>4, InvResets
  <1>9. ASSUME NEW m \in Msg, Hear(m) PROVE IInv'
    BY <1>0, <1>9, HearInv
  <1>10. CASE Drop
    <2>1. UNCHANGED <<db, view>> /\ Here \subseteq Here'
      BY <1>10 DEF Drop, Unplug, Here
    <2> QED
      BY <1>0, <2>1, InvStays DEF AtGrows, Hearing, AnnouncedIsStored
  <1>11. CASE Connect
    BY <1>0, <1>11, InvStays DEF Connect, AtGrows, Hearing, Here, AnnouncedIsStored
  <1>12. CASE Logout
    <2>1. UNCHANGED <<db, asked>> /\ open' = None /\ list' = <<>> /\ loading'
      BY <1>12 DEF Logout
    <2>2. \A k \in DOMAIN reqs' : \E j \in DOMAIN reqs : reqs'[k] = Deaf(reqs[j])
      BY <1>0, <1>12, CancelledRequests DEF Logout
    <2> QED
      BY <1>0, <2>1, <2>2, InvResets
  <1>13. CASE UNCHANGED vars
    BY <1>0, <1>13, InvStays DEF vars, AtGrows, Hearing, Here, AnnouncedIsStored
  <1> QED
    BY <1>1, <1>2, <1>3, <1>4, <1>5, <1>6, <1>7, <1>8, <1>9, <1>10, <1>11, <1>12, <1>13
    DEF Next, Server, Answer, Resets

-----------------------------------------------------------------------------
(* What the tab shows.                                                      *)

LEMMA InvariantHolds == Spec => []IInv
  BY InitInv, StepInv, PTL DEF Spec

\* An answer of another conversation never reaches the screen, however late it
\* comes and whatever was selected meanwhile: cancelled requests stay cancelled.
THEOREM OtherConversationsStayOut == Spec => []OnlyThisConversation
  <1>1. IInv => OnlyThisConversation
    BY DEF IInv
  <1> QED
    BY <1>1, InvariantHolds, PTL

LEMMA CopiesTied == TypeOK => OnceUnlessTied
  <1> SUFFICES ASSUME TypeOK, NEW i \in DOMAIN Thread(list), NEW j \in DOMAIN Thread(list),
                      i # j, Thread(list)[i] = Thread(list)[j]
               PROVE  \E k \in DOMAIN Thread(list) :
                        /\ Thread(list)[k] # Thread(list)[i]
                        /\ at[Thread(list)[k]] = at[Thread(list)[i]]
    BY DEF OnceUnlessTied
  <1>1. at \in [Msg -> Nat] /\ list \in Seq(Msg)
    BY RequestsType
  <1>2. CASE i < j
    BY <1>1, <1>2, CopiesAreTied
  <1>3. CASE j < i
    BY <1>1, <1>3, CopiesAreTied
  <1>4. i < j \/ j < i
    BY <1>1, ThreadPlaces
  <1> QED
    BY <1>2, <1>3, <1>4

\* Sorting and stripping equal neighbours leaves one copy of a message that came
\* twice, from history and live, unless a message of the same time is between.
THEOREM CopiesNeedATie == Spec => []OnceUnlessTied
  BY CopiesTied, TypeCorrect, PTL

\* Every message of the peer on the screen was reported read: those of an answer
\* when it is shown, those heard at once, and no reset forgets it.
THEOREM ShownWasReported == Spec => []ShownIsRead
  <1>1. IInv => ShownIsRead
    <2> SUFFICES ASSUME IInv
                 PROVE  ShownIsRead
      OBVIOUS
    <2>1. at \in [Msg -> Nat] /\ list \in Seq(Msg)
      BY RequestsType DEF IInv
    <2> QED
      BY <2>1, ThreadIsList DEF IInv, ListIsRead, ShownIsRead, Shown
  <1> QED
    BY <1>1, InvariantHolds, PTL

\* What a loaded conversation lacks is on the way, was lost to a broken
\* connection or to a replacing answer, or is beyond the page of history: the
\* events that come while the answer is under way close the gap.
THEOREM NothingElseIsMissing == Spec => []Complete
  <1>1. IInv => Complete
    <2> SUFFICES ASSUME IInv
                 PROVE  Complete
      OBVIOUS
    <2>1. at \in [Msg -> Nat] /\ list \in Seq(Msg)
      BY RequestsType DEF IInv
    <2>2. Shown = ToSet(list)
      BY <2>1, ThreadIsList DEF Shown
    <2> QED
      BY <2>2 DEF IInv, Covered, Complete, Here, Beyond
  <1> QED
    BY <1>1, InvariantHolds, PTL

\* A tab reports a message read only in the step that puts it on its screen.
THEOREM ReportsAreOfShown == Spec => ReadsAreShown
  <1>1. IInv /\ [Next]_vars => [asked' \ asked \subseteq ToSet(list')]_vars
    <2> SUFFICES ASSUME IInv, Next, asked' # asked
                 PROVE  asked' \ asked \subseteq ToSet(list')
      BY DEF vars, view
    <2> USE DEF db, net, view
    <2>1. \/ \E i \in DOMAIN reqs : Load(i)
          \/ \E m \in Msg : Hear(m)
      BY DEF Next, Server, Answer, Resets, Store, Announce, MarkRead, Query, LoadFails,
             Select, Rerender, Drop, Connect, Logout
    <2>2. ASSUME NEW i \in DOMAIN reqs, Load(i)
          PROVE  asked' \ asked \subseteq ToSet(list')
      <3>1. reqs[i].live
        BY <2>2 DEF Load
      <3> QED
        BY <2>2, <3>1, AnswerShown DEF IInv
    <2>3. ASSUME NEW m \in Msg, Hear(m)
          PROVE  asked' \ asked \subseteq ToSet(list')
      <3>1. TypeOK
        BY DEF IInv
      <3> QED
        BY <2>3, <3>1, EventHeard
    <2> QED
      BY <2>1, <2>2, <2>3
  <1> QED
    BY <1>1, InvariantHolds, PTL DEF Spec, ReadsAreShown
=============================================================================
