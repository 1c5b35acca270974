----------------------- MODULE FlatTraining_proofs -----------------------
(***************************************************************************)
(* Proofs about FlatTraining and the pools it is built from: that the      *)
(* lists, batches and files of the flat modes keep what they are used for, *)
(* whatever the settings, the sizes, the responses and the number of       *)
(* processes are.                                                          *)
(***************************************************************************)
EXTENDS FlatTraining, SequenceTheorems, FiniteSetTheorems, FunctionTheorems,
        WellFoundedInduction, TLAPS

-----------------------------------------------------------------------------
(* Counting.                                                               *)

LEMMA LeastNatural ==
  ASSUME NEW T \in SUBSET Nat, T # {}
  PROVE  \E x \in T : \A y \in T : x <= y
<1>1. PICK x \in T : \A y \in T : <<y, x>> \notin OpToRel(<, Nat)
  BY NatLessThanWellFounded, WFMin
<1>2. \A y \in T : ~(y < x)
  BY <1>1 DEF OpToRel
<1> QED BY <1>2

\* Induction, for a set of numbers.
LEMMA AllNaturals ==
  ASSUME NEW T \in SUBSET Nat, 0 \in T, \A n \in T : n + 1 \in T
  PROVE  T = Nat
<1>1. SUFFICES ASSUME NEW n \in Nat \ T PROVE FALSE
  OBVIOUS
<1>2. PICK x \in Nat \ T : \A y \in Nat \ T : x <= y
  BY LeastNatural, Nat \ T \in SUBSET Nat, Nat \ T # {}
<1>3. x # 0 /\ x - 1 \in Nat /\ x - 1 \notin Nat \ T
  BY <1>2
<1>4. (x - 1) + 1 \in T
  BY <1>3
<1> QED BY <1>2, <1>4

\* The rank of a position in a set of positions.
Rank(I, i) == Cardinality({j \in I : j <= i})

LEMMA Ranks ==
  ASSUME NEW N \in Nat, NEW I \in SUBSET (1..N)
  PROVE  /\ IsFiniteSet(I) /\ Cardinality(I) \in Nat
         /\ \A i \in I : Rank(I, i) \in 1..Cardinality(I)
         /\ \A i, j \in I : i < j => Rank(I, i) < Rank(I, j)
<1>1. IsFiniteSet(1..N)
  BY FS_Interval
<1>2. IsFiniteSet(I) /\ Cardinality(I) \in Nat
  BY <1>1, FS_Subset, FS_CardinalityType
<1>3. ASSUME NEW i \in I
      PROVE  Rank(I, i) \in 1..Cardinality(I)
  <2> DEFINE J == {j \in I : j <= i}
  <2>1. J \subseteq I /\ i \in J
    OBVIOUS
  <2>2. IsFiniteSet(J) /\ Cardinality(J) \in Nat /\ Cardinality(J) <= Cardinality(I) /\ Cardinality(J) # 0
    BY <1>2, <2>1, FS_Subset, FS_CardinalityType, FS_EmptySet
  <2> QED BY <1>2, <2>2 DEF Rank
<1>4. ASSUME NEW i \in I, NEW k \in I, i < k
      PROVE  Rank(I, i) < Rank(I, k)
  <2> DEFINE J == {j \in I : j <= i}
             K == {j \in I : j <= k}
  <2>0. i \in Int /\ k \in Int /\ \A j \in I : j \in Int
    OBVIOUS
  <2>1. J \subseteq K /\ k \in K /\ k \notin J /\ K \subseteq I
    <3>1. \A j \in I : j <= i => j <= k
      BY <2>0, <1>4
    <3>2. ~(k <= i)
      BY <2>0, <1>4
    <3>3. k <= k
      BY <2>0
    <3>4. J \subseteq K
      BY <3>1
    <3>5. k \in K /\ k \notin J
      BY <3>2, <3>3
    <3> QED BY <3>4, <3>5
  <2>2. IsFiniteSet(K) /\ IsFiniteSet(J) /\ Cardinality(J) \in Nat /\ Cardinality(K) \in Nat
    BY <1>2, <2>1, FS_Subset, FS_CardinalityType
  <2>3. Cardinality(J) < Cardinality(K)
    BY <2>1, <2>2, FS_Subset
  <2> QED BY <2>3 DEF Rank
<1> QED BY <1>2, <1>3, <1>4

LEMMA HasRank ==
  ASSUME NEW N \in Nat, NEW I \in SUBSET (1..N), NEW n \in 1..Cardinality(I)
  PROVE  \E i \in I : Rank(I, i) = n
<1> DEFINE Ranked(m) == \A J \in SUBSET (1..m) : \A k \in 1..Cardinality(J) : \E i \in J : Rank(J, i) = k
           T == {m \in Nat : Ranked(m)}
<1>1. 0 \in T
  <2>1. ASSUME NEW J \in SUBSET (1..0) PROVE Cardinality(J) = 0
    <3>1. J = {}
      OBVIOUS
    <3> QED BY <3>1, FS_EmptySet
  <2> QED BY <2>1
<1>2. ASSUME NEW m \in T PROVE m + 1 \in T
  <2>1. SUFFICES ASSUME NEW J \in SUBSET (1..(m + 1)), NEW k \in 1..Cardinality(J)
                 PROVE  \E i \in J : Rank(J, i) = k
    OBVIOUS
  <2> DEFINE K == J \ {m + 1}
  <2>2. m \in Nat /\ K \in SUBSET (1..m) /\ IsFiniteSet(J) /\ IsFiniteSet(K)
        /\ Cardinality(J) \in Nat /\ Cardinality(K) \in Nat
    <3>1. m + 1 \in Nat
      OBVIOUS
    <3>2. IsFiniteSet(J) /\ Cardinality(J) \in Nat
      BY <3>1, Ranks
    <3>3. K \in SUBSET (1..m)
      OBVIOUS
    <3> QED BY <3>2, <3>3, Ranks
  <2>3. Ranked(m)
    OBVIOUS
  <2>4. CASE m + 1 \notin J
    <3>1. K = J
      BY <2>4
    <3> QED BY <2>2, <2>3, <3>1
  <2>5. CASE m + 1 \in J
    <3>1. Cardinality(K) = Cardinality(J) - 1
      BY <2>2, <2>5, FS_RemoveElement
    <3>2. CASE k = Cardinality(J)
      <4>0. \A j \in J : j <= m + 1
        OBVIOUS
      <4>1. {j \in J : j <= m + 1} = J
        BY <4>0
      <4>2. Rank(J, m + 1) = k
        BY <3>2, <4>1 DEF Rank
      <4> QED BY <2>5, <4>2
    <3>3. CASE k # Cardinality(J)
      <4>1. k \in 1..Cardinality(K)
        BY <2>2, <3>1, <3>3
      <4>2. PICK i \in K : Rank(K, i) = k
        BY <2>2, <2>3, <4>1
      <4>3. ASSUME NEW j \in J PROVE j <= i => j \in K
        <5>1. m \in Nat /\ i \in 1..m /\ ~(m + 1 <= i)
          BY <2>2
        <5> QED BY <5>1
      <4>4. {j \in J : j <= i} = {j \in K : j <= i}
        BY <4>3
      <4>5. Rank(J, i) = k
        BY <4>2, <4>4 DEF Rank
      <4> QED BY <4>5
    <3> QED BY <3>2, <3>3
  <2> QED BY <2>4, <2>5
<1>3. T = Nat
  <2> HIDE DEF T
  <2> QED BY <1>1, <1>2, AllNaturals, T \in SUBSET Nat DEF T
<1>4. Ranked(N)
  BY <1>3
<1> QED BY <1>4

\* The n-th smallest of a set of positions, and the elements at a set of
\* positions: as many as positions, in their order, and no others.
LEMMA NthFacts ==
  ASSUME NEW N \in Nat, NEW I \in SUBSET (1..N)
  PROVE  /\ \A n \in 1..Cardinality(I) : Nth(I, n) \in I /\ Rank(I, Nth(I, n)) = n
         /\ \A i \in I : Rank(I, i) \in 1..Cardinality(I) /\ Nth(I, Rank(I, i)) = i
         /\ \A m, n \in 1..Cardinality(I) : m < n => Nth(I, m) < Nth(I, n)
<1>1. ASSUME NEW n \in 1..Cardinality(I)
      PROVE  Nth(I, n) \in I /\ Rank(I, Nth(I, n)) = n
  <2>1. \E i \in I : Cardinality({j \in I : j <= i}) = n
    BY HasRank DEF Rank
  <2>2. Nth(I, n) \in I /\ Cardinality({j \in I : j <= Nth(I, n)}) = n
    BY <2>1, Zenon DEF Nth
  <2> QED BY <2>2 DEF Rank
<1>2. \A i, j \in I : Rank(I, i) = Rank(I, j) => i = j
  <2>1. SUFFICES ASSUME NEW i \in I, NEW j \in I, i # j PROVE Rank(I, i) # Rank(I, j)
    OBVIOUS
  <2>2. i \in Int /\ j \in Int /\ (i < j \/ j < i)
    BY <2>1
  <2>3. Rank(I, i) \in Int /\ Rank(I, j) \in Int
    <3>1. \A k \in I : Rank(I, k) \in 1..Cardinality(I)
      BY Ranks
    <3> QED BY <3>1
  <2>4. /\ i < j => Rank(I, i) < Rank(I, j)
        /\ j < i => Rank(I, j) < Rank(I, i)
    BY Ranks
  <2> QED BY <2>2, <2>3, <2>4
<1>3. ASSUME NEW i \in I
      PROVE  Rank(I, i) \in 1..Cardinality(I) /\ Nth(I, Rank(I, i)) = i
  BY <1>1, <1>2, Ranks
<1>4. ASSUME NEW m \in 1..Cardinality(I), NEW n \in 1..Cardinality(I), m < n
      PROVE  Nth(I, m) < Nth(I, n)
  <2>1. Nth(I, m) \in I /\ Rank(I, Nth(I, m)) = m /\ Nth(I, n) \in I /\ Rank(I, Nth(I, n)) = n
    BY <1>1
  <2>2. Nth(I, m) \in Int /\ Nth(I, n) \in Int /\ m \in Int /\ n \in Int
    <3>1. I \subseteq Int /\ 1..Cardinality(I) \subseteq Int
      OBVIOUS
    <3> QED BY <2>1, <3>1
  <2>3. Nth(I, n) < Nth(I, m) => n < m
    <3>1. \A i, j \in I : i < j => Rank(I, i) < Rank(I, j)
      BY Ranks
    <3> QED BY <2>1, <3>1
  <2>4. Nth(I, n) # Nth(I, m)
    <3>1. m # n
      BY <1>4
    <3> QED BY <2>1, <3>1, Zenon
  <2> QED BY <1>4, <2>2, <2>3, <2>4
<1> QED BY <1>1, <1>3, <1>4

LEMMA AtFacts ==
  ASSUME NEW S, NEW s \in Seq(S), NEW I \in SUBSET DOMAIN s
  PROVE  /\ At(s, I) \in Seq(S)
         /\ Len(At(s, I)) = Cardinality(I) /\ Cardinality(I) \in Nat /\ Cardinality(I) <= Len(s)
         /\ \A n \in DOMAIN At(s, I) : Nth(I, n) \in I /\ At(s, I)[n] = s[Nth(I, n)]
         /\ \A i \in I : \E n \in DOMAIN At(s, I) : Nth(I, n) = i
         /\ \A m, n \in DOMAIN At(s, I) : m < n => Nth(I, m) < Nth(I, n)
<1>1. Len(s) \in Nat /\ DOMAIN s = 1..Len(s) /\ I \in SUBSET (1..Len(s))
  OBVIOUS
<1>2. Cardinality(I) \in Nat /\ Cardinality(I) <= Len(s)
  <2>1. Cardinality(1..Len(s)) = Len(s) /\ IsFiniteSet(1..Len(s))
    <3>1. 1 \in Int /\ Len(s) \in Int /\ Len(s) >= 0
      BY <1>1
    <3>2. IsFiniteSet(1..Len(s)) /\ Cardinality(1..Len(s)) = IF 1 > Len(s) THEN 0 ELSE Len(s) - 1 + 1
      BY <3>1, FS_Interval
    <3> QED BY <3>1, <3>2
  <2> QED BY <1>1, <2>1, FS_Subset, FS_CardinalityType
<1>3. DOMAIN At(s, I) = 1..Cardinality(I)
  BY DEF At
<1>4. \A n \in 1..Cardinality(I) : Nth(I, n) \in I /\ At(s, I)[n] = s[Nth(I, n)]
  BY <1>1, NthFacts DEF At
<1>5. At(s, I) \in [1..Cardinality(I) -> S]
  <2>1. \A i \in I : s[i] \in S
    BY <1>1, ElementOfSeq
  <2> QED BY <1>4, <2>1 DEF At
<1>6. At(s, I) \in Seq(S)
  BY <1>2, <1>5, IsASeq
<1>7. Len(At(s, I)) = Cardinality(I)
  BY <1>2, <1>3, <1>6
<1> QED BY <1>1, <1>2, <1>3, <1>4, <1>6, <1>7, NthFacts
-----------------------------------------------------------------------------
(* Sequences.                                                              *)

RangeOf(s) == {s[n] : n \in DOMAIN s}

LEMMA RangeFacts ==
  ASSUME NEW S, NEW s \in Seq(S)
  PROVE  /\ Range(s) = RangeOf(s) /\ Range(s) \subseteq S
         /\ s \in Seq(Range(s))
<1>1. Range(s) = RangeOf(s)
  BY DEF Range, RangeOf
<1>2. Len(s) \in Nat /\ DOMAIN s = 1..Len(s) /\ \A n \in DOMAIN s : s[n] \in S /\ s[n] \in RangeOf(s)
  BY ElementOfSeq DEF RangeOf
<1>3. s \in [1..Len(s) -> RangeOf(s)]
  BY <1>2
<1>4. s \in Seq(RangeOf(s))
  BY <1>2, <1>3, IsASeq
<1>5. RangeOf(s) \subseteq S
  BY <1>2 DEF RangeOf
<1> QED BY <1>1, <1>4, <1>5

LEMMA ConcatFacts ==
  ASSUME NEW S, NEW s \in Seq(S), NEW t \in Seq(S)
  PROVE  /\ s \o t \in Seq(S) /\ Len(s \o t) = Len(s) + Len(t)
         /\ \A n \in 1..(Len(s) + Len(t)) : (s \o t)[n] = IF n <= Len(s) THEN s[n] ELSE t[n - Len(s)]
         /\ RangeOf(s \o t) = RangeOf(s) \cup RangeOf(t)
<1>1. /\ s \o t \in Seq(S) /\ Len(s \o t) = Len(s) + Len(t)
      /\ \A n \in 1..(Len(s) + Len(t)) : (s \o t)[n] = IF n <= Len(s) THEN s[n] ELSE t[n - Len(s)]
  BY ConcatProperties
<1>2. /\ Len(s) \in Nat /\ Len(t) \in Nat /\ DOMAIN s = 1..Len(s) /\ DOMAIN t = 1..Len(t)
      /\ DOMAIN (s \o t) = 1..(Len(s) + Len(t))
  BY <1>1
<1>3. ASSUME NEW n \in DOMAIN (s \o t) PROVE (s \o t)[n] \in RangeOf(s) \cup RangeOf(t)
  <2>1. CASE n <= Len(s)
    BY <1>1, <1>2, <2>1 DEF RangeOf
  <2>2. CASE ~(n <= Len(s))
    <3>1. n - Len(s) \in DOMAIN t /\ (s \o t)[n] = t[n - Len(s)]
      BY <1>1, <1>2, <2>2
    <3> QED BY <3>1 DEF RangeOf
  <2> QED BY <2>1, <2>2
<1>4. ASSUME NEW n \in DOMAIN s PROVE s[n] \in RangeOf(s \o t)
  <2>1. n \in DOMAIN (s \o t) /\ (s \o t)[n] = s[n]
    BY <1>1, <1>2
  <2> QED BY <2>1 DEF RangeOf
<1>5. ASSUME NEW n \in DOMAIN t PROVE t[n] \in RangeOf(s \o t)
  <2>1. n + Len(s) \in DOMAIN (s \o t) /\ (s \o t)[n + Len(s)] = t[n]
    BY <1>1, <1>2
  <2> QED BY <2>1 DEF RangeOf
<1>6. RangeOf(s \o t) = RangeOf(s) \cup RangeOf(t)
  BY <1>3, <1>4, <1>5 DEF RangeOf
<1> QED BY <1>1, <1>6

LEMMA ConcatInjective ==
  ASSUME NEW S, NEW s \in Seq(S), NEW t \in Seq(S), IsInjective(s), IsInjective(t),
         RangeOf(s) \cap RangeOf(t) = {}
  PROVE  IsInjective(s \o t)
<1>1. /\ Len(s) \in Nat /\ Len(t) \in Nat /\ DOMAIN s = 1..Len(s) /\ DOMAIN t = 1..Len(t)
      /\ Len(s \o t) = Len(s) + Len(t) /\ DOMAIN (s \o t) = 1..(Len(s) + Len(t))
  BY ConcatFacts
<1>2. ASSUME NEW k \in DOMAIN (s \o t)
      PROVE  \/ k <= Len(s) /\ k \in DOMAIN s /\ (s \o t)[k] = s[k] /\ s[k] \in RangeOf(s)
             \/ /\ ~(k <= Len(s)) /\ k - Len(s) \in DOMAIN t
                /\ (s \o t)[k] = t[k - Len(s)] /\ t[k - Len(s)] \in RangeOf(t)
  <2>1. (s \o t)[k] = IF k <= Len(s) THEN s[k] ELSE t[k - Len(s)]
    BY <1>1, ConcatFacts
  <2>2. k \in Int /\ 1 <= k /\ k <= Len(s) + Len(t)
    BY <1>1
  <2>3. k <= Len(s) => k \in DOMAIN s
    BY <1>1, <2>2
  <2>4. ~(k <= Len(s)) => k - Len(s) \in DOMAIN t
    BY <1>1, <2>2
  <2> QED BY <2>1, <2>3, <2>4 DEF RangeOf
<1>3. SUFFICES ASSUME NEW l \in DOMAIN (s \o t), NEW m \in DOMAIN (s \o t), l # m
               PROVE  (s \o t)[l] # (s \o t)[m]
  BY DEF IsInjective
<1>4. l - Len(s) # m - Len(s)
  BY <1>1, <1>3
<1> QED BY <1>2, <1>3, <1>4 DEF IsInjective

LEMMA NewestFacts ==
  ASSUME NEW S, NEW s \in Seq(S), NEW n \in Nat
  PROVE  LET k == AtMost(n, Len(s))
         IN  /\ k \in Nat /\ k <= n /\ k <= Len(s) /\ (k = n \/ k = Len(s))
             /\ Newest(n, s) \in Seq(S) /\ Len(Newest(n, s)) = k
             /\ \A i \in 1..k : Newest(n, s)[i] = s[Len(s) - k + i] /\ Len(s) - k + i \in DOMAIN s
             /\ RangeOf(Newest(n, s)) \subseteq RangeOf(s)
<1> DEFINE k == AtMost(n, Len(s))
           a == Len(s) - k + 1
<1>1. Len(s) \in Nat /\ DOMAIN s = 1..Len(s)
  OBVIOUS
<1>2. k \in Nat /\ k <= n /\ k <= Len(s) /\ (k = n \/ k = Len(s))
  BY <1>1 DEF AtMost
<1>3. a \in 1..(Len(s) + 1) /\ Len(s) \in (a - 1)..Len(s) /\ Len(s) - a + 1 = k
  BY <1>1, <1>2
<1>4. Newest(n, s) = SubSeq(s, a, Len(s))
  BY DEF Newest
<1>5. /\ SubSeq(s, a, Len(s)) \in Seq(S)
      /\ Len(SubSeq(s, a, Len(s))) = k
      /\ \A i \in 1..k : SubSeq(s, a, Len(s))[i] = s[a + i - 1]
  <2> HIDE DEF k
  <2> QED BY <1>1, <1>3, SubSeqProperties
<1>6. ASSUME NEW i \in 1..k
      PROVE  Newest(n, s)[i] = s[Len(s) - k + i] /\ Len(s) - k + i \in DOMAIN s
  <2>1. a + i - 1 = Len(s) - k + i /\ Len(s) - k + i \in DOMAIN s
    BY <1>1, <1>2
  <2> QED BY <1>4, <1>5, <2>1
<1>7. RangeOf(Newest(n, s)) \subseteq RangeOf(s)
  <2>1. DOMAIN Newest(n, s) = 1..k
    BY <1>2, <1>4, <1>5
  <2> QED BY <1>6, <2>1 DEF RangeOf
<1> QED BY <1>2, <1>4, <1>5, <1>6, <1>7

-----------------------------------------------------------------------------
(* Sequences of sequences.                                                 *)

\* The recursive function in FlattenSeq.
Flattens(f, ss) ==
  f = [i \in 1..Len(ss) |-> IF i = 1 THEN ss[i] ELSE f[i - 1] \o ss[i]]

LEMMA FlattenExists ==
  ASSUME NEW S, NEW ss \in Seq(Seq(S))
  PROVE  \E f : Flattens(f, ss)
<1> DEFINE Solves(f, n) == f = [i \in 1..n |-> IF i = 1 THEN ss[i] ELSE f[i - 1] \o ss[i]]
           T == {n \in Nat : \E f : Solves(f, n)}
<1>1. 0 \in T
  <2>1. Solves([i \in 1..0 |-> 0], 0)
    OBVIOUS
  <2> QED BY <2>1
<1>2. ASSUME NEW n \in T PROVE n + 1 \in T
  <2>1. PICK f : Solves(f, n)
    OBVIOUS
  <2> DEFINE g == [i \in 1..(n + 1) |-> IF i <= n THEN f[i] ELSE IF i = 1 THEN ss[i] ELSE f[i - 1] \o ss[i]]
  <2>2. n \in Nat /\ DOMAIN f = 1..n
    BY <2>1
  <2>3. ASSUME NEW i \in 1..(n + 1)
        PROVE  g[i] = IF i = 1 THEN ss[i] ELSE g[i - 1] \o ss[i]
    <3>1. i # 1 => i - 1 \in 1..n /\ g[i - 1] = f[i - 1]
      BY <2>2
    <3>2. i \in 1..n => f[i] = IF i = 1 THEN ss[i] ELSE f[i - 1] \o ss[i]
      BY <2>1
    <3>3. i <= n => i \in 1..n
      BY <2>2
    <3> QED BY <3>1, <3>2, <3>3
  <2>4. Solves(g, n + 1)
    BY <2>3
  <2>5. n + 1 \in Nat
    BY <2>2
  <2> HIDE DEF Solves
  <2> QED BY <2>4, <2>5
<1>3. Len(ss) \in T
  <2>1. T = Nat
    <3> HIDE DEF Solves
    <3> DEFINE U == T
    <3>1. U \in SUBSET Nat /\ 0 \in U /\ \A n \in U : n + 1 \in U
      BY <1>1, <1>2
    <3> HIDE DEF U
    <3>2. U = Nat
      BY <3>1, AllNaturals
    <3> QED BY <3>2 DEF U
  <2>2. Len(ss) \in Nat
    OBVIOUS
  <2> QED BY <2>1, <2>2
<1> QED BY <1>3 DEF Flattens

LEMMA FlattenIs ==
  ASSUME NEW S, NEW ss \in Seq(Seq(S))
  PROVE  IF Len(ss) = 0 THEN FlattenSeq(ss) = ss
         ELSE \E f : Flattens(f, ss) /\ FlattenSeq(ss) = f[Len(ss)]
<1> DEFINE flat == CHOOSE f : f = [i \in 1..Len(ss) |-> IF i = 1 THEN ss[i] ELSE f[i - 1] \o ss[i]]
<1>1. Flattens(flat, ss)
  BY FlattenExists DEF Flattens
<1>2. Len(ss) # 0 => FlattenSeq(ss) = flat[Len(ss)]
  BY DEF FlattenSeq
<1>3. Len(ss) = 0 => FlattenSeq(ss) = ss
  BY DEF FlattenSeq
<1> HIDE DEF flat
<1> QED BY <1>1, <1>2, <1>3
\* Flattened, sequences of S are one of S with the elements of all of them;
\* each once, if no element is twice in one of them or in two of them.
LEMMA FlattenFacts ==
  ASSUME NEW S, NEW ss \in Seq(Seq(S))
  PROVE  /\ FlattenSeq(ss) \in Seq(S)
         /\ \A x : x \in RangeOf(FlattenSeq(ss)) <=> \E i \in DOMAIN ss : x \in RangeOf(ss[i])
         /\ /\ \A i \in DOMAIN ss : IsInjective(ss[i])
            /\ \A i, j \in DOMAIN ss : i # j => RangeOf(ss[i]) \cap RangeOf(ss[j]) = {}
            => IsInjective(FlattenSeq(ss))
<1>0. Len(ss) \in Nat /\ DOMAIN ss = 1..Len(ss) /\ \A i \in DOMAIN ss : ss[i] \in Seq(S)
  BY ElementOfSeq
<1>1. CASE Len(ss) = 0
  <2>1. ss = << >> /\ DOMAIN ss = {}
    BY <1>0, <1>1, EmptySeq
  <2>3. FlattenSeq(ss) = << >>
    BY <1>1, <2>1, FlattenIs
  <2>2. << >> \in Seq(S) /\ RangeOf(<< >>) = {} /\ IsInjective(<< >>)
    BY DEF RangeOf, IsInjective
  <2> QED BY <2>1, <2>2, <2>3
<1>2. CASE Len(ss) # 0
  <2>1. PICK f : Flattens(f, ss) /\ FlattenSeq(ss) = f[Len(ss)]
    BY <1>2, FlattenIs
  <2> DEFINE Sound(i) == /\ f[i] \in Seq(S)
                         /\ \A x : x \in RangeOf(f[i]) <=> \E j \in 1..i : x \in RangeOf(ss[j])
             Apart == /\ \A i \in DOMAIN ss : IsInjective(ss[i])
                      /\ \A i, j \in DOMAIN ss : i # j => RangeOf(ss[i]) \cap RangeOf(ss[j]) = {}
             Good(i) == Sound(i) /\ (Apart => IsInjective(f[i]))
             T == {n \in Nat : n + 1 <= Len(ss) => Good(n + 1)}
  <2>2. \A i \in 1..Len(ss) : f[i] = IF i = 1 THEN ss[i] ELSE f[i - 1] \o ss[i]
    BY <2>1 DEF Flattens
  <2>3. 0 \in T
    <3>1. 1 \in 1..Len(ss) /\ 1 \in DOMAIN ss
      BY <1>0, <1>2
    <3>2. f[1] = ss[1] /\ ss[1] \in Seq(S)
      BY <1>0, <2>2, <3>1
    <3>3. \A x : (\E j \in 1..1 : x \in RangeOf(ss[j])) <=> x \in RangeOf(ss[1])
      OBVIOUS
    <3>4. Good(0 + 1)
      BY <3>1, <3>2, <3>3
    <3> HIDE DEF Good
    <3> QED BY <3>4
  <2>4. ASSUME NEW n \in T PROVE n + 1 \in T
    <3>0. n \in Nat /\ n + 1 \in Nat
      OBVIOUS
    <3>1. SUFFICES ASSUME n + 2 <= Len(ss) PROVE Good(n + 2)
      <4> HIDE DEF Good
      <4>1. (n + 1) + 1 = n + 2
        BY <3>0
      <4> QED BY <3>0, <4>1
    <3> DEFINE i == n + 2
    <3>2. i \in DOMAIN ss /\ n + 1 \in DOMAIN ss /\ i # 1 /\ i - 1 = n + 1 /\ n + 1 <= Len(ss)
      BY <1>0, <3>0, <3>1
    <3>3. Good(n + 1)
      <4> HIDE DEF Good
      <4> QED BY <3>0, <3>2
    <3>4. f[i] = f[n + 1] \o ss[i]
      BY <1>0, <2>2, <3>2
    <3>5. f[n + 1] \in Seq(S) /\ ss[i] \in Seq(S)
      BY <1>0, <3>2, <3>3
    <3>6. f[i] \in Seq(S) /\ RangeOf(f[i]) = RangeOf(f[n + 1]) \cup RangeOf(ss[i])
      <4> DEFINE u == f[n + 1]
                 v == ss[i]
      <4>1. u \in Seq(S) /\ v \in Seq(S) /\ f[i] = u \o v
        BY <3>4, <3>5
      <4> HIDE DEF u, v
      <4>2. f[i] \in Seq(S) /\ RangeOf(f[i]) = RangeOf(u) \cup RangeOf(v)
        BY <4>1, ConcatFacts
      <4> QED BY <4>2 DEF u, v
    <3>7. \A x : x \in RangeOf(f[i]) <=> \E j \in 1..i : x \in RangeOf(ss[j])
      <4>1. \A j : j \in 1..i <=> j \in 1..(n + 1) \/ j = i
        BY <3>0
      <4>2. \A x : x \in RangeOf(f[n + 1]) <=> \E j \in 1..(n + 1) : x \in RangeOf(ss[j])
        BY <3>3
      <4> HIDE DEF i
      <4> QED BY <3>6, <4>1, <4>2
    <3>8. Apart => IsInjective(f[i])
      <4>1. SUFFICES ASSUME Apart PROVE IsInjective(f[i])
        OBVIOUS
      <4>3. RangeOf(f[n + 1]) \cap RangeOf(ss[i]) = {}
        <5>1. SUFFICES ASSUME NEW x, x \in RangeOf(f[n + 1]), x \in RangeOf(ss[i]) PROVE FALSE
          OBVIOUS
        <5>2. PICK j \in 1..(n + 1) : x \in RangeOf(ss[j])
          BY <3>3, <5>1
        <5>3. j \in DOMAIN ss /\ j # i
          BY <1>0, <3>0, <3>2
        <5> QED BY <3>2, <4>1, <5>1, <5>2, <5>3
      <4>4. IsInjective(f[n + 1]) /\ IsInjective(ss[i])
        BY <3>2, <3>3, <4>1
      <4> DEFINE u == f[n + 1]
                 v == ss[i]
      <4>5. /\ u \in Seq(S) /\ v \in Seq(S) /\ f[i] = u \o v /\ IsInjective(u) /\ IsInjective(v)
            /\ RangeOf(u) \cap RangeOf(v) = {}
        BY <3>4, <3>5, <4>3, <4>4
      <4> HIDE DEF u, v
      <4> QED BY <4>5, ConcatInjective
    <3> QED BY <3>6, <3>7, <3>8
  <2>5. T = Nat
    <3> DEFINE U == T
    <3>1. U \in SUBSET Nat /\ 0 \in U /\ \A n \in U : n + 1 \in U
      <4> HIDE DEF Good
      <4> QED BY <2>3, <2>4
    <3> HIDE DEF U
    <3>2. U = Nat
      BY <3>1, AllNaturals
    <3> QED BY <3>2 DEF U
  <2>6. Good(Len(ss))
    <3>1. Len(ss) - 1 \in Nat /\ (Len(ss) - 1) + 1 = Len(ss)
      BY <1>0, <1>2
    <3>2. Len(ss) - 1 \in T
      <4> HIDE DEF T
      <4> QED BY <2>5, <3>1
    <3> HIDE DEF Good
    <3> QED BY <1>0, <3>1, <3>2
  <2> QED BY <1>0, <2>1, <2>6
<1> QED BY <1>1, <1>2
-----------------------------------------------------------------------------
(* The lists of entries and steps.                                         *)

IsListed(list, S) ==
  /\ list \in [entries : Seq(S), steps : Seq(Nat)]
  /\ Len(list.entries) = Len(list.steps)

Paired(list) == \A n \in DOMAIN list.entries : list.steps[n] = list.entries[n].born

Ascends(list) ==
  \A m, n \in DOMAIN list.entries : m < n => list.entries[m].born <= list.entries[n].born

\* Some of the entries of all, with their steps and in their order.
Within(list, all) ==
  \E h \in [DOMAIN list.entries -> DOMAIN all.entries] :
    /\ \A n \in DOMAIN list.entries : /\ list.entries[n] = all.entries[h[n]]
                                      /\ list.steps[n] = all.steps[h[n]]
    /\ \A m, n \in DOMAIN list.entries : m < n => h[m] < h[n]

LEMMA WithinKeeps ==
  ASSUME NEW S, NEW list, NEW all, IsListed(list, S), IsListed(all, S), Within(list, all)
  PROVE  /\ Paired(all) => Paired(list)
         /\ Ascends(all) => Ascends(list)
         /\ IsInjective(all.entries) => IsInjective(list.entries)
         /\ RangeOf(list.entries) \subseteq RangeOf(all.entries)
<1>1. PICK h \in [DOMAIN list.entries -> DOMAIN all.entries] :
         /\ \A n \in DOMAIN list.entries : /\ list.entries[n] = all.entries[h[n]]
                                           /\ list.steps[n] = all.steps[h[n]]
         /\ \A m, n \in DOMAIN list.entries : m < n => h[m] < h[n]
  BY DEF Within
<1>2. \A n \in DOMAIN list.entries : h[n] \in DOMAIN all.entries
  OBVIOUS
<1>3. Paired(all) => Paired(list)
  BY <1>1, <1>2 DEF Paired
<1>4. Ascends(all) => Ascends(list)
  BY <1>1, <1>2 DEF Ascends
<1>5. RangeOf(list.entries) \subseteq RangeOf(all.entries)
  BY <1>1, <1>2 DEF RangeOf
<1>6. IsInjective(all.entries) => IsInjective(list.entries)
  <2>1. SUFFICES ASSUME IsInjective(all.entries), NEW m \in DOMAIN list.entries, NEW n \in DOMAIN list.entries,
                        list.entries[m] = list.entries[n], m # n
                 PROVE  FALSE
    BY DEF IsInjective
  <2>2. h[m] = h[n]
    BY <1>1, <1>2, <2>1 DEF IsInjective
  <2>3. DOMAIN list.entries \subseteq Int /\ DOMAIN all.entries \subseteq Int
    BY DEF IsListed
  <2>4. m < n \/ n < m
    BY <2>1, <2>3
  <2>5. h[m] \in Int /\ h[n] \in Int
    BY <1>2, <2>3
  <2> QED BY <1>1, <2>2, <2>4, <2>5
<1> QED BY <1>3, <1>4, <1>5, <1>6

LEMMA WithinTransitive ==
  ASSUME NEW a, NEW b, NEW c, Within(a, b), Within(b, c)
  PROVE  Within(a, c)
<1>1. PICK g \in [DOMAIN a.entries -> DOMAIN b.entries] :
         /\ \A n \in DOMAIN a.entries : a.entries[n] = b.entries[g[n]] /\ a.steps[n] = b.steps[g[n]]
         /\ \A m, n \in DOMAIN a.entries : m < n => g[m] < g[n]
  BY DEF Within
<1>2. PICK h \in [DOMAIN b.entries -> DOMAIN c.entries] :
         /\ \A n \in DOMAIN b.entries : b.entries[n] = c.entries[h[n]] /\ b.steps[n] = c.steps[h[n]]
         /\ \A m, n \in DOMAIN b.entries : m < n => h[m] < h[n]
  BY DEF Within
<1> DEFINE k == [n \in DOMAIN a.entries |-> h[g[n]]]
<1>3. k \in [DOMAIN a.entries -> DOMAIN c.entries]
  OBVIOUS
<1>4. \A n \in DOMAIN a.entries : a.entries[n] = c.entries[k[n]] /\ a.steps[n] = c.steps[k[n]]
  BY <1>1, <1>2
<1>5. \A m, n \in DOMAIN a.entries : m < n => k[m] < k[n]
  BY <1>1, <1>2
<1> HIDE DEF k
<1> QED BY <1>3, <1>4, <1>5 DEF Within

LEMMA AddedFacts ==
  ASSUME NEW S, NEW list, NEW new \in Seq(S), NEW now \in Nat, IsListed(list, S)
  PROVE  /\ IsListed(Added(list, new, now), S)
         /\ Len(Added(list, new, now).entries) = Len(list.entries) + Len(new)
         /\ RangeOf(Added(list, new, now).entries) = RangeOf(list.entries) \cup RangeOf(new)
         /\ \A n \in 1..(Len(list.entries) + Len(new)) :
              IF n <= Len(list.entries)
              THEN /\ n \in DOMAIN list.entries
                   /\ Added(list, new, now).entries[n] = list.entries[n]
                   /\ Added(list, new, now).steps[n] = list.steps[n]
              ELSE /\ n - Len(list.entries) \in DOMAIN new
                   /\ Added(list, new, now).entries[n] = new[n - Len(list.entries)]
                   /\ Added(list, new, now).steps[n] = now
<1> DEFINE nows == [n \in DOMAIN new |-> now]
           all == Added(list, new, now)
<1>1. /\ list.entries \in Seq(S) /\ list.steps \in Seq(Nat) /\ Len(list.entries) = Len(list.steps)
      /\ Len(list.entries) \in Nat /\ Len(new) \in Nat /\ DOMAIN new = 1..Len(new)
      /\ DOMAIN list.entries = 1..Len(list.entries)
  BY DEF IsListed
<1>2. nows \in Seq(Nat) /\ Len(nows) = Len(new) /\ \A n \in 1..Len(new) : nows[n] = now
  <2>1. nows \in [1..Len(new) -> Nat]
    BY <1>1
  <2> QED BY <1>1, <2>1, IsASeq, LenProperties
<1>3. all.entries = list.entries \o new /\ all.steps = list.steps \o nows
      /\ all = [entries |-> list.entries \o new, steps |-> list.steps \o nows]
  BY DEF Added
<1> HIDE DEF nows, all
<1>4. /\ list.entries \o new \in Seq(S) /\ Len(list.entries \o new) = Len(list.entries) + Len(new)
      /\ RangeOf(list.entries \o new) = RangeOf(list.entries) \cup RangeOf(new)
      /\ \A n \in 1..(Len(list.entries) + Len(new)) :
           (list.entries \o new)[n] = IF n <= Len(list.entries) THEN list.entries[n] ELSE new[n - Len(list.entries)]
  <2> DEFINE u == list.entries
  <2>1. u \in Seq(S)
    BY <1>1
  <2> HIDE DEF u
  <2>2. /\ u \o new \in Seq(S) /\ Len(u \o new) = Len(u) + Len(new)
        /\ RangeOf(u \o new) = RangeOf(u) \cup RangeOf(new)
        /\ \A n \in 1..(Len(u) + Len(new)) : (u \o new)[n] = IF n <= Len(u) THEN u[n] ELSE new[n - Len(u)]
    BY <2>1, ConcatFacts
  <2> QED BY <2>2 DEF u
<1>5. /\ list.steps \o nows \in Seq(Nat) /\ Len(list.steps \o nows) = Len(list.entries) + Len(new)
      /\ \A n \in 1..(Len(list.entries) + Len(new)) :
           (list.steps \o nows)[n] = IF n <= Len(list.entries) THEN list.steps[n] ELSE nows[n - Len(list.entries)]
  <2> DEFINE u == list.steps
  <2>1. u \in Seq(Nat) /\ Len(u) = Len(list.entries)
    BY <1>1
  <2> HIDE DEF u
  <2>2. /\ u \o nows \in Seq(Nat) /\ Len(u \o nows) = Len(u) + Len(nows)
        /\ \A n \in 1..(Len(u) + Len(nows)) : (u \o nows)[n] = IF n <= Len(u) THEN u[n] ELSE nows[n - Len(u)]
    <3>1. u \in Seq(Nat) /\ nows \in Seq(Nat)
      BY <1>2, <2>1
    <3> QED BY <3>1, ConcatProperties
  <2>3. /\ u \o nows \in Seq(Nat) /\ Len(u \o nows) = Len(list.entries) + Len(new)
        /\ \A n \in 1..(Len(list.entries) + Len(new)) :
             (u \o nows)[n] = IF n <= Len(list.entries) THEN u[n] ELSE nows[n - Len(list.entries)]
    BY <1>2, <2>1, <2>2
  <2> QED BY <2>3 DEF u
<1>6. ASSUME NEW n \in 1..(Len(list.entries) + Len(new))
      PROVE  /\ n <= Len(list.entries) => n \in DOMAIN list.entries
             /\ ~(n <= Len(list.entries)) => n - Len(list.entries) \in 1..Len(new)
  BY <1>1
<1>7. IsListed(all, S)
  BY <1>3, <1>4, <1>5 DEF IsListed
<1> QED BY <1>1, <1>2, <1>3, <1>4, <1>5, <1>6, <1>7 DEF all

LEMMA ListAtFacts ==
  ASSUME NEW S, NEW list, IsListed(list, S), NEW I \in SUBSET DOMAIN list.entries
  PROVE  /\ IsListed(ListAt(list, I), S)
         /\ Within(ListAt(list, I), list)
         /\ Len(ListAt(list, I).entries) = Cardinality(I) /\ Cardinality(I) \in Nat
         /\ Cardinality(I) <= Len(list.entries)
         /\ \A n \in DOMAIN ListAt(list, I).entries :
              /\ Nth(I, n) \in I
              /\ ListAt(list, I).entries[n] = list.entries[Nth(I, n)]
              /\ ListAt(list, I).steps[n] = list.steps[Nth(I, n)]
         /\ \A i \in I : \E n \in DOMAIN ListAt(list, I).entries : Nth(I, n) = i
         /\ \A m, n \in DOMAIN ListAt(list, I).entries : m < n => Nth(I, m) < Nth(I, n)
<1> DEFINE left == ListAt(list, I)
           es == At(list.entries, I)
           ss == At(list.steps, I)
<1>1. /\ list.entries \in Seq(S) /\ list.steps \in Seq(Nat) /\ Len(list.entries) = Len(list.steps)
      /\ DOMAIN list.entries = 1..Len(list.entries) /\ DOMAIN list.steps = DOMAIN list.entries
  BY DEF IsListed
<1>2. left = [entries |-> es, steps |-> ss] /\ left.entries = es /\ left.steps = ss
  BY DEF ListAt
<1>3. /\ es \in Seq(S) /\ Len(es) = Cardinality(I) /\ Cardinality(I) \in Nat /\ Cardinality(I) <= Len(list.entries)
      /\ \A n \in DOMAIN es : Nth(I, n) \in I /\ es[n] = list.entries[Nth(I, n)]
      /\ \A i \in I : \E n \in DOMAIN es : Nth(I, n) = i
      /\ \A m, n \in DOMAIN es : m < n => Nth(I, m) < Nth(I, n)
  BY <1>1, AtFacts
<1>4. /\ ss \in Seq(Nat) /\ Len(ss) = Cardinality(I)
      /\ \A n \in DOMAIN ss : ss[n] = list.steps[Nth(I, n)]
  BY <1>1, AtFacts
<1>5. DOMAIN ss = DOMAIN es
  BY <1>3, <1>4
<1>6. IsListed(left, S)
  BY <1>2, <1>3, <1>4 DEF IsListed
<1> HIDE DEF left, es, ss
<1>7. Within(left, list)
  <2> DEFINE h == [n \in DOMAIN es |-> Nth(I, n)]
  <2>1. h \in [DOMAIN left.entries -> DOMAIN list.entries]
    BY <1>2, <1>3
  <2>2. \A n \in DOMAIN left.entries : left.entries[n] = list.entries[h[n]] /\ left.steps[n] = list.steps[h[n]]
    BY <1>2, <1>3, <1>4, <1>5
  <2>3. \A m, n \in DOMAIN left.entries : m < n => h[m] < h[n]
    BY <1>2, <1>3
  <2> HIDE DEF h
  <2> QED BY <2>1, <2>2, <2>3 DEF Within
<1> QED BY <1>2, <1>3, <1>4, <1>5, <1>6, <1>7 DEF left

LEMMA CutToFacts ==
  ASSUME NEW S, NEW list, IsListed(list, S), NEW k \in Nat
  PROVE  /\ IsListed(CutTo(list, k), S)
         /\ Within(CutTo(list, k), list)
         /\ Len(CutTo(list, k).entries) = AtMost(k, Len(list.entries))
         /\ \A n \in DOMAIN CutTo(list, k).entries :
              /\ Len(list.entries) - AtMost(k, Len(list.entries)) + n \in DOMAIN list.entries
              /\ CutTo(list, k).entries[n] = list.entries[Len(list.entries) - AtMost(k, Len(list.entries)) + n]
<1> DEFINE left == CutTo(list, k)
           es == Newest(k, list.entries)
           ss == Newest(k, list.steps)
           N == Len(list.entries)
           m == AtMost(k, N)
<1>1. /\ list.entries \in Seq(S) /\ list.steps \in Seq(Nat) /\ Len(list.steps) = N
      /\ DOMAIN list.entries = 1..N /\ DOMAIN list.steps = DOMAIN list.entries /\ N \in Nat
  BY DEF IsListed
<1>2. left = [entries |-> es, steps |-> ss] /\ left.entries = es /\ left.steps = ss
  BY DEF CutTo
<1>3. /\ m \in Nat /\ es \in Seq(S) /\ Len(es) = m
      /\ \A i \in 1..m : es[i] = list.entries[N - m + i] /\ N - m + i \in DOMAIN list.entries
  BY <1>1, NewestFacts
<1>4. ss \in Seq(Nat) /\ Len(ss) = m /\ \A i \in 1..m : ss[i] = list.steps[N - m + i]
  <2> DEFINE v == list.steps
  <2>1. v \in Seq(Nat) /\ Len(v) = N
    BY <1>1
  <2> HIDE DEF v
  <2>2. /\ Newest(k, v) \in Seq(Nat) /\ Len(Newest(k, v)) = AtMost(k, Len(v))
        /\ \A i \in 1..AtMost(k, Len(v)) : Newest(k, v)[i] = v[Len(v) - AtMost(k, Len(v)) + i]
    BY <2>1, NewestFacts
  <2>3. /\ Newest(k, v) \in Seq(Nat) /\ Len(Newest(k, v)) = m
        /\ \A i \in 1..m : Newest(k, v)[i] = v[N - m + i]
    BY <2>1, <2>2
  <2> QED BY <2>3 DEF v
<1>5. DOMAIN es = 1..m
  BY <1>3
<1> HIDE DEF left, es, ss, N, m
<1>6. IsListed(left, S)
  BY <1>2, <1>3, <1>4 DEF IsListed
<1>7. Within(left, list)
  <2> DEFINE h == [i \in 1..m |-> N - m + i]
  <2>1. h \in [DOMAIN left.entries -> DOMAIN list.entries]
    BY <1>2, <1>3, <1>5
  <2>2. \A i \in DOMAIN left.entries : left.entries[i] = list.entries[h[i]] /\ left.steps[i] = list.steps[h[i]]
    BY <1>2, <1>3, <1>4, <1>5
  <2>3. \A i, j \in DOMAIN left.entries : i < j => h[i] < h[j]
    BY <1>1, <1>2, <1>3, <1>5
  <2> HIDE DEF h
  <2> QED BY <2>1, <2>2, <2>3 DEF Within
<1> QED BY <1>2, <1>3, <1>5, <1>6, <1>7 DEF left, m, N
\* add of a list with eviction: what is left is some of what was there and
\* what was added, in order, not too old and not too much.
LEMMA AddToListFacts ==
  ASSUME NEW S, NEW list, IsListed(list, S), NEW new \in Seq(S), NEW now \in Nat,
         NEW maxAge \in Nat, NEW maxSize \in Nat
  PROVE  /\ IsListed(AddToList(list, new, now, maxAge, maxSize), S)
         /\ Len(AddToList(list, new, now, maxAge, maxSize).entries) <= maxSize
         /\ Within(AddToList(list, new, now, maxAge, maxSize), Added(list, new, now))
         /\ \A n \in DOMAIN AddToList(list, new, now, maxAge, maxSize).entries :
              now - AddToList(list, new, now, maxAge, maxSize).steps[n] <= maxAge
<1> DEFINE all == Added(list, new, now)
           Y == YoungEnough(all, now, maxAge)
           young == ListAt(all, Y)
           left == CutTo(young, maxSize)
<1>1. IsListed(all, S)
  BY AddedFacts
<1>2. Y \subseteq DOMAIN all.entries
  BY <1>1 DEF YoungEnough, IsListed
<1>3. AddToList(list, new, now, maxAge, maxSize) = left
  BY DEF AddToList
<1> HIDE DEF all
<1>4. /\ IsListed(young, S) /\ Within(young, all)
      /\ \A n \in DOMAIN young.entries : Nth(Y, n) \in Y /\ young.steps[n] = all.steps[Nth(Y, n)]
  <2> HIDE DEF Y
  <2> QED BY <1>1, <1>2, ListAtFacts
<1>5. \A n \in DOMAIN young.entries : now - young.steps[n] <= maxAge
  BY <1>4 DEF YoungEnough
<1> HIDE DEF young, Y
<1>6. /\ IsListed(left, S) /\ Within(left, young) /\ Len(left.entries) = AtMost(maxSize, Len(young.entries))
  BY <1>4, CutToFacts
<1> HIDE DEF left
<1>7. Within(left, all)
  BY <1>4, <1>6, WithinTransitive
<1>8. AtMost(maxSize, Len(young.entries)) <= maxSize
  <2>1. Len(young.entries) \in Nat
    BY <1>4 DEF IsListed
  <2> QED BY <2>1 DEF AtMost
<1>9. \A n \in DOMAIN left.entries : now - left.steps[n] <= maxAge
  BY <1>5, <1>6 DEF Within
<1> QED BY <1>3, <1>6, <1>7, <1>8, <1>9 DEF all

LEMMA AddedKeeps ==
  ASSUME NEW S, NEW list, IsListed(list, S), NEW new \in Seq(S), NEW now \in Nat,
         \A n \in DOMAIN new : new[n].born = now
  PROVE  /\ Paired(list) => Paired(Added(list, new, now))
         /\ Ascends(list) /\ (\A n \in DOMAIN list.entries : list.entries[n].born <= now)
              => Ascends(Added(list, new, now))
         /\ /\ IsInjective(list.entries) /\ IsInjective(new) /\ RangeOf(list.entries) \cap RangeOf(new) = {}
            => IsInjective(Added(list, new, now).entries)
<1> DEFINE all == Added(list, new, now)
           N == Len(list.entries)
<1>1. /\ IsListed(all, S) /\ N \in Nat /\ Len(new) \in Nat
      /\ list.entries \in Seq(S) /\ DOMAIN all.entries = 1..(N + Len(new))
  <2>1. IsListed(all, S) /\ Len(all.entries) = N + Len(new)
    BY AddedFacts
  <2>2. N \in Nat /\ list.entries \in Seq(S)
    BY DEF IsListed
  <2>3. all.entries \in Seq(S)
    BY <2>1 DEF IsListed
  <2> HIDE DEF all, N
  <2> QED BY <2>1, <2>2, <2>3
<1>2. \A n \in 1..(N + Len(new)) :
        IF n <= N
        THEN n \in DOMAIN list.entries /\ all.entries[n] = list.entries[n] /\ all.steps[n] = list.steps[n]
        ELSE n - N \in DOMAIN new /\ all.entries[n] = new[n - N] /\ all.steps[n] = now
  BY AddedFacts
<1>3. all.entries = list.entries \o new
  BY DEF Added
<1> HIDE DEF all, N
<1>4. Paired(list) => Paired(all)
  BY <1>1, <1>2 DEF Paired
<1>5. ASSUME Ascends(list), \A n \in DOMAIN list.entries : list.entries[n].born <= now
      PROVE  Ascends(all)
  <2>1. SUFFICES ASSUME NEW m \in DOMAIN all.entries, NEW n \in DOMAIN all.entries, m < n
                 PROVE  all.entries[m].born <= all.entries[n].born
    BY DEF Ascends
  <2>2. m \in 1..(N + Len(new)) /\ n \in 1..(N + Len(new)) /\ m \in Int /\ n \in Int
    BY <1>1
  <2>3. CASE n <= N
    <3>1. m <= N
      BY <1>1, <2>1, <2>2, <2>3
    <3> QED BY <1>2, <1>5, <2>1, <2>2, <2>3, <3>1 DEF Ascends
  <2>4. CASE ~(n <= N)
    <3>1. all.entries[n].born = now
      BY <1>2, <2>2, <2>4
    <3>2. all.entries[m].born <= now
      <4>1. CASE m <= N
        BY <1>2, <1>5, <2>2, <4>1
      <4>2. CASE ~(m <= N)
        <5>1. all.entries[m].born = now
          BY <1>2, <2>2, <4>2
        <5> QED BY <5>1
      <4> QED BY <4>1, <4>2
    <3> QED BY <3>1, <3>2
  <2> QED BY <2>3, <2>4
<1>6. ASSUME IsInjective(list.entries), IsInjective(new), RangeOf(list.entries) \cap RangeOf(new) = {}
      PROVE  IsInjective(all.entries)
  <2> DEFINE u == list.entries
  <2>1. u \in Seq(S) /\ IsInjective(u) /\ RangeOf(u) \cap RangeOf(new) = {} /\ all.entries = u \o new
    BY <1>1, <1>3, <1>6
  <2> HIDE DEF u
  <2> QED BY <1>6, <2>1, ConcatInjective
<1> QED BY <1>4, <1>5, <1>6 DEF all

\* What add evicts is too old, or the list is full; and it is not younger
\* than anything that stays.
LEMMA EvictedFacts ==
  ASSUME NEW S, NEW list, IsListed(list, S), NEW new \in Seq(S), NEW now \in Nat,
         NEW maxAge \in Nat, NEW maxSize \in Nat,
         Paired(Added(list, new, now)), Ascends(Added(list, new, now)),
         NEW e \in RangeOf(list.entries) \cup RangeOf(new),
         e \notin RangeOf(AddToList(list, new, now, maxAge, maxSize).entries)
  PROVE  /\ \/ now - e.born > maxAge
            \/ Len(AddToList(list, new, now, maxAge, maxSize).entries) = maxSize
         /\ \A f \in RangeOf(AddToList(list, new, now, maxAge, maxSize).entries) : e.born <= f.born
<1> DEFINE all == Added(list, new, now)
           Y == YoungEnough(all, now, maxAge)
           young == ListAt(all, Y)
           left == CutTo(young, maxSize)
           L == Len(young.entries)
           m == AtMost(maxSize, L)
<1>1. IsListed(all, S) /\ RangeOf(all.entries) = RangeOf(list.entries) \cup RangeOf(new)
  BY AddedFacts
<1>2. Y \subseteq DOMAIN all.entries
  BY <1>1 DEF YoungEnough, IsListed
<1>3. AddToList(list, new, now, maxAge, maxSize) = left
  BY DEF AddToList
<1>4. Paired(all) /\ Ascends(all)
  OBVIOUS
<1> HIDE DEF all
<1>5. /\ IsListed(young, S) /\ Within(young, all)
      /\ \A n \in DOMAIN young.entries : /\ Nth(Y, n) \in Y
                                         /\ young.entries[n] = all.entries[Nth(Y, n)]
                                         /\ young.steps[n] = all.steps[Nth(Y, n)]
      /\ \A i \in Y : \E n \in DOMAIN young.entries : Nth(Y, n) = i
  <2> HIDE DEF Y
  <2> QED BY <1>1, <1>2, ListAtFacts
<1>6. Paired(young) /\ Ascends(young)
  <2> HIDE DEF young
  <2> QED BY <1>1, <1>4, <1>5, WithinKeeps
<1>7. /\ Len(left.entries) = m /\ L \in Nat /\ m \in Nat /\ m <= L /\ (m = L \/ m = maxSize)
      /\ DOMAIN young.entries = 1..L /\ DOMAIN left.entries = 1..m
      /\ \A n \in 1..m : L - m + n \in DOMAIN young.entries /\ left.entries[n] = young.entries[L - m + n]
  <2>1. L \in Nat /\ DOMAIN young.entries = 1..L
    BY <1>5 DEF IsListed
  <2>2. m \in Nat /\ m <= L /\ (m = L \/ m = maxSize)
    BY <2>1 DEF AtMost
  <2>3. /\ IsListed(left, S) /\ Len(left.entries) = m
        /\ \A n \in DOMAIN left.entries : L - m + n \in DOMAIN young.entries /\ left.entries[n] = young.entries[L - m + n]
    <3> HIDE DEF young
    <3> QED BY <1>5, CutToFacts
  <2>4. DOMAIN left.entries = 1..m
    BY <2>3 DEF IsListed
  <2> QED BY <2>1, <2>2, <2>3, <2>4
<1>8. PICK i \in DOMAIN all.entries : e = all.entries[i]
  BY <1>1 DEF RangeOf
<1>9. /\ DOMAIN all.steps = DOMAIN all.entries /\ e.born = all.steps[i] /\ e.born \in Nat
  <2>1. all.entries \in Seq(S) /\ all.steps \in Seq(Nat) /\ Len(all.entries) = Len(all.steps)
    BY <1>1 DEF IsListed
  <2>2. DOMAIN all.steps = DOMAIN all.entries /\ all.steps[i] \in Nat
    BY <2>1, ElementOfSeq
  <2> QED BY <1>4, <1>8, <2>2 DEF Paired
<1> HIDE DEF young, left, L, m
<1>10. CASE i \notin Y
  <2>1. now - e.born > maxAge
    BY <1>9, <1>10 DEF YoungEnough
  <2>2. ASSUME NEW n \in 1..m PROVE e.born <= left.entries[n].born
    <3>1. L - m + n \in DOMAIN young.entries /\ left.entries[n] = young.entries[L - m + n]
      BY <1>7
    <3> DEFINE p == Nth(Y, L - m + n)
    <3>2. p \in Y /\ left.entries[n] = all.entries[p]
      BY <1>5, <3>1
    <3> HIDE DEF p
    <3>3. p \in DOMAIN all.entries /\ now - all.steps[p] <= maxAge /\ all.steps[p] = left.entries[n].born
      BY <1>2, <1>4, <3>2 DEF YoungEnough, Paired
    <3>4. all.steps[p] \in Nat
      BY <1>1, <1>9, <3>3, ElementOfSeq DEF IsListed
    <3> QED BY <1>9, <2>1, <3>3, <3>4
  <2> QED BY <1>3, <1>7, <2>1, <2>2 DEF RangeOf
<1>11. CASE i \in Y
  <2>1. PICK p \in 1..L : young.entries[p] = e
    <3>1. PICK p \in DOMAIN young.entries : Nth(Y, p) = i
      BY <1>5, <1>11
    <3>2. young.entries[p] = e
      BY <1>5, <1>8, <3>1
    <3> QED BY <1>7, <3>1, <3>2
  <2>2. p <= L - m
    <3>1. SUFFICES ASSUME ~(p <= L - m) PROVE FALSE
      OBVIOUS
    <3>2. p - (L - m) \in 1..m /\ L - m + (p - (L - m)) = p
      <4>1. p \in Nat /\ 1 <= p /\ p <= L
        BY <1>7, <2>1
      <4>2. L \in Nat /\ m \in Nat /\ m <= L
        BY <1>7
      <4> QED BY <3>1, <4>1, <4>2
    <3>3. left.entries[p - (L - m)] = e
      BY <1>7, <2>1, <3>2
    <3> QED BY <1>3, <1>7, <3>2, <3>3 DEF RangeOf
  <2>3. m = maxSize
    BY <1>7, <2>1, <2>2
  <2>4. ASSUME NEW n \in 1..m PROVE e.born <= left.entries[n].born
    <3>1. L - m + n \in DOMAIN young.entries /\ left.entries[n] = young.entries[L - m + n]
      BY <1>7
    <3>2. p < L - m + n /\ p \in DOMAIN young.entries
      BY <1>7, <2>1, <2>2
    <3> QED BY <1>6, <2>1, <3>1, <3>2 DEF Ascends
  <2> QED BY <1>3, <1>7, <2>3, <2>4 DEF RangeOf
<1> QED BY <1>10, <1>11
LEMMA SeqMonotone ==
  ASSUME NEW S, NEW T, S \subseteq T, NEW s \in Seq(S)
  PROVE  s \in Seq(T)
<1>1. s \in [1..Len(s) -> T] /\ Len(s) \in Nat
  <2>1. \A n \in 1..Len(s) : s[n] \in S
    BY ElementOfSeq
  <2> QED BY <2>1
<1> QED BY <1>1, IsASeq

LEMMA ListMonotone ==
  ASSUME NEW S, NEW T, S \subseteq T, NEW list, IsListed(list, S)
  PROVE  IsListed(list, T)
<1>1. list.entries \in Seq(T)
  BY SeqMonotone DEF IsListed
<1> QED BY <1>1 DEF IsListed

LEMMA InRange ==
  ASSUME NEW S, NEW T, NEW s \in Seq(S), RangeOf(s) \subseteq T
  PROVE  s \in Seq(T)
<1>1. s \in [1..Len(s) -> T] /\ Len(s) \in Nat
  BY DEF RangeOf
<1> QED BY <1>1, IsASeq

\* What is taken out of a pool is no longer there.
LEMMA SplitFacts ==
  ASSUME NEW S, NEW s \in Seq(S), NEW I \in SUBSET DOMAIN s
  PROVE  /\ At(s, I) \in Seq(S) /\ Except(s, I) \in Seq(S)
         /\ Len(At(s, I)) = Cardinality(I) /\ Len(Except(s, I)) <= Len(s)
         /\ RangeOf(At(s, I)) \subseteq RangeOf(s) /\ RangeOf(Except(s, I)) \subseteq RangeOf(s)
         /\ IsInjective(s) => /\ IsInjective(Except(s, I))
                              /\ RangeOf(At(s, I)) \cap RangeOf(Except(s, I)) = {}
<1> DEFINE J == DOMAIN s \ I
           t == At(s, I)
           u == At(s, J)
<1>1. /\ t \in Seq(S) /\ Len(t) = Cardinality(I)
      /\ \A n \in DOMAIN t : Nth(I, n) \in I /\ t[n] = s[Nth(I, n)]
  BY AtFacts
<1>2. J \in SUBSET DOMAIN s
  OBVIOUS
<1>3. /\ u \in Seq(S) /\ Len(u) = Cardinality(J) /\ Cardinality(J) <= Len(s)
      /\ \A n \in DOMAIN u : Nth(J, n) \in J /\ u[n] = s[Nth(J, n)]
      /\ \A m, n \in DOMAIN u : m < n => Nth(J, m) < Nth(J, n)
  <2> HIDE DEF J
  <2> QED BY <1>2, AtFacts
<1>4. Except(s, I) = u
  BY DEF Except
<1> HIDE DEF t, u
<1>5. \A n \in DOMAIN t : t[n] \in RangeOf(s)
  BY <1>1 DEF RangeOf
<1>6. \A n \in DOMAIN u : u[n] \in RangeOf(s)
  BY <1>3 DEF RangeOf
<1>7. ASSUME IsInjective(s), NEW m \in DOMAIN t, NEW n \in DOMAIN u PROVE t[m] # u[n]
  BY <1>1, <1>3, <1>7 DEF IsInjective
<1>8. ASSUME IsInjective(s), NEW m \in DOMAIN u, NEW n \in DOMAIN u, m # n PROVE u[m] # u[n]
  <2>1. DOMAIN u \subseteq Int /\ DOMAIN s \subseteq Int
    BY <1>3
  <2>2. m < n \/ n < m
    BY <1>8, <2>1
  <2>3. Nth(J, m) \in DOMAIN s /\ Nth(J, n) \in DOMAIN s
    BY <1>3
  <2>4. Nth(J, m) # Nth(J, n)
    <3>1. Nth(J, m) \in Int /\ Nth(J, n) \in Int
      BY <2>1, <2>3
    <3>2. Nth(J, m) < Nth(J, n) \/ Nth(J, n) < Nth(J, m)
      BY <1>3, <2>2
    <3> QED BY <3>1, <3>2
  <2> QED BY <1>3, <1>8, <2>3, <2>4 DEF IsInjective
<1>9. RangeOf(t) \subseteq RangeOf(s) /\ RangeOf(u) \subseteq RangeOf(s)
  BY <1>5, <1>6 DEF RangeOf
<1>10. IsInjective(s) => IsInjective(u)
  BY <1>8 DEF IsInjective
<1>11. IsInjective(s) => RangeOf(t) \cap RangeOf(u) = {}
  BY <1>7 DEF RangeOf
<1> QED BY <1>1, <1>3, <1>4, <1>9, <1>10, <1>11 DEF t

\* Whatever the strategy, a draw is of as many as asked for, if there are.
LEMMA DrawFacts ==
  ASSUME NEW S, NEW s \in Seq(S), NEW n \in Nat, NEW strategy, NEW I \in BatchDraws(s, n, strategy)
  PROVE  I \in SUBSET DOMAIN s /\ Cardinality(I) = AtMost(n, Len(s))
BY DEF BatchDraws, UniformDraws, StratifiedDraws, kSubset

LEMMA SyntheticDrawFacts ==
  ASSUME NEW s, NEW weight, NEW cap, NEW n, NEW I \in SyntheticDraws(s, weight, cap, n)
  PROVE  I \in SUBSET DOMAIN s
BY DEF SyntheticDraws, Candidates, kSubset

-----------------------------------------------------------------------------
(* Deques.                                                                 *)

LEMMA FiniteImage ==
  ASSUME NEW S, IsFiniteSet(S), NEW f
  PROVE  IsFiniteSet({f[x] : x \in S})
<1> DEFINE T == {f[x] : x \in S}
           g == [x \in S |-> f[x]]
<1>1. g \in Surjection(S, T)
  <2>1. g \in [S -> T] /\ \A t \in T : \E x \in S : g[x] = t
    OBVIOUS
  <2> QED BY <2>1 DEF Surjection
<1> HIDE DEF g
<1> QED BY <1>1, FS_Surjection

LEMMA SetToSeqFacts ==
  ASSUME NEW K, IsFiniteSet(K)
  PROVE  /\ SetToSeq(K) \in Seq(K) /\ IsInjective(SetToSeq(K)) /\ RangeOf(SetToSeq(K)) = K
         /\ Len(SetToSeq(K)) = Cardinality(K)
<1> DEFINE n == Cardinality(K)
           s == SetToSeq(K)
<1>1. n \in Nat /\ ExistsBijection(1..n, K)
  BY FS_CardinalityType
<1>2. PICK b \in [1..n -> K] : IsInjective(b)
  BY <1>1 DEF ExistsBijection, Bijection, Injection, IsInjective
<1>3. s \in [1..n -> K] /\ IsInjective(s)
  BY <1>2, Zenon DEF SetToSeq
<1> HIDE DEF s
<1>4. s \in Injection(1..n, K)
  BY <1>3 DEF Injection, IsInjective
<1>5. Cardinality(1..n) = n
  BY <1>1, FS_Interval
<1>6. s \in Surjection(1..n, K)
  BY <1>4, <1>5, FS_Injection
<1>7. RangeOf(s) = K
  BY <1>3, <1>6 DEF Surjection, RangeOf
<1>8. s \in Seq(K) /\ Len(s) = n
  BY <1>1, <1>3, IsASeq
<1> QED BY <1>3, <1>7, <1>8 DEF s

\* Deques with members of X, none of them empty.
IsDeques(dqs, X) ==
  /\ IsFiniteSet(DOMAIN dqs)
  /\ \A k \in DOMAIN dqs : dqs[k] \in Seq(X) /\ dqs[k] # << >>

LEMMA DequesMonotone ==
  ASSUME NEW X, NEW Y, X \subseteq Y, NEW dqs, IsDeques(dqs, X)
  PROVE  IsDeques(dqs, Y)
BY SeqMonotone DEF IsDeques

LEMMA ConcatNonEmpty ==
  ASSUME NEW X, NEW s \in Seq(X), NEW t \in Seq(X), s # << >> \/ t # << >>
  PROVE  s \o t \in Seq(X) /\ s \o t # << >>
<1>1. s \o t \in Seq(X) /\ Len(s \o t) = Len(s) + Len(t)
  BY ConcatProperties
<1>2. Len(s) \in Nat /\ Len(t) \in Nat /\ (Len(s) # 0 \/ Len(t) # 0)
  BY EmptySeq
<1>3. Len(s \o t) # 0
  BY <1>1, <1>2
<1> QED BY <1>1, <1>3, EmptySeq

LEMMA AddToDequesFacts ==
  ASSUME NEW X, NEW S, NEW dqs, IsDeques(dqs, X), NEW new \in Seq(S), NEW now,
         \A n \in DOMAIN new : <<now, new[n]>> \in X
  PROVE  IsDeques(AddToDeques(dqs, new, now), X)
<1> DEFINE added == AddToDeques(dqs, new, now)
           prompts == {new[n].prompt : n \in DOMAIN new}
<1>1. DOMAIN added = DOMAIN dqs \cup prompts
      /\ \A k \in DOMAIN added : added[k] = Deque(dqs, k) \o Stamped(new, k, now)
  BY DEF AddToDeques
<1>2. IsFiniteSet(DOMAIN added)
  <2> DEFINE f == [n \in DOMAIN new |-> new[n].prompt]
  <2>1. IsFiniteSet(DOMAIN new)
    <3>1. DOMAIN new = 1..Len(new) /\ 1 \in Int /\ Len(new) \in Int
      OBVIOUS
    <3> QED BY <3>1, FS_Interval
  <2>2. prompts = {f[n] : n \in DOMAIN new}
    OBVIOUS
  <2> HIDE DEF f
  <2>3. IsFiniteSet(prompts)
    BY <2>1, <2>2, FiniteImage
  <2> HIDE DEF prompts
  <2>4. IsFiniteSet(DOMAIN dqs \cup prompts)
    BY <2>3, FS_Union DEF IsDeques
  <2> QED BY <1>1, <2>4
<1>3. ASSUME NEW k \in DOMAIN added
      PROVE  added[k] \in Seq(X) /\ added[k] # << >>
  <2> DEFINE I == OfPrompt(new, k)
             mine == At(new, I)
             st == [n \in DOMAIN mine |-> <<now, mine[n]>>]
  <2>1. I \in SUBSET DOMAIN new
    BY DEF OfPrompt
  <2>2. /\ mine \in Seq(S) /\ Len(mine) = Cardinality(I)
        /\ \A n \in DOMAIN mine : Nth(I, n) \in I /\ mine[n] = new[Nth(I, n)]
        /\ \A i \in I : \E n \in DOMAIN mine : Nth(I, n) = i
    <3> HIDE DEF I
    <3> QED BY <2>1, AtFacts
  <2>3. Stamped(new, k, now) = st
    BY DEF Stamped
  <2>4. Len(mine) \in Nat /\ DOMAIN mine = 1..Len(mine)
    BY <2>2
  <2> HIDE DEF mine, I
  <2>5. st \in [1..Len(mine) -> X]
    BY <2>1, <2>2, <2>4
  <2>6. st \in Seq(X) /\ Len(st) = Len(mine)
    BY <2>4, <2>5, IsASeq, LenProperties
  <2>7. Deque(dqs, k) \in Seq(X)
    BY DEF Deque, IsDeques
  <2> HIDE DEF st
  <2>8. CASE k \in DOMAIN dqs
    <3>1. Deque(dqs, k) # << >>
      BY <2>8 DEF Deque, IsDeques
    <3> QED BY <1>1, <2>3, <2>6, <2>7, <3>1, ConcatNonEmpty
  <2>9. CASE k \notin DOMAIN dqs
    <3>1. PICK n \in DOMAIN new : new[n].prompt = k
      BY <1>1, <2>9
    <3>2. n \in I
      BY <3>1 DEF I, OfPrompt
    <3>3. DOMAIN mine # {}
      BY <2>2, <3>2
    <3>4. st # << >>
      BY <2>4, <2>6, <3>3
    <3> DEFINE dq == Deque(dqs, k)
    <3>5. dq \in Seq(X)
      BY <2>7
    <3> HIDE DEF dq
    <3>6. dq \o st \in Seq(X) /\ dq \o st # << >>
      BY <2>6, <3>4, <3>5, ConcatNonEmpty
    <3>7. added[k] = dq \o st
      BY <1>1, <2>3 DEF dq
    <3> HIDE DEF added
    <3> QED BY <3>6, <3>7
  <2> QED BY <2>8, <2>9
<1> HIDE DEF added
<1>4. IsDeques(added, X)
  BY <1>2, <1>3 DEF IsDeques
<1> QED BY <1>4 DEF added

LEMMA LeftByFacts ==
  ASSUME NEW X, NEW dqs, IsDeques(dqs, X), NEW k \in DOMAIN dqs
  PROVE  IsDeques(LeftBy(dqs, k), X) /\ \E x \in X : TakenFrom(dqs, k) = x[2]
<1> DEFINE dq == dqs[k]
           rest == [dqs EXCEPT ![k] = Front(dq)]
<1>1. dq \in Seq(X) /\ dq # << >>
  BY DEF IsDeques
<1>2. Len(dq) \in Nat \ {0} /\ Last(dq) \in X
  <2>1. Len(dq) \in Nat /\ Len(dq) # 0
    BY <1>1, EmptySeq
  <2>2. Len(dq) \in 1..Len(dq)
    BY <2>1
  <2>3. dq[Len(dq)] \in X
    BY <1>1, <2>2, ElementOfSeq
  <2> QED BY <2>1, <2>3 DEF Last
<1>3. Front(dq) \in Seq(X)
  <2> HIDE DEF dq
  <2>1. 1 \in 1..(Len(dq) + 1) /\ Len(dq) - 1 \in (1 - 1)..Len(dq)
    BY <1>2
  <2> QED BY <1>1, <2>1, SubSeqProperties DEF Front
<1>4. TakenFrom(dqs, k) = Last(dq)[2]
  BY DEF TakenFrom, Popped
<1>5. LeftBy(dqs, k) = WithoutEmpty(rest)
  BY DEF LeftBy, Popped
<1>6. DOMAIN rest = DOMAIN dqs /\ \A j \in DOMAIN dqs : rest[j] \in Seq(X)
  BY <1>3 DEF IsDeques
<1> HIDE DEF rest
<1>7. IsDeques(WithoutEmpty(rest), X)
  <2>1. DOMAIN WithoutEmpty(rest) \subseteq DOMAIN dqs
        /\ \A j \in DOMAIN WithoutEmpty(rest) : WithoutEmpty(rest)[j] = rest[j] /\ rest[j] # << >>
    BY <1>6 DEF WithoutEmpty
  <2>2. IsFiniteSet(DOMAIN WithoutEmpty(rest))
    BY <2>1, FS_Subset DEF IsDeques
  <2> QED BY <1>6, <2>1, <2>2 DEF IsDeques
<1> QED BY <1>2, <1>4, <1>5, <1>7

\* A file of deques has their elements, and so have the deques made of it.
LEMMA FlattenedFacts ==
  ASSUME NEW X, NEW dqs, IsDeques(dqs, X)
  PROVE  Flattened(dqs) \in Seq(X)
<1> DEFINE keys == SetToSeq(DOMAIN dqs)
           all == [n \in DOMAIN keys |-> dqs[keys[n]]]
<1>1. keys \in Seq(DOMAIN dqs)
  BY SetToSeqFacts DEF IsDeques
<1> HIDE DEF keys
<1>2. Len(keys) \in Nat /\ DOMAIN keys = 1..Len(keys) /\ \A n \in DOMAIN keys : keys[n] \in DOMAIN dqs
  BY <1>1, ElementOfSeq
<1>3. all \in [1..Len(keys) -> Seq(X)]
  BY <1>2 DEF IsDeques
<1>4. all \in Seq(Seq(X))
  BY <1>2, <1>3, IsASeq
<1>5. Flattened(dqs) = FlattenSeq(all)
  BY DEF Flattened, keys
<1> HIDE DEF all
<1> QED BY <1>4, <1>5, FlattenFacts

LEMMA GroupedFacts ==
  ASSUME NEW X, NEW flat \in Seq(X)
  PROVE  IsDeques(Grouped(flat), X)
<1> DEFINE dqs == Grouped(flat)
           f == [n \in DOMAIN flat |-> flat[n][2].prompt]
           Of(k) == {n \in DOMAIN flat : flat[n][2].prompt = k}
<1>1. DOMAIN dqs = {flat[n][2].prompt : n \in DOMAIN flat} /\ \A k \in DOMAIN dqs : dqs[k] = At(flat, Of(k))
  BY DEF Grouped
<1>2. IsFiniteSet(DOMAIN dqs)
  <2>1. IsFiniteSet(DOMAIN flat)
    <3>1. DOMAIN flat = 1..Len(flat) /\ 1 \in Int /\ Len(flat) \in Int
      OBVIOUS
    <3> QED BY <3>1, FS_Interval
  <2>2. DOMAIN dqs = {f[n] : n \in DOMAIN flat}
    BY <1>1
  <2> HIDE DEF f
  <2> QED BY <2>1, <2>2, FiniteImage
<1>3. ASSUME NEW k \in DOMAIN dqs PROVE dqs[k] \in Seq(X) /\ dqs[k] # << >>
  <2> DEFINE I == Of(k)
  <2>1. PICK n \in DOMAIN flat : n \in I
    BY <1>1
  <2>2. I \in SUBSET DOMAIN flat /\ dqs[k] = At(flat, I)
    BY <1>1
  <2> HIDE DEF I, dqs
  <2>3. At(flat, I) \in Seq(X) /\ \E m \in DOMAIN At(flat, I) : Nth(I, m) = n
    BY <2>1, <2>2, AtFacts
  <2>4. At(flat, I) # << >>
    BY <2>3
  <2> QED BY <2>2, <2>3, <2>4
<1> HIDE DEF dqs
<1>4. IsDeques(dqs, X)
  BY <1>2, <1>3 DEF IsDeques
<1> QED BY <1>4 DEF dqs
-----------------------------------------------------------------------------
(* What a rollout brings.                                                  *)

TreeId == Nat \X Nat \X Nat \X (Prompt \X Nat)

Trajectory == [tree : TreeId, nr : Nat, prompt : Prompt \X Nat, born : Nat, hopeless : BOOLEAN]

Point == [tree : TreeId, nr : Nat, born : Nat, index : Nat, chain : Nat, length : Nat, rest : Int]

Group == [prompt : Prompt \X Nat, entry : Nat, rows : Nat \ {0}, failures : Nat]

\* An entry of the first r processes and s steps.
BornBy(e, s, r) == e.born \in 1..s /\ e.tree[1] \in 1..r /\ e.tree[2] = e.born

Failures(s, r) == {e \in Trajectory : BornBy(e, s, r)}
Hopeless(s, r) == {e \in Failures(s, r) : e.hopeless}

IsExpanding(e) == (e.rest > 0 \/ e.index = 0) /\ e.index + 1 \in 1..e.chain

Points(s, r) == {e \in Point : BornBy(e, s, r) /\ IsExpanding(e)}
Roomy(s, r) == {e \in Points(s, r) : e.length + MinRemaining <= MaxModelLen}
PointsAt(t, s, r) == {e \in Points(s, r) : e.born = t}

\* The groups of a step: one of a prompt of the batch or of an injected entry.
IsGroups(gs) ==
  /\ IsFiniteSet(gs)
  /\ \E N \in Nat : \A g \in gs : g.entry \in 0..N
  /\ \A g \in gs : g \in Group /\ g.failures <= g.rows /\ (g.entry # 0 => g.rows = RolloutN)
  /\ \A g, h \in gs : g.entry = h.entry /\ (g.entry = 0 => g.prompt = h.prompt) => g = h

LEMMA FailedTrajectoriesFacts ==
  ASSUME NEW g \in Group, g.failures <= g.rows, runs \in Nat \ {0}, step \in Nat \ {0}
  PROVE  /\ FailedTrajectories(g) \in Seq(Failures(step, runs))
         /\ IsInjective(FailedTrajectories(g))
         /\ \A e \in RangeOf(FailedTrajectories(g)) :
              e.tree = Tree(g) /\ e.born = step /\ (e.hopeless <=> g.failures = g.rows)
<1> DEFINE fts == FailedTrajectories(g)
<1>1. g.failures \in Nat /\ g.prompt \in Prompt \X Nat /\ g.entry \in Nat
  BY DEF Group
<1>2. Tree(g) \in TreeId /\ Tree(g)[1] = runs /\ Tree(g)[2] = step
  BY <1>1 DEF Tree, TreeId
<1>3. DOMAIN fts = 1..g.failures
      /\ \A n \in 1..g.failures : fts[n] = [tree |-> Tree(g), nr |-> n, prompt |-> g.prompt, born |-> step,
                                            hopeless |-> g.failures = g.rows]
  BY DEF FailedTrajectories
<1>4. ASSUME NEW n \in 1..g.failures
      PROVE  /\ fts[n] \in Failures(step, runs) /\ fts[n].nr = n
             /\ fts[n].tree = Tree(g) /\ fts[n].born = step /\ (fts[n].hopeless <=> g.failures = g.rows)
  <2> DEFINE h == g.failures = g.rows
             e == [tree |-> Tree(g), nr |-> n, prompt |-> g.prompt, born |-> step, hopeless |-> h]
  <2>1. h \in BOOLEAN
    OBVIOUS
  <2>2. n \in Nat
    BY <1>1
  <2> HIDE DEF h
  <2>3. e \in Trajectory
    BY <1>1, <1>2, <2>1, <2>2 DEF Trajectory
  <2>4. e \in Failures(step, runs)
    BY <1>2, <2>3 DEF Failures, BornBy
  <2>5. fts[n] = e
    BY <1>3 DEF h
  <2>6. e.nr = n /\ e.tree = Tree(g) /\ e.born = step /\ e.hopeless = h
    OBVIOUS
  <2> HIDE DEF fts, e
  <2>7. fts[n].hopeless = h
    BY <2>5, <2>6
  <2>8. fts[n].hopeless <=> g.failures = g.rows
    BY <2>7 DEF h
  <2> QED BY <2>4, <2>5, <2>6, <2>8
<1> HIDE DEF fts
<1>5. IsInjective(fts)
  BY <1>3, <1>4 DEF IsInjective
<1>6. fts \in [1..g.failures -> Failures(step, runs)]
  <2>1. fts = [n \in 1..g.failures |-> fts[n]]
    BY DEF fts, FailedTrajectories
  <2> QED BY <1>4, <2>1
<1>7. fts \in Seq(Failures(step, runs))
  BY <1>1, <1>6, IsASeq
<1> QED BY <1>3, <1>4, <1>5, <1>7 DEF fts, RangeOf

\* The failed trajectories of a step: each of one of its groups, and each
\* once.
LEMMA AllFailedFacts ==
  ASSUME NEW gs, IsGroups(gs), runs \in Nat \ {0}, step \in Nat \ {0}
  PROVE  /\ AllFailed(gs) \in Seq(Failures(step, runs))
         /\ IsInjective(AllFailed(gs))
         /\ \A e \in RangeOf(AllFailed(gs)) :
              /\ e.tree[1] = runs /\ e.born = step
              /\ \E g \in gs : e.tree = Tree(g) /\ (e.hopeless <=> g.failures = g.rows)
<1> DEFINE main == {g \in gs : g.entry = 0}
           I == Entries(gs)
           first == SetToSeq(main)
           second == At(ByEntry(gs), I)
           order == first \o second
           fts == [n \in DOMAIN order |-> FailedTrajectories(order[n])]
<1>1. PICK N \in Nat : \A g \in gs : g.entry \in 0..N
  BY DEF IsGroups
<1>2. I \in SUBSET (1..N)
  BY <1>1 DEF Entries
<1>3. first \in Seq(gs) /\ IsInjective(first) /\ RangeOf(first) = main
  <2>1. main \subseteq gs /\ IsFiniteSet(main)
    BY FS_Subset DEF IsGroups
  <2> HIDE DEF main
  <2> QED BY <2>1, SetToSeqFacts, SeqMonotone
<1>4. /\ \A n \in 1..Cardinality(I) : Nth(I, n) \in I
      /\ \A m, n \in 1..Cardinality(I) : Nth(I, m) = Nth(I, n) => m = n
      /\ Cardinality(I) \in Nat
  <2> HIDE DEF I
  <2>1. /\ \A n \in 1..Cardinality(I) : Nth(I, n) \in I /\ Rank(I, Nth(I, n)) = n
        /\ Cardinality(I) \in Nat
    BY <1>2, NthFacts, Ranks
  <2> QED BY <2>1
<1>5. \A i \in I : ByEntry(gs)[i] \in gs /\ ByEntry(gs)[i].entry = i /\ i # 0
  BY DEF ByEntry, Entries
<1>6. DOMAIN second = 1..Cardinality(I) /\ \A n \in DOMAIN second : second[n] = ByEntry(gs)[Nth(I, n)]
  BY DEF At
<1>7. \A n \in DOMAIN second : second[n] \in gs /\ second[n].entry = Nth(I, n) /\ second[n].entry # 0
  <2> HIDE DEF I, second
  <2> QED BY <1>4, <1>5, <1>6
<1>8. second \in Seq(gs) /\ IsInjective(second)
  <2>1. second = [n \in 1..Cardinality(I) |-> second[n]]
    BY DEF At
  <2> HIDE DEF second, I
  <2>2. second \in [1..Cardinality(I) -> gs]
    BY <1>6, <1>7, <2>1
  <2>3. second \in Seq(gs)
    BY <1>4, <2>2, IsASeq
  <2> QED BY <1>4, <1>6, <1>7, <2>3 DEF IsInjective
<1>9. RangeOf(first) \cap RangeOf(second) = {}
  <2> HIDE DEF first, second
  <2> QED BY <1>3, <1>7 DEF RangeOf
<1>10. order \in Seq(gs) /\ IsInjective(order)
  <2> HIDE DEF first, second
  <2> QED BY <1>3, <1>8, <1>9, ConcatInjective, ConcatProperties
<1> HIDE DEF order
<1>11. \A n \in DOMAIN order : /\ order[n] \in gs /\ order[n] \in Group
                               /\ order[n].failures <= order[n].rows
  BY <1>10, ElementOfSeq DEF IsGroups
<1>12. \A n \in DOMAIN order :
         /\ fts[n] \in Seq(Failures(step, runs)) /\ IsInjective(fts[n])
         /\ \A e \in RangeOf(fts[n]) :
              /\ e.tree = Tree(order[n]) /\ e.born = step
              /\ (e.hopeless <=> order[n].failures = order[n].rows)
  BY <1>11, FailedTrajectoriesFacts
<1>13. fts \in Seq(Seq(Failures(step, runs))) /\ DOMAIN fts = DOMAIN order
  <2>1. DOMAIN order = 1..Len(order) /\ Len(order) \in Nat
    BY <1>10
  <2>2. fts = [n \in 1..Len(order) |-> fts[n]]
    BY <2>1
  <2>3. DOMAIN fts = DOMAIN order
    OBVIOUS
  <2> HIDE DEF fts
  <2>4. fts \in [1..Len(order) -> Seq(Failures(step, runs))]
    BY <1>12, <2>1, <2>2
  <2> QED BY <2>1, <2>3, <2>4, IsASeq
<1>14. AllFailed(gs) = FlattenSeq(fts)
  BY DEF AllFailed, order
<1> HIDE DEF fts
<1>15. ASSUME NEW m \in DOMAIN fts, NEW n \in DOMAIN fts, m # n
       PROVE  RangeOf(fts[m]) \cap RangeOf(fts[n]) = {}
  <2>1. order[m] # order[n] /\ order[m] \in gs /\ order[n] \in gs
    BY <1>10, <1>11, <1>13, <1>15 DEF IsInjective
  <2>2. Tree(order[m]) # Tree(order[n])
    BY <2>1 DEF Tree, IsGroups
  <2> QED BY <1>12, <1>13, <2>2
<1>16. AllFailed(gs) \in Seq(Failures(step, runs)) /\ IsInjective(AllFailed(gs))
  BY <1>12, <1>13, <1>14, <1>15, FlattenFacts
<1>17. ASSUME NEW e \in RangeOf(AllFailed(gs))
       PROVE  /\ e.tree[1] = runs /\ e.born = step
              /\ \E g \in gs : e.tree = Tree(g) /\ (e.hopeless <=> g.failures = g.rows)
  <2>1. PICK n \in DOMAIN fts : e \in RangeOf(fts[n])
    BY <1>13, <1>14, FlattenFacts
  <2>2. e.tree = Tree(order[n]) /\ e.born = step /\ (e.hopeless <=> order[n].failures = order[n].rows)
    BY <1>12, <1>13, <2>1
  <2>3. order[n] \in gs
    BY <1>11, <1>13
  <2>4. Tree(order[n])[1] = runs
    BY DEF Tree
  <2> QED BY <2>2, <2>3, <2>4
<1> QED BY <1>16, <1>17-----------------------------------------------------------------------------
(* What a step adds to what may be waiting, and what it leaves out.        *)

Dated(S) == {<<e.born, e>> : e \in S}

LEMMA Growing ==
  ASSUME NEW s \in Int, NEW t \in Int, NEW r \in Int, NEW q \in Int, s <= t, r <= q
  PROVE  /\ Failures(s, r) \subseteq Failures(t, q) /\ Hopeless(s, r) \subseteq Hopeless(t, q)
         /\ Points(s, r) \subseteq Points(t, q) /\ Roomy(s, r) \subseteq Roomy(t, q)
         /\ Dated(Hopeless(s, r)) \subseteq Dated(Hopeless(t, q))
<1>1. \A e : BornBy(e, s, r) => BornBy(e, t, q)
  BY DEF BornBy
<1>2. Failures(s, r) \subseteq Failures(t, q) /\ Points(s, r) \subseteq Points(t, q)
  BY <1>1 DEF Failures, Points
<1>3. Hopeless(s, r) \subseteq Hopeless(t, q) /\ Roomy(s, r) \subseteq Roomy(t, q)
  BY <1>2 DEF Hopeless, Roomy
<1>4. Dated(Hopeless(s, r)) \subseteq Dated(Hopeless(t, q))
  BY <1>3 DEF Dated
<1> QED BY <1>2, <1>3, <1>4

LEMMA SegmentFits ==
  ASSUME NEW L \in Nat \ {0}, NEW k \in 1..L, NEW i \in 1..k
  PROVE  i * (L \div k) + Lesser(i, L % k) \in 0..L
<1> DEFINE q == L \div k
           r == L % k
<1>1. k \in Nat \ {0} /\ q \in Nat /\ r \in 0..(k - 1) /\ L = k * q + r
  OBVIOUS
<1> HIDE DEF q, r
<1>2. i * q \in Nat /\ k * q \in Nat /\ i * q <= k * q
  <2>1. i \in Nat /\ k - i \in Nat
    BY <1>1
  <2>2. k * q = i * q + (k - i) * q
    BY <1>1, <2>1
  <2>3. i * q \in Nat /\ (k - i) * q \in Nat
    BY <1>1, <2>1
  <2> QED BY <2>2, <2>3
<1>3. Lesser(i, r) \in Nat /\ Lesser(i, r) <= r
  BY <1>1 DEF Lesser
<1>4. i * q + Lesser(i, r) \in 0..L
  BY <1>1, <1>2, <1>3
<1> QED BY <1>4 DEF q, r

LEMMA EndsFacts ==
  ASSUME NEW r \in Response, NEW segments \in {"sp", "tp", "fp"}
  PROVE  Len(r) \in Nat /\ Ends(segments, r) \in SUBSET (0..Len(r))
<1>1. r \in Seq(Range(r))
  BY FlatAssumption
<1>2. Len(r) \in Nat /\ DOMAIN r = 1..Len(r)
  BY <1>1
<1>3. CASE r = << >>
  BY <1>2, <1>3 DEF Ends
<1>4. CASE r # << >>
  <2>1. Len(r) \in Nat \ {0}
    BY <1>1, <1>4, EmptySeq
  <2>2. SentenceEnds(r) \in SUBSET (0..Len(r)) /\ TokenCountEnds(r) \in SUBSET (0..Len(r))
    BY <1>2 DEF SentenceEnds, TokenCountEnds
  <2>3. FixedCountEnds(r) \in SUBSET (0..Len(r))
    <3> DEFINE k == Lesser(NSegments, Len(r))
    <3>1. k \in 1..Len(r)
      BY <2>1, PartitionAssumption DEF Lesser
    <3> HIDE DEF k
    <3>2. \A i \in 1..k : i * (Len(r) \div k) + Lesser(i, Len(r) % k) \in 0..Len(r)
      BY <2>1, <3>1, SegmentFits
    <3> QED BY <3>2 DEF FixedCountEnds, k
  <2> QED BY <1>2, <1>4, <2>2, <2>3 DEF Ends
<1> QED BY <1>2, <1>3, <1>4

\* A selected node is the root, or it has tokens behind it; and it is one of
\* the chain.
LEMMA PointFacts ==
  ASSUME NEW r \in Response, setting.segments \in {"sp", "tp", "fp"},
         NEW s, NEW q, NEW ft \in Failures(s, q),
         NEW node \in Selectable(Ends(setting.segments, r), r)
  PROVE  PointOf(ft, r, node) \in Points(s, q) /\ PointOf(ft, r, node).born = ft.born
<1> DEFINE ends == Ends(setting.segments, r)
           c == 1 + Cardinality(ends)
           e == PointOf(ft, r, node)
<1>1. Len(r) \in Nat /\ ends \in SUBSET (0..Len(r))
  BY EndsFacts
<1> HIDE DEF ends
<1>2. IsFiniteSet(ends) /\ Cardinality(ends) \in Nat
  <2>1. IsFiniteSet(0..Len(r))
    BY <1>1, FS_Interval
  <2> QED BY <1>1, <2>1, FS_Subset, FS_CardinalityType
<1>3. /\ node[1] \in Nat /\ node[1] + 1 \in 1..c
      /\ node[2] \in Nat /\ Len(r) - node[2] \in Int /\ (Len(r) - node[2] > 0 \/ node[1] = 0)
  <2>1. CASE node = <<0, 0>>
    BY <1>1, <1>2, <2>1
  <2>2. CASE \E d \in ends : IsExpandable(ends, r, d) /\ node = <<Index(ends, d), d>>
    <3>1. PICK d \in ends : IsExpandable(ends, r, d) /\ node = <<Index(ends, d), d>>
      BY <2>2
    <3>2. d \in Nat /\ d < Len(r)
      BY <1>1, <3>1 DEF IsExpandable
    <3>3. Index(ends, d) \in Nat /\ Index(ends, d) <= Cardinality(ends)
      <4>1. {x \in ends : x <= d} \in SUBSET ends
        OBVIOUS
      <4> QED BY <1>2, <4>1, FS_Subset, FS_CardinalityType DEF Index
    <3>4. node[1] = Index(ends, d) /\ node[2] = d
      BY <3>1
    <3> QED BY <1>1, <1>2, <3>2, <3>3, <3>4
  <2> QED BY <2>1, <2>2 DEF Selectable, ends
<1>4. e = [tree |-> ft.tree, nr |-> ft.nr, born |-> ft.born, index |-> node[1], chain |-> c,
           length |-> PromptLen + node[2], rest |-> Len(r) - node[2]]
  BY DEF PointOf, BranchPoint, ChainLength, ends
<1>5. ft.tree \in TreeId /\ ft.nr \in Nat /\ ft.born \in Nat /\ BornBy(ft, s, q)
  BY DEF Failures, Trajectory
<1>6. PromptLen + node[2] \in Nat /\ c \in Nat
  BY <1>2, <1>3, PartitionAssumption
<1> HIDE DEF c
<1>7. e \in Point
  BY <1>3, <1>4, <1>5, <1>6 DEF Point
<1>8. e.index = node[1] /\ e.chain = c /\ e.rest = Len(r) - node[2] /\ e.born = ft.born /\ e.tree = ft.tree
  BY <1>4
<1> HIDE DEF e
<1>9. BornBy(e, s, q) /\ IsExpanding(e)
  BY <1>3, <1>5, <1>8 DEF BornBy, IsExpanding
<1> QED BY <1>7, <1>8, <1>9 DEF Points, e
LEMMA PointsOfFacts ==
  ASSUME setting.segments \in {"sp", "tp", "fp"},
         NEW s, NEW q, NEW ft \in Failures(s, q), NEW points \in PointsOf(ft)
  PROVE  points \in Seq({e \in Points(s, q) : e.born = ft.born})
<1> DEFINE S == {e \in Points(s, q) : e.born = ft.born}
<1>1. PICK r \in Response :
        \E sel \in Selections(setting.segments, r, NBranchPoints) :
          points = [n \in DOMAIN SetToSeq(sel) |-> PointOf(ft, r, SetToSeq(sel)[n])]
  BY DEF PointsOf
<1>0. PICK sel \in Selections(setting.segments, r, NBranchPoints) :
        points = [n \in DOMAIN SetToSeq(sel) |-> PointOf(ft, r, SetToSeq(sel)[n])]
  BY <1>1
<1> DEFINE nodes == SetToSeq(sel)
           ends == Ends(setting.segments, r)
<1>2. sel \in SUBSET Selectable(ends, r)
  BY DEF Selections, kSubset
<1>3. IsFiniteSet(Selectable(ends, r))
  <2>1. Len(r) \in Nat /\ ends \in SUBSET (0..Len(r))
    BY EndsFacts
  <2> HIDE DEF ends
  <2>2. IsFiniteSet(ends)
    <3>1. IsFiniteSet(0..Len(r))
      BY <2>1, FS_Interval
    <3> QED BY <2>1, <3>1, FS_Subset
  <2> DEFINE D == {d \in ends : IsExpandable(ends, r, d)}
             f == [d \in D |-> <<Index(ends, d), d>>]
             T == {f[d] : d \in D}
  <2>3. IsFiniteSet(D)
    BY <2>2, FS_Subset
  <2>4. Selectable(ends, r) = {<<0, 0>>} \cup T
    BY DEF Selectable
  <2> HIDE DEF f, D
  <2>5. IsFiniteSet(T)
    BY <2>3, FiniteImage
  <2> HIDE DEF T
  <2> DEFINE root == <<0, 0>>
  <2>6. IsFiniteSet({root})
    BY FS_Singleton
  <2> HIDE DEF root
  <2>7. IsFiniteSet({root} \cup T)
    BY <2>5, <2>6, FS_Union
  <2> QED BY <2>4, <2>7 DEF root
<1>4. nodes \in Seq(sel)
  <2>1. IsFiniteSet(sel)
    BY <1>2, <1>3, FS_Subset
  <2> QED BY <2>1, SetToSeqFacts
<1> HIDE DEF nodes, ends
<1>5. Len(nodes) \in Nat /\ DOMAIN nodes = 1..Len(nodes) /\ \A n \in DOMAIN nodes : nodes[n] \in sel
  BY <1>4, ElementOfSeq
<1>6. \A n \in DOMAIN nodes : PointOf(ft, r, nodes[n]) \in S
  BY <1>2, <1>5, PointFacts DEF ends
<1>7. points = [n \in 1..Len(nodes) |-> PointOf(ft, r, nodes[n])]
  BY <1>0, <1>5 DEF nodes
<1> HIDE DEF S
<1>8. points \in [1..Len(nodes) -> S]
  BY <1>5, <1>6, <1>7
<1>9. points \in Seq(S)
  BY <1>5, <1>8, IsASeq
<1> QED BY <1>9 DEF S

\* The new branch points of a step are of that step.
LEMMA NewPointsFacts ==
  ASSUME setting.segments \in {"sp", "tp", "fp"}, NEW s, NEW q, NEW now,
         NEW fts \in Seq(Failures(s, q)), \A n \in DOMAIN fts : fts[n].born = now,
         NEW points \in NewPoints(fts)
  PROVE  points \in Seq(PointsAt(now, s, q))
<1> DEFINE S == PointsAt(now, s, q)
<1>1. PICK f \in [DOMAIN fts -> UNION {PointsOf(fts[n]) : n \in DOMAIN fts}] :
         (\A n \in DOMAIN fts : f[n] \in PointsOf(fts[n])) /\ points = FlattenSeq(f)
  BY DEF NewPoints
<1>2. Len(fts) \in Nat /\ DOMAIN fts = 1..Len(fts) /\ \A n \in DOMAIN fts : fts[n] \in Failures(s, q)
  BY ElementOfSeq
<1>3. \A n \in DOMAIN fts : f[n] \in Seq(S)
  <2>1. ASSUME NEW n \in DOMAIN fts PROVE f[n] \in Seq({e \in Points(s, q) : e.born = now})
    <3>1. f[n] \in Seq({e \in Points(s, q) : e.born = fts[n].born})
      BY <1>1, <1>2, PointsOfFacts
    <3> QED BY <3>1
  <2> QED BY <2>1 DEF PointsAt
<1> HIDE DEF S
<1>4. f \in [1..Len(fts) -> Seq(S)]
  BY <1>1, <1>2, <1>3
<1>5. f \in Seq(Seq(S))
  BY <1>2, <1>4, IsASeq
<1>6. FlattenSeq(f) \in Seq(S)
  BY <1>5, FlattenFacts
<1> QED BY <1>1, <1>6 DEF S

\* A prompt to be rolled out beside the batch, and what its failures become.
SyntheticEntry ==
  {e \in [prompt : Prompt \X (1..MaxDepth), prior : Priors, succ : Nat, total : Nat, hopeless : BOOLEAN] :
     e.succ <= e.total /\ e.total \in {0, RolloutN} /\ e.hopeless}

LEMMA OutcomesFacts ==
  ASSUME synthetic \in Seq(SyntheticEntry), injected \in SUBSET DOMAIN synthetic,
         NEW gs \in Outcomes
  PROVE  IsGroups(gs) /\ \A n \in injected : \E g \in gs : g.entry = n
<1>0. IsFiniteSet(Prompt) /\ RolloutN \in Nat \ {0} /\ PrefixRolloutN \in Nat \ {0} /\ MaxDepth \in Nat
  BY FlatAssumption
<1>1. PICK main \in [Prompt -> 0..PrefixRolloutN], synth \in [injected -> 0..RolloutN] :
         gs = {MainGroup(p, main[p]) : p \in Prompt} \cup {SyntheticGroup(n, synth[n]) : n \in injected}
  BY DEF Outcomes
<1> DEFINE f == [p \in Prompt |-> MainGroup(p, main[p])]
           h == [n \in injected |-> SyntheticGroup(n, synth[n])]
           N == Len(synthetic)
<1>2. N \in Nat /\ injected \subseteq 1..N /\ \A n \in injected : synthetic[n] \in SyntheticEntry
  BY ElementOfSeq
<1>3. ASSUME NEW p \in Prompt
      PROVE  /\ f[p].entry = 0 /\ f[p].prompt = <<p, 0>>
             /\ f[p] \in Group /\ f[p].failures <= f[p].rows
  <2>1. f[p] = [prompt |-> <<p, 0>>, entry |-> 0, rows |-> PrefixRolloutN, failures |-> main[p]]
    BY DEF MainGroup
  <2>2. main[p] \in Nat /\ main[p] <= PrefixRolloutN /\ <<p, 0>> \in Prompt \X Nat
    BY <1>0
  <2> HIDE DEF f
  <2> QED BY <1>0, <2>1, <2>2 DEF Group
<1>4. ASSUME NEW n \in injected
      PROVE  /\ h[n].entry = n /\ n # 0 /\ n \in 0..N
             /\ h[n] \in Group /\ h[n].failures <= h[n].rows /\ h[n].rows = RolloutN
  <2>1. h[n] = [prompt |-> synthetic[n].prompt, entry |-> n, rows |-> RolloutN, failures |-> synth[n]]
    BY DEF SyntheticGroup
  <2>2. synth[n] \in Nat /\ synth[n] <= RolloutN
    BY <1>0
  <2>3. synthetic[n].prompt \in Prompt \X Nat
    <3>1. synthetic[n].prompt \in Prompt \X (1..MaxDepth)
      BY <1>2 DEF SyntheticEntry
    <3> QED BY <1>0, <3>1
  <2>4. n \in Nat \ {0} /\ n \in 0..N
    BY <1>2
  <2> HIDE DEF h
  <2> QED BY <1>0, <2>1, <2>2, <2>3, <2>4 DEF Group
<1> DEFINE F == {f[p] : p \in Prompt}
           H == {h[n] : n \in injected}
<1>5. gs = F \cup H
  BY <1>1
<1> HIDE DEF f, h
<1>6. IsFiniteSet(F)
  BY <1>0, FiniteImage
<1>7. IsFiniteSet(H)
  <2>1. IsFiniteSet(1..N)
    BY <1>2, FS_Interval
  <2>2. IsFiniteSet(injected)
    BY <1>2, <2>1, FS_Subset
  <2> QED BY <2>2, FiniteImage
<1>8. IsFiniteSet(gs)
  <2> HIDE DEF F, H
  <2> QED BY <1>5, <1>6, <1>7, FS_Union
<1>9. \A g \in gs : /\ g.entry \in 0..N /\ g \in Group /\ g.failures <= g.rows
                    /\ g.entry # 0 => g.rows = RolloutN
  BY <1>2, <1>3, <1>4, <1>5
<1>10. \A g, k \in gs : g.entry = k.entry /\ (g.entry = 0 => g.prompt = k.prompt) => g = k
  BY <1>3, <1>4, <1>5
<1>11. \A n \in injected : \E g \in gs : g.entry = n
  BY <1>4, <1>5
<1> HIDE DEF F, H
<1> QED BY <1>2, <1>8, <1>9, <1>10, <1>11 DEF IsGroups-----------------------------------------------------------------------------
(* The inductive invariant.                                                *)

Early == pc \in {"plan", "draw", "rollout", "feed"}

\* The last step whose failures may be waiting.
Past == IF Early THEN step - 1 ELSE step

\* A list as its add leaves it, within the size of the mode that keeps one.
ListOK(list, S, mode) ==
  /\ IsListed(list, S) /\ Paired(list) /\ Ascends(list)
  /\ \A c \in Settings : c.mode = mode => Len(list.entries) <= c.maxSize

FailedOK(list, s, r) == ListOK(list, Failures(s, r), "teacher")
BufferOK(list, s, r) == ListOK(list, Roomy(s, r), "regular")
DequesOK(dqs, s, r) == IsDeques(dqs, Dated(Hopeless(s, r)))
AnnotatedOK(entries, s, r) ==
  /\ entries \in Seq(Failures(s, r))
  /\ \A c \in Settings : c.mode = "teacher" => Len(entries) <= c.maxSize
TasksOK(ts, s, r) ==
  ts \in SUBSET Failures(s, r) /\ IsFiniteSet(ts) /\ Cardinality(ts) <= MaxConcurrent

LEMMA Grow ==
  ASSUME NEW s \in Int, NEW t \in Int, NEW r \in Int, NEW q \in Int, s <= t, r <= q
  PROVE  /\ \A x : FailedOK(x, s, r) => FailedOK(x, t, q)
         /\ \A x : BufferOK(x, s, r) => BufferOK(x, t, q)
         /\ \A x : DequesOK(x, s, r) => DequesOK(x, t, q)
         /\ \A x : AnnotatedOK(x, s, r) => AnnotatedOK(x, t, q)
         /\ \A x : TasksOK(x, s, r) => TasksOK(x, t, q)
         /\ \A x : x \in Seq(Failures(s, r)) => x \in Seq(Failures(t, q))
         /\ \A x : x \in Seq(Roomy(s, r)) => x \in Seq(Roomy(t, q))
<1>1. /\ Failures(s, r) \subseteq Failures(t, q) /\ Roomy(s, r) \subseteq Roomy(t, q)
      /\ Dated(Hopeless(s, r)) \subseteq Dated(Hopeless(t, q))
  BY Growing
<1>2. ASSUME NEW x, FailedOK(x, s, r) PROVE FailedOK(x, t, q)
  BY <1>1, <1>2, ListMonotone DEF FailedOK, ListOK
<1>3. ASSUME NEW x, BufferOK(x, s, r) PROVE BufferOK(x, t, q)
  BY <1>1, <1>3, ListMonotone DEF BufferOK, ListOK
<1>4. ASSUME NEW x, DequesOK(x, s, r) PROVE DequesOK(x, t, q)
  BY <1>1, <1>4, DequesMonotone DEF DequesOK
<1>5. ASSUME NEW x, AnnotatedOK(x, s, r) PROVE AnnotatedOK(x, t, q)
  BY <1>1, <1>5, SeqMonotone DEF AnnotatedOK
<1>6. ASSUME NEW x, TasksOK(x, s, r) PROVE TasksOK(x, t, q)
  BY <1>1, <1>6 DEF TasksOK
<1> QED BY <1>1, <1>2, <1>3, <1>4, <1>5, <1>6, SeqMonotone

\* What is empty is well formed.
LEMMA EmptyOK ==
  ASSUME NEW s, NEW r
  PROVE  /\ FailedOK(EmptyList, s, r) /\ BufferOK(EmptyList, s, r) /\ DequesOK(<< >>, s, r)
         /\ AnnotatedOK(<< >>, s, r) /\ TasksOK({}, s, r)
<1>1. \A S : << >> \in Seq(S)
  OBVIOUS
<1>2. EmptyList.entries = << >> /\ EmptyList.steps = << >> /\ DOMAIN << >> = {} /\ Len(<< >>) = 0
  BY DEF EmptyList
<1>3. \A c \in Settings : 0 <= c.maxSize
  BY FlatAssumption DEF SettingType
<1>4. \A S : IsListed(EmptyList, S)
  BY <1>1, <1>2 DEF IsListed, EmptyList
<1>5. Paired(EmptyList) /\ Ascends(EmptyList)
  BY <1>2 DEF Paired, Ascends
<1>6. IsFiniteSet({}) /\ Cardinality({}) = 0 /\ MaxConcurrent \in Nat
  BY FS_EmptySet, FlatAssumption
<1> QED BY <1>1, <1>2, <1>3, <1>4, <1>5, <1>6
        DEF FailedOK, BufferOK, DequesOK, AnnotatedOK, TasksOK, ListOK, IsDeques

\* add to a list of the mode that keeps one.
LEMMA ListAdds ==
  ASSUME NEW S, NEW mode, NEW list, ListOK(list, S, mode), NEW now \in Nat, NEW new \in Seq(S),
         \A n \in DOMAIN new : new[n].born = now,
         \A e \in S : e.born <= now,
         NEW c \in Settings, c.mode = mode
  PROVE  /\ ListOK(AddToList(list, new, now, MaxAge, c.maxSize), S, mode)
         /\ Within(AddToList(list, new, now, MaxAge, c.maxSize), Added(list, new, now))
         /\ \A e \in RangeOf(AddToList(list, new, now, MaxAge, c.maxSize).entries) : now - e.born <= MaxAge
         /\ Paired(Added(list, new, now)) /\ Ascends(Added(list, new, now))
         /\ IsListed(Added(list, new, now), S)
<1>1. MaxAge \in Nat /\ c.maxSize \in Nat /\ \A d \in Settings : d.mode = mode => d.maxSize = c.maxSize
  BY FlatAssumption DEF SettingType
<1>2. IsListed(list, S) /\ Paired(list) /\ Ascends(list)
  BY DEF ListOK
<1> DEFINE all == Added(list, new, now)
           left == AddToList(list, new, now, MaxAge, c.maxSize)
<1>3. \A n \in DOMAIN list.entries : list.entries[n].born <= now
  BY <1>2, ElementOfSeq DEF IsListed
<1>4. IsListed(all, S) /\ Paired(all) /\ Ascends(all)
  BY <1>2, <1>3, AddedFacts, AddedKeeps
<1>5. /\ IsListed(left, S) /\ Len(left.entries) <= c.maxSize /\ Within(left, all)
      /\ \A n \in DOMAIN left.entries : now - left.steps[n] <= MaxAge
  BY <1>1, <1>2, AddToListFacts
<1> HIDE DEF left, all
<1>6. Paired(left) /\ Ascends(left)
  BY <1>4, <1>5, WithinKeeps
<1>7. ListOK(left, S, mode)
  BY <1>1, <1>5, <1>6 DEF ListOK
<1>8. \A e \in RangeOf(left.entries) : now - e.born <= MaxAge
  BY <1>5, <1>6 DEF Paired, RangeOf
<1> QED BY <1>4, <1>5, <1>7, <1>8 DEF left, all

LEMMA ListGives ==
  ASSUME NEW S, NEW mode, NEW list, ListOK(list, S, mode), NEW n \in DOMAIN list.entries
  PROVE  /\ list.entries[n] \in S
         /\ ListOK(RemoveFromList(list, {n}), S, mode)
         /\ RangeOf(RemoveFromList(list, {n}).entries) \subseteq RangeOf(list.entries)
         /\ IsInjective(list.entries) =>
              /\ IsInjective(RemoveFromList(list, {n}).entries)
              /\ list.entries[n] \notin RangeOf(RemoveFromList(list, {n}).entries)
<1> DEFINE J == DOMAIN list.entries \ {n}
           left == ListAt(list, J)
<1>1. IsListed(list, S) /\ Paired(list) /\ Ascends(list)
  BY DEF ListOK
<1>2. J \in SUBSET DOMAIN list.entries
  OBVIOUS
<1>3. RemoveFromList(list, {n}) = left
  BY DEF RemoveFromList
<1>4. /\ IsListed(left, S) /\ Within(left, list) /\ Len(left.entries) <= Len(list.entries)
      /\ \A i \in DOMAIN left.entries : Nth(J, i) \in J /\ left.entries[i] = list.entries[Nth(J, i)]
  <2> HIDE DEF J
  <2> QED BY <1>1, <1>2, ListAtFacts
<1> HIDE DEF left
<1>5. /\ Paired(left) /\ Ascends(left) /\ RangeOf(left.entries) \subseteq RangeOf(list.entries)
      /\ IsInjective(list.entries) => IsInjective(left.entries)
  BY <1>1, <1>4, WithinKeeps
<1>6. ListOK(left, S, mode)
  <2>1. Len(left.entries) \in Nat /\ Len(list.entries) \in Nat
    BY <1>1, <1>4 DEF IsListed
  <2>2. \A c \in Settings : c.maxSize \in Nat
    BY FlatAssumption DEF SettingType
  <2> QED BY <1>4, <1>5, <2>1, <2>2 DEF ListOK
<1>7. IsInjective(list.entries) => list.entries[n] \notin RangeOf(left.entries)
  <2>1. SUFFICES ASSUME IsInjective(list.entries), NEW i \in DOMAIN left.entries, left.entries[i] = list.entries[n]
                 PROVE  FALSE
    BY DEF RangeOf
  <2>2. Nth(J, i) \in DOMAIN list.entries /\ Nth(J, i) # n /\ list.entries[Nth(J, i)] = list.entries[n]
    BY <1>4, <2>1
  <2> QED BY <2>1, <2>2 DEF IsInjective
<1>8. list.entries[n] \in S
  BY <1>1, ElementOfSeq DEF IsListed
<1> QED BY <1>3, <1>5, <1>6, <1>7, <1>8

\* add of the annotated pool.
LEMMA AnnotatedAdds ==
  ASSUME NEW S, NEW s \in Seq(S), NEW e \in S, NEW max \in Nat \ {0}
  PROVE  LET t == Newest(max, Append(s, e))
         IN  /\ t \in Seq(S) /\ Len(t) = AtMost(max, Len(s) + 1)
             /\ RangeOf(t) \subseteq RangeOf(s) \cup {e}
             /\ IsInjective(s) /\ e \notin RangeOf(s) => IsInjective(t)
<1> DEFINE u == Append(s, e)
           t == Newest(max, u)
           k == AtMost(max, Len(u))
<1>1. /\ u \in Seq(S) /\ Len(u) = Len(s) + 1 /\ Len(s) \in Nat /\ DOMAIN u = 1..(Len(s) + 1)
      /\ DOMAIN s = 1..Len(s)
      /\ \A i \in 1..Len(s) : u[i] = s[i]
      /\ u[Len(s) + 1] = e
  OBVIOUS
<1> HIDE DEF u
<1>2. /\ k \in Nat /\ t \in Seq(S) /\ Len(t) = k
      /\ \A i \in 1..k : t[i] = u[Len(u) - k + i] /\ Len(u) - k + i \in DOMAIN u
      /\ RangeOf(t) \subseteq RangeOf(u)
  BY <1>1, NewestFacts
<1>3. \A i \in DOMAIN u : i = Len(s) + 1 \/ i \in DOMAIN s
  BY <1>1
<1>4. RangeOf(u) \subseteq RangeOf(s) \cup {e}
  BY <1>1, <1>3 DEF RangeOf
<1>5. ASSUME IsInjective(s), e \notin RangeOf(s) PROVE IsInjective(t)
  <2>1. IsInjective(u)
    BY <1>1, <1>3, <1>5 DEF IsInjective, RangeOf
  <2>2. DOMAIN t = 1..k /\ Len(u) \in Nat
    BY <1>1, <1>2
  <2> HIDE DEF t, k
  <2>3. \A i, j \in 1..k : Len(u) - k + i = Len(u) - k + j => i = j
    BY <1>2, <2>2
  <2> QED BY <1>2, <2>1, <2>2, <2>3 DEF IsInjective
<1>6. Len(t) = AtMost(max, Len(s) + 1)
  BY <1>1, <1>2
<1> QED BY <1>2, <1>4, <1>5, <1>6 DEF u
ControlOK ==
  /\ setting \in Settings /\ runs \in Nat \ {0} /\ runs <= MaxRuns /\ step \in 1..setting.totalSteps
  /\ pc \in {"plan", "draw", "rollout", "feed", "usage", "save", "first", "second", "track", "next", "done"}

PoolsOK ==
  /\ FailedOK(failed, Past, runs) /\ BufferOK(buffer, Past, runs)
  /\ DequesOK(deques, Past, runs) /\ AnnotatedOK(annotated, Past, runs)
  /\ synthetic \in Seq(SyntheticEntry)

\* What the worker has, and what was trained.
OutOK == TasksOK(tasks, Past, runs) /\ trained \in SUBSET Failures(Past, runs)

\* Only the mode's own pools hold something, but for the buffer.
ModesOK ==
  /\ ~Mode("teacher") => failed = EmptyList /\ annotated = << >>
  /\ ~Mode("inject") => deques = << >> /\ synthetic = << >>
  /\ Mode("regular") => tasks = {}
  /\ Mode("inject") => \A e \in tasks : e.hopeless

BatchOK ==
  /\ quota \in Nat
  /\ Mode("teacher") => drawn \in Seq(Failures(Past, runs))
  /\ Mode("regular") => drawn \in Seq(Roomy(Past, runs))
  /\ Mode("inject") => drawn = << >>

\* What the trainer counted when it planned is still there.
QuotaOK ==
  Mode("teacher") =>
    /\ pc = "draw" => quota \in {0, BatchThreshold} /\ quota <= Len(annotated)
    /\ pc = "rollout" => Len(drawn) \in {0, BatchThreshold}

\* Each injected entry has its group.
GroupsOK ==
  /\ injected \in SUBSET DOMAIN synthetic
  /\ pc \in {"feed", "usage"} => IsGroups(groups) /\ \A n \in injected : \E g \in groups : g.entry = n

\* What failed is of this step, once, and hopeless if its group is.
FreshOK ==
  pc = "feed" =>
    /\ Mode("regular") => fresh \in Seq(PointsAt(step, step, runs))
    /\ ~Mode("regular") =>
         /\ fresh \in Seq(Failures(step, runs)) /\ IsInjective(fresh)
         /\ \A e \in RangeOf(fresh) :
              e.born = step /\ \E g \in groups : e.tree = Tree(g) /\ (e.hopeless <=> g.failures = g.rows)

\* The files of a folder hold failures up to its step.
FolderOK(files, s, r) ==
  /\ DOMAIN files = Files
  /\ files.buffer = NoFile \/ BufferOK(files.buffer, s, r)
  /\ files.failed = NoFile \/ /\ FailedOK(files.failed.list, s, r)
                              /\ files.failed.flat \in Seq(Dated(Hopeless(s, r)))
  /\ files.annotated = NoFile \/ AnnotatedOK(files.annotated.entries, s, r)
  /\ files.synthetic = NoFile \/ files.synthetic.entries \in Seq(SyntheticEntry)

DiskOK ==
  /\ DOMAIN disk \subseteq Nat \ {0}
  /\ \A s \in DOMAIN disk : FolderOK(disk[s], s, runs)
  /\ pc \in {"first", "second", "track"} => step \in DOMAIN disk

TrackedOK ==
  /\ tracked.step \in {0} \cup DOMAIN disk
  /\ tracked.trained \in SUBSET Failures(tracked.step, runs)
  /\ IF pc \in {"next", "done"} THEN tracked.step <= step ELSE tracked.step < step

IInv ==
  /\ ControlOK /\ PoolsOK /\ OutOK /\ ModesOK /\ BatchOK /\ QuotaOK /\ GroupsOK /\ FreshOK
  /\ DiskOK /\ TrackedOK

LEMMA InitIInv == Init => IInv
<1> SUFFICES ASSUME Init PROVE IInv
  OBVIOUS
<1>1. /\ setting \in Settings /\ runs = 1 /\ step = 1 /\ pc = "plan" /\ disk = << >> /\ tracked.step = 0
      /\ tracked.trained = {} /\ trained = {} /\ quota = 0
  BY DEF Init, Fresh
<1>2. setting.totalSteps \in Nat \ {0} /\ MaxRuns \in Nat \ {0}
  BY <1>1, FlatAssumption DEF SettingType
<1>3. << >> \in Seq(SyntheticEntry) /\ << >> \in Seq(Failures(Past, runs)) /\ << >> \in Seq(Roomy(Past, runs))
  OBVIOUS
<1>4. ControlOK
  BY <1>1, <1>2 DEF ControlOK
<1>5. PoolsOK
  BY <1>3, EmptyOK DEF PoolsOK, Init, Fresh
<1>6. OutOK
  BY EmptyOK DEF OutOK, Init, Fresh
<1>7. ModesOK /\ GroupsOK /\ FreshOK
  BY DEF ModesOK, GroupsOK, FreshOK, Init, Fresh
<1>8. BatchOK /\ QuotaOK
  BY <1>1, <1>3 DEF BatchOK, QuotaOK, Init, Fresh
<1>9. DiskOK /\ TrackedOK
  BY <1>1 DEF DiskOK, TrackedOK
<1> QED BY <1>4, <1>5, <1>6, <1>7, <1>8, <1>9 DEF IInv

\* A step of the trainer or the worker that is not a restart leaves the past
\* as it is, or it becomes longer.
LEMMA PastFacts ==
  ASSUME IInv
  PROVE  /\ Past \in Nat /\ runs \in Nat \ {0} /\ step \in Nat \ {0} /\ Past <= step
         /\ Early => Past = step - 1
         /\ ~Early => Past = step
         /\ setting \in SettingType
<1>1. setting \in SettingType /\ step \in Nat \ {0} /\ runs \in Nat \ {0}
  BY FlatAssumption DEF IInv, ControlOK, SettingType
<1> QED BY <1>1 DEF Past

\* What no step but Feed, Fetch and Annotate touches.
LEMMA PoolsStay ==
  ASSUME IInv, Past' = Past, runs' = runs, UNCHANGED <<poolVars, tasks, trained>>
  PROVE  PoolsOK' /\ OutOK'
BY DEF IInv, PoolsOK, OutOK, poolVars

-----------------------------------------------------------------------------
(* Each step keeps it.                                                     *)

LEMMA PlanIInv == IInv /\ Plan => IInv'
<1> SUFFICES ASSUME IInv, Plan PROVE IInv'
  OBVIOUS
<1>1. /\ pc = "plan" /\ pc' = "draw" /\ quota' = Quota
      /\ UNCHANGED <<setting, runs, step, drawn, injected, groups, fresh, poolVars, tasks, disk, tracked, trained>>
  BY DEF Plan, Goto, diskVars, historyVars
<1>2. Past' = Past
  BY <1>1 DEF Past, Early
<1>3. PoolsOK' /\ OutOK'
  BY <1>1, <1>2, PoolsStay
<1>4. ControlOK' /\ ModesOK' /\ GroupsOK' /\ FreshOK'
  BY <1>1 DEF IInv, ControlOK, ModesOK, GroupsOK, FreshOK, Mode, poolVars
<1>5. quota' \in Nat /\ (Mode("teacher") => quota' \in {0, BatchThreshold} /\ quota' <= Len(annotated))
  <2>1. setting.mode \in {"regular", "teacher", "inject"}
    BY PastFacts DEF SettingType
  <2>2. Len(annotated) \in Nat /\ Len(synthetic) \in Nat
    BY DEF IInv, PoolsOK, AnnotatedOK
  <2>3. BatchThreshold \in Nat /\ SampleSize \in Nat /\ InjectSlots \in Nat
    BY FlatAssumption
  <2> QED BY <1>1, <2>1, <2>2, <2>3 DEF Quota, Mode, AtMost
<1>6. BatchOK' /\ QuotaOK'
  BY <1>1, <1>2, <1>5 DEF IInv, BatchOK, QuotaOK, Mode, poolVars
<1>7. DiskOK' /\ TrackedOK'
  BY <1>1 DEF IInv, DiskOK, TrackedOK
<1> QED BY <1>3, <1>4, <1>6, <1>7 DEF IInv

LEMMA DrawAnnotatedIInv == IInv /\ DrawBatch /\ DrawAnnotated => IInv'
<1> SUFFICES ASSUME IInv, DrawBatch, DrawAnnotated PROVE IInv'
  OBVIOUS
<1>1. /\ pc = "draw" /\ pc' = "rollout" /\ setting.mode = "teacher"
      /\ UNCHANGED <<setting, runs, step, quota, groups, fresh, injected, failed, deques, synthetic, buffer,
                     tasks, disk, tracked, trained>>
  BY DEF DrawBatch, DrawAnnotated, Goto, Mode, diskVars, historyVars
<1>2. Past' = Past
  BY <1>1 DEF Past, Early
<1>3. PICK I \in BatchDraws(annotated, quota, setting.strategy) :
        drawn' = At(annotated, I) /\ annotated' = Except(annotated, I)
  BY DEF DrawAnnotated
<1> DEFINE S == Failures(Past, runs)
<1>4. annotated \in Seq(S) /\ quota \in Nat /\ quota \in {0, BatchThreshold} /\ quota <= Len(annotated)
  BY <1>1 DEF IInv, PoolsOK, AnnotatedOK, BatchOK, QuotaOK, Mode
<1> HIDE DEF S
<1>5. I \in SUBSET DOMAIN annotated /\ Cardinality(I) = AtMost(quota, Len(annotated))
  BY <1>4, DrawFacts
<1>6. /\ drawn' \in Seq(S) /\ annotated' \in Seq(S)
      /\ Len(drawn') = Cardinality(I) /\ Len(annotated') <= Len(annotated)
  BY <1>3, <1>4, <1>5, SplitFacts
<1>7. Len(drawn') \in {0, BatchThreshold}
  BY <1>4, <1>5, <1>6 DEF AtMost
<1>8. AnnotatedOK(annotated', Past, runs)
  <2>1. Len(annotated') \in Nat /\ Len(annotated) \in Nat
    BY <1>4, <1>6
  <2>2. \A c \in Settings : c.mode = "teacher" => c.maxSize \in Nat /\ Len(annotated) <= c.maxSize
    BY FlatAssumption DEF IInv, PoolsOK, AnnotatedOK, SettingType
  <2> QED BY <1>6, <2>1, <2>2 DEF AnnotatedOK, S
<1>9. PoolsOK' /\ OutOK'
  BY <1>1, <1>2, <1>8 DEF IInv, PoolsOK, OutOK
<1>10. BatchOK' /\ QuotaOK'
  BY <1>1, <1>2, <1>6, <1>7 DEF IInv, BatchOK, QuotaOK, Mode, S
<1>11. ControlOK' /\ ModesOK' /\ GroupsOK' /\ FreshOK'
  BY <1>1 DEF IInv, ControlOK, ModesOK, GroupsOK, FreshOK, Mode
<1>12. DiskOK' /\ TrackedOK'
  BY <1>1 DEF IInv, DiskOK, TrackedOK
<1> QED BY <1>9, <1>10, <1>11, <1>12 DEF IInv

LEMMA DrawOtherIInv == IInv /\ DrawBatch /\ (DrawBranchPoints \/ DrawSynthetic) => IInv'
<1> SUFFICES ASSUME IInv, DrawBatch, DrawBranchPoints \/ DrawSynthetic PROVE IInv'
  OBVIOUS
<1>1. /\ pc = "draw" /\ pc' = "rollout" /\ setting.mode # "teacher"
      /\ UNCHANGED <<setting, runs, step, quota, groups, fresh, poolVars, tasks, disk, tracked, trained>>
  BY DEF DrawBatch, DrawBranchPoints, DrawSynthetic, Goto, Mode, diskVars, historyVars
<1>2. Past' = Past
  BY <1>1 DEF Past, Early
<1>3. /\ Mode("regular") => drawn' \in Seq(Roomy(Past, runs))
      /\ Mode("inject") => drawn' = << >>
  <2>1. CASE DrawBranchPoints
    <3>1. PICK I \in BatchDraws(buffer.entries, quota, setting.strategy) : drawn' = At(buffer.entries, I)
      BY <2>1 DEF DrawBranchPoints
    <3> DEFINE u == buffer.entries
               S == Roomy(Past, runs)
    <3>2. u \in Seq(S) /\ quota \in Nat
      BY DEF IInv, PoolsOK, BufferOK, ListOK, IsListed, BatchOK
    <3> HIDE DEF u, S
    <3>3. I \in SUBSET DOMAIN u
      BY <3>1, <3>2, DrawFacts DEF u
    <3>4. At(u, I) \in Seq(S)
      BY <3>2, <3>3, AtFacts
    <3>5. Mode("regular") /\ ~Mode("inject")
      BY <2>1 DEF DrawBranchPoints, Mode
    <3> QED BY <3>1, <3>4, <3>5 DEF u, S
  <2>2. CASE DrawSynthetic
    <3>1. drawn' = drawn /\ Mode("inject") /\ ~Mode("regular")
      BY <2>2 DEF DrawSynthetic, Mode
    <3> QED BY <3>1 DEF IInv, BatchOK
  <2> QED BY <2>1, <2>2
<1>4. injected' \in SUBSET DOMAIN synthetic
  <2>1. CASE DrawBranchPoints
    BY <2>1 DEF DrawBranchPoints, IInv, GroupsOK
  <2>2. CASE DrawSynthetic
    BY <2>2, SyntheticDrawFacts DEF DrawSynthetic
  <2> QED BY <2>1, <2>2
<1>5. PoolsOK' /\ OutOK'
  BY <1>1, <1>2, PoolsStay
<1>6. BatchOK' /\ QuotaOK' /\ GroupsOK' /\ FreshOK'
  BY <1>1, <1>2, <1>3, <1>4 DEF IInv, BatchOK, QuotaOK, GroupsOK, FreshOK, Mode, poolVars
<1>7. ControlOK' /\ ModesOK'
  BY <1>1 DEF IInv, ControlOK, ModesOK, Mode, poolVars
<1>8. DiskOK' /\ TrackedOK'
  BY <1>1 DEF IInv, DiskOK, TrackedOK
<1> QED BY <1>5, <1>6, <1>7, <1>8 DEF IInv

LEMMA RolloutIInv == IInv /\ Rollout => IInv'
<1> SUFFICES ASSUME IInv, Rollout PROVE IInv'
  OBVIOUS
<1>1. /\ pc = "rollout" /\ pc' = "feed" /\ groups' \in Outcomes
      /\ fresh' \in IF Mode("regular") THEN NewPoints(AllFailed(groups')) ELSE {AllFailed(groups')}
      /\ trained' = IF Mode("teacher") THEN trained \cup Range(drawn) ELSE trained
      /\ UNCHANGED <<setting, runs, step, quota, drawn, injected, poolVars, tasks, disk, tracked>>
  BY DEF Rollout, Goto, diskVars
<1>2. Past' = Past
  BY <1>1 DEF Past, Early
<1>3. /\ step \in Nat \ {0} /\ runs \in Nat \ {0} /\ synthetic \in Seq(SyntheticEntry)
      /\ injected \in SUBSET DOMAIN synthetic /\ setting.segments \in {"sp", "tp", "fp"}
  BY PastFacts DEF IInv, PoolsOK, GroupsOK, SettingType
<1>4. IsGroups(groups') /\ \A n \in injected : \E g \in groups' : g.entry = n
  BY <1>1, <1>3, OutcomesFacts
<1> DEFINE new == AllFailed(groups')
<1>5. /\ new \in Seq(Failures(step, runs)) /\ IsInjective(new)
      /\ \A e \in RangeOf(new) :
           e.born = step /\ \E g \in groups' : e.tree = Tree(g) /\ (e.hopeless <=> g.failures = g.rows)
  BY <1>3, <1>4, AllFailedFacts
<1> HIDE DEF new
<1>6. \A n \in DOMAIN new : new[n].born = step
  BY <1>5 DEF RangeOf
<1>7. Mode("regular") => fresh' \in Seq(PointsAt(step, step, runs))
  <2>1. ASSUME Mode("regular") PROVE fresh' \in NewPoints(new)
    BY <1>1, <2>1 DEF new
  <2>2. \A points \in NewPoints(new) : points \in Seq(PointsAt(step, step, runs))
    BY <1>3, <1>5, <1>6, NewPointsFacts
  <2> QED BY <2>1, <2>2, Zenon
<1>8. ~Mode("regular") => fresh' = new
  BY <1>1 DEF new
<1>9. FreshOK'
  <2>1. Mode("regular")' <=> Mode("regular")
    BY <1>1 DEF Mode
  <2>2. \A g : Tree(g)' = Tree(g)
    BY <1>1 DEF Tree
  <2> QED BY <1>1, <1>5, <1>7, <1>8, <2>1, <2>2 DEF FreshOK, Tree
<1>10. PoolsOK'
  BY <1>1, <1>2 DEF IInv, PoolsOK, poolVars
<1>11. OutOK'
  <2>1. Mode("teacher") => Range(drawn) \subseteq Failures(Past, runs)
    BY RangeFacts DEF IInv, BatchOK
  <2> QED BY <1>1, <1>2, <2>1 DEF IInv, OutOK
<1>12. BatchOK' /\ QuotaOK' /\ GroupsOK'
  BY <1>1, <1>2, <1>4 DEF IInv, BatchOK, QuotaOK, GroupsOK, Mode, poolVars
<1>13. ControlOK' /\ ModesOK'
  BY <1>1 DEF IInv, ControlOK, ModesOK, Mode, poolVars
<1>14. DiskOK' /\ TrackedOK'
  BY <1>1 DEF IInv, DiskOK, TrackedOK
<1> QED BY <1>9, <1>10, <1>11, <1>12, <1>13, <1>14 DEF IInv
\* What goes to the teacher in inject mode failed throughout its group.
LEMMA GatedFacts ==
  ASSUME IInv, pc = "feed", Mode("inject")
  PROVE  At(fresh, GatedToTeacher) \in Seq({e \in Hopeless(step, runs) : e.born = step})
<1> DEFINE S == {e \in Hopeless(step, runs) : e.born = step}
           I == GatedToTeacher
           new == At(fresh, I)
           F == Failures(step, runs)
<1>1. /\ fresh \in Seq(F)
      /\ \A e \in RangeOf(fresh) :
           e.born = step /\ \E g \in groups : e.tree = Tree(g) /\ (e.hopeless <=> g.failures = g.rows)
      /\ IsGroups(groups)
  BY DEF IInv, FreshOK, GroupsOK, Mode
<1> HIDE DEF F
<1>2. I \in SUBSET DOMAIN fresh
  BY DEF GatedToTeacher
<1>3. ASSUME NEW i \in I PROVE fresh[i] \in S
  <2>1. PICK g \in groups : Tree(g) = fresh[i].tree /\ g.rows - g.failures = 0
    BY DEF GatedToTeacher
  <2>2. fresh[i] \in F /\ fresh[i] \in RangeOf(fresh)
    BY <1>1, <1>2, ElementOfSeq DEF RangeOf
  <2>3. PICK h \in groups : fresh[i].tree = Tree(h) /\ (fresh[i].hopeless <=> h.failures = h.rows)
    BY <1>1, <2>2
  <2>4. g.entry = h.entry /\ g.prompt = h.prompt
    BY <2>1, <2>3 DEF Tree
  <2>5. g = h
    BY <1>1, <2>4 DEF IsGroups
  <2>6. g.failures = g.rows
    <3>1. g.rows \in Int /\ g.failures \in Int
      BY <1>1 DEF IsGroups, Group
    <3> QED BY <2>1, <3>1
  <2>7. fresh[i].hopeless /\ fresh[i].born = step
    BY <1>1, <2>2, <2>3, <2>5, <2>6
  <2> QED BY <2>2, <2>7 DEF Hopeless, F
<1> HIDE DEF I, S
<1>4. new \in Seq(F) /\ \A n \in DOMAIN new : new[n] \in S
  BY <1>1, <1>2, <1>3, AtFacts
<1>5. RangeOf(new) \subseteq S
  BY <1>4 DEF RangeOf
<1> HIDE DEF new
<1>6. new \in Seq(S)
  BY <1>4, <1>5, InRange
<1> QED BY <1>6 DEF new, S, I

\* What goes to the buffer leaves room.
LEMMA RoomFacts ==
  ASSUME IInv, pc = "feed", Mode("regular")
  PROVE  WithRoom \in Seq(Roomy(step, runs)) /\ \A n \in DOMAIN WithRoom : WithRoom[n].born = step
<1> DEFINE S == PointsAt(step, step, runs)
           R == {e \in Roomy(step, runs) : e.born = step}
           I == {n \in DOMAIN fresh : MaxModelLen - fresh[n].length >= MinRemaining}
           new == At(fresh, I)
<1>1. fresh \in Seq(S)
  BY DEF IInv, FreshOK
<1>2. I \in SUBSET DOMAIN fresh
  OBVIOUS
<1>3. ASSUME NEW i \in I PROVE fresh[i] \in R
  <2>1. fresh[i] \in Points(step, runs) /\ fresh[i].born = step /\ MaxModelLen - fresh[i].length >= MinRemaining
    BY <1>1, ElementOfSeq DEF PointsAt
  <2>2. fresh[i].length \in Nat /\ MaxModelLen \in Nat /\ MinRemaining \in Nat
    BY <2>1, PartitionAssumption, FlatAssumption DEF Points, Point
  <2>3. fresh[i].length + MinRemaining <= MaxModelLen
    BY <2>1, <2>2
  <2> QED BY <2>1, <2>3 DEF Roomy
<1>4. WithRoom = new
  BY DEF WithRoom
<1> HIDE DEF I, S, R
<1>5. new \in Seq(S) /\ \A n \in DOMAIN new : new[n] \in R
  BY <1>1, <1>2, <1>3, AtFacts
<1>6. RangeOf(new) \subseteq R
  BY <1>5 DEF RangeOf
<1> HIDE DEF new
<1>7. R \subseteq Roomy(step, runs)
  BY DEF R
<1>8. new \in Seq(Roomy(step, runs))
  BY <1>5, <1>6, <1>7, InRange
<1>9. \A n \in DOMAIN new : new[n].born = step
  BY <1>5 DEF R
<1> QED BY <1>4, <1>8, <1>9

LEMMA FreshFacts ==
  ASSUME IInv, pc = "feed", Mode("teacher")
  PROVE  fresh \in Seq(Failures(step, runs)) /\ \A n \in DOMAIN fresh : fresh[n].born = step
<1>1. ~Mode("regular")
  BY DEF Mode
<1> QED BY <1>1 DEF IInv, FreshOK, RangeOf

LEMMA FeedIInv == IInv /\ Feed => IInv'
<1> SUFFICES ASSUME IInv, Feed PROVE IInv'
  OBVIOUS
<1>1. /\ pc = "feed" /\ pc' = "usage"
      /\ UNCHANGED <<setting, runs, step, quota, drawn, injected, groups, fresh, annotated, synthetic,
                     tasks, disk, tracked, trained>>
  BY DEF Feed, Goto, stepVars, diskVars, historyVars
<1>2. Past = step - 1 /\ Past' = step /\ step \in Nat \ {0} /\ runs \in Nat \ {0} /\ setting \in Settings
  BY <1>1, PastFacts DEF Past, Early, IInv, ControlOK
<1>3. /\ \A x : FailedOK(x, Past, runs) => FailedOK(x, step, runs)
      /\ \A x : BufferOK(x, Past, runs) => BufferOK(x, step, runs)
      /\ \A x : DequesOK(x, Past, runs) => DequesOK(x, step, runs)
      /\ \A x : AnnotatedOK(x, Past, runs) => AnnotatedOK(x, step, runs)
      /\ \A x : TasksOK(x, Past, runs) => TasksOK(x, step, runs)
      /\ \A x : x \in Seq(Failures(Past, runs)) => x \in Seq(Failures(step, runs))
      /\ \A x : x \in Seq(Roomy(Past, runs)) => x \in Seq(Roomy(step, runs))
      /\ Failures(Past, runs) \subseteq Failures(step, runs)
  <2>1. Past \in Int /\ step \in Int /\ runs \in Int /\ Past <= step /\ runs <= runs
    BY <1>2
  <2> QED BY <2>1, Grow, Growing
<1>4. /\ FailedOK(failed, step, runs) /\ BufferOK(buffer, step, runs) /\ DequesOK(deques, step, runs)
      /\ AnnotatedOK(annotated, step, runs) /\ TasksOK(tasks, step, runs)
  BY <1>3 DEF IInv, PoolsOK, OutOK
<1>5. FailedOK(failed', step, runs) /\ BufferOK(buffer', step, runs) /\ DequesOK(deques', step, runs)
  <2>1. CASE FeedDeques
    <3> DEFINE new == At(fresh, GatedToTeacher)
               H == {e \in Hopeless(step, runs) : e.born = step}
               X == Dated(Hopeless(step, runs))
    <3>1. new \in Seq(H)
      BY <1>1, <2>1, GatedFacts DEF FeedDeques
    <3>2. deques' = (IF new # << >> THEN AddToDeques(deques, new, step) ELSE deques)
          /\ UNCHANGED <<failed, buffer>>
      BY <2>1 DEF FeedDeques
    <3>3. \A e \in H : <<step, e>> \in X
      BY DEF Dated
    <3>5. IsDeques(deques, X)
      BY <1>4 DEF DequesOK
    <3> HIDE DEF new, H, X
    <3>4. \A n \in DOMAIN new : <<step, new[n]>> \in X
      BY <3>1, <3>3, ElementOfSeq
    <3>6. IsDeques(AddToDeques(deques, new, step), X)
      BY <3>1, <3>4, <3>5, AddToDequesFacts
    <3> QED BY <1>4, <3>2, <3>5, <3>6 DEF DequesOK, X
  <2>2. CASE FeedList
    <3>1. /\ failed' = IF fresh # << >> THEN AddToList(failed, fresh, step, MaxAge, setting.maxSize) ELSE failed
          /\ UNCHANGED <<deques, buffer>> /\ setting.mode = "teacher"
      BY <2>2 DEF FeedList, Mode
    <3>2. fresh \in Seq(Failures(step, runs)) /\ \A n \in DOMAIN fresh : fresh[n].born = step
      BY <1>1, <2>2, FreshFacts DEF FeedList
    <3>3. \A e \in Failures(step, runs) : e.born <= step
      BY <1>2 DEF Failures, BornBy
    <3>4. ListOK(AddToList(failed, fresh, step, MaxAge, setting.maxSize), Failures(step, runs), "teacher")
      BY <1>2, <1>4, <3>1, <3>2, <3>3, ListAdds DEF FailedOK
    <3> QED BY <1>4, <3>1, <3>4 DEF FailedOK
  <2>3. CASE FeedBuffer
    <3>1. /\ buffer' = AddToList(buffer, WithRoom, step, MaxAge, setting.maxSize)
          /\ UNCHANGED <<failed, deques>> /\ setting.mode = "regular"
      BY <2>3 DEF FeedBuffer, BufferWith, Mode
    <3>2. WithRoom \in Seq(Roomy(step, runs)) /\ \A n \in DOMAIN WithRoom : WithRoom[n].born = step
      BY <1>1, <2>3, RoomFacts DEF FeedBuffer
    <3>3. \A e \in Roomy(step, runs) : e.born <= step
      BY <1>2 DEF Roomy, Points, BornBy
    <3>4. ListOK(AddToList(buffer, WithRoom, step, MaxAge, setting.maxSize), Roomy(step, runs), "regular")
      BY <1>2, <1>4, <3>1, <3>2, <3>3, ListAdds DEF BufferOK
    <3> QED BY <1>4, <3>1, <3>4 DEF BufferOK
  <2> QED BY <2>1, <2>2, <2>3 DEF Feed
<1>6. PoolsOK' /\ OutOK'
  BY <1>1, <1>2, <1>3, <1>4, <1>5 DEF IInv, PoolsOK, OutOK
<1>7. ModesOK'
  BY <1>1 DEF IInv, ModesOK, Mode, Feed, FeedDeques, FeedList, FeedBuffer
<1>8. BatchOK' /\ QuotaOK' /\ GroupsOK' /\ FreshOK'
  BY <1>1, <1>2, <1>3 DEF IInv, BatchOK, QuotaOK, GroupsOK, FreshOK, Mode
<1>9. ControlOK' /\ DiskOK' /\ TrackedOK'
  BY <1>1 DEF IInv, ControlOK, DiskOK, TrackedOK
<1> QED BY <1>6, <1>7, <1>8, <1>9 DEF IInv

\* What is recorded of a group does not say more than there was.
LEMMA UsageIInv == IInv /\ Usage => IInv'
<1> SUFFICES ASSUME IInv, Usage PROVE IInv'
  OBVIOUS
<1>1. /\ pc = "usage" /\ pc' = "save"
      /\ synthetic' = [n \in DOMAIN synthetic |->
                         IF n \in injected THEN Recorded(synthetic[n], GroupOf(n)) ELSE synthetic[n]]
      /\ quota' = 0 /\ drawn' = << >> /\ injected' = {}
      /\ UNCHANGED <<setting, runs, step, failed, deques, annotated, buffer, tasks, disk, tracked, trained>>
  BY DEF Usage, Goto, diskVars
<1>2. Past' = Past
  BY <1>1 DEF Past, Early
<1>3. synthetic \in Seq(SyntheticEntry) /\ Len(synthetic) \in Nat /\ DOMAIN synthetic = 1..Len(synthetic)
  BY DEF IInv, PoolsOK
<1>4. ASSUME NEW n \in DOMAIN synthetic PROVE synthetic'[n] \in SyntheticEntry
  <2>1. synthetic[n] \in SyntheticEntry
    BY <1>3, ElementOfSeq
  <2>2. CASE n \in injected
    <3>1. \E g \in groups : g.entry = n
      BY <1>1, <2>2 DEF IInv, GroupsOK
    <3>2. GroupOf(n) \in groups /\ GroupOf(n).entry = n /\ n # 0
      <4>1. GroupOf(n) \in groups /\ GroupOf(n).entry = n
        BY <3>1, Zenon DEF GroupOf
      <4> QED BY <1>3, <4>1
    <3> DEFINE g == GroupOf(n)
               e == synthetic[n]
    <3>3. g.rows \in Nat /\ g.failures \in Nat /\ g.failures <= g.rows /\ g.rows = RolloutN
      BY <1>1, <3>2 DEF IInv, GroupsOK, IsGroups, Group
    <3>4. synthetic'[n] = [e EXCEPT !.succ = g.rows - g.failures, !.total = g.rows]
      BY <1>1, <2>2 DEF Recorded
    <3>5. e \in SyntheticEntry
      BY <2>1
    <3> HIDE DEF g, e
    <3>6. g.rows - g.failures \in Nat /\ g.rows - g.failures <= g.rows
      BY <3>3
    <3> QED BY <3>3, <3>4, <3>5, <3>6 DEF SyntheticEntry
  <2>3. CASE n \notin injected
    BY <1>1, <2>1, <2>3
  <2> QED BY <2>2, <2>3
<1>5. synthetic' \in Seq(SyntheticEntry)
  <2>1. synthetic' \in [1..Len(synthetic) -> SyntheticEntry]
    BY <1>1, <1>3, <1>4
  <2> QED BY <1>3, <2>1, IsASeq
<1>6. Mode("inject") \/ synthetic' = << >>
  BY <1>1, <1>3, EmptySeq DEF IInv, ModesOK
<1>7. PoolsOK' /\ OutOK'
  BY <1>1, <1>2, <1>5 DEF IInv, PoolsOK, OutOK
<1>8. ModesOK'
  BY <1>1, <1>6 DEF IInv, ModesOK, Mode
<1>9. BatchOK' /\ QuotaOK' /\ GroupsOK' /\ FreshOK'
  BY <1>1 DEF BatchOK, QuotaOK, GroupsOK, FreshOK
<1>10. ControlOK' /\ DiskOK' /\ TrackedOK'
  BY <1>1 DEF IInv, ControlOK, DiskOK, TrackedOK
<1> QED BY <1>7, <1>8, <1>9, <1>10 DEF IInv
LEMMA SaveIInv == IInv /\ Save => IInv'
<1> SUFFICES ASSUME IInv, Save PROVE IInv'
  OBVIOUS
<1>1. /\ pc = "save" /\ pc' \in {"first", "next"}
      /\ UNCHANGED <<setting, runs, step, stepVars, poolVars, tasks, tracked, trained>>
      /\ pc' = "first" => disk' = [s \in DOMAIN disk \cup {step} |-> IF s \in DOMAIN disk THEN disk[s] ELSE NoFiles]
      /\ pc' = "next" => disk' = disk
  BY DEF Save, Goto, historyVars
<1>2. Past' = Past
  BY <1>1 DEF Past, Early
<1>3. PoolsOK' /\ OutOK'
  BY <1>1, <1>2, PoolsStay
<1>4. BatchOK' /\ QuotaOK' /\ GroupsOK' /\ FreshOK'
  BY <1>1, <1>2 DEF IInv, BatchOK, QuotaOK, GroupsOK, FreshOK, Mode, poolVars, stepVars
<1>5. ControlOK' /\ ModesOK'
  BY <1>1 DEF IInv, ControlOK, ModesOK, Mode, poolVars
<1>6. FolderOK(NoFiles, step, runs)
  BY DEF FolderOK, NoFiles, Files
<1>7. DiskOK'
  <2>1. step \in Nat \ {0}
    BY PastFacts
  <2>2. CASE pc' = "first"
    BY <1>1, <1>6, <2>1, <2>2 DEF IInv, DiskOK
  <2>3. CASE pc' = "next"
    BY <1>1, <2>3 DEF IInv, DiskOK
  <2> QED BY <1>1, <2>2, <2>3
<1>8. TrackedOK'
  <2>1. DOMAIN disk \subseteq DOMAIN disk'
    BY <1>1
  <2>2. tracked.step < step /\ tracked.step \in Int /\ step \in Int
    BY <1>1, PastFacts DEF IInv, TrackedOK, DiskOK
  <2> QED BY <1>1, <2>1, <2>2 DEF IInv, TrackedOK
<1> QED BY <1>3, <1>4, <1>5, <1>7, <1>8 DEF IInv

\* The files that are written hold what the pools do.
LEMMA DumpFacts ==
  ASSUME IInv, pc \in {"first", "second"}, NEW files \in SUBSET Files, Dump(files)
  PROVE  DOMAIN disk' = DOMAIN disk /\ \A s \in DOMAIN disk : FolderOK(disk'[s], s, runs)
<1>1. step \in DOMAIN disk /\ ~Early /\ Past = step
  BY DEF IInv, DiskOK, Past, Early
<1> DEFINE old == disk[step]
           new == [f \in DOMAIN old |-> IF f \in files /\ IsWritten(f) THEN Contents(f) ELSE old[f]]
<1>2. disk' = [disk EXCEPT ![step] = new]
  BY DEF Dump
<1>3. FolderOK(old, step, runs)
  BY <1>1 DEF IInv, DiskOK
<1> HIDE DEF old
<1>4. DOMAIN new = Files /\ \A f \in Files : new[f] = old[f] \/ new[f] = Contents(f)
  BY <1>3 DEF FolderOK
<1> HIDE DEF new
<1>5. FolderOK(new, step, runs)
  <2>1. new.buffer = old.buffer \/ BufferOK(new.buffer, step, runs)
    <3>1. Contents("buffer") = buffer
      BY DEF Contents
    <3>2. BufferOK(buffer, step, runs)
      BY <1>1 DEF IInv, PoolsOK
    <3> QED BY <1>4, <3>1, <3>2 DEF Files
  <2>2. new.failed = old.failed \/ /\ FailedOK(new.failed.list, step, runs)
                                   /\ new.failed.flat \in Seq(Dated(Hopeless(step, runs)))
    <3>1. Contents("failed") = [priority |-> Mode("inject"), list |-> failed, flat |-> Flattened(deques)]
      BY DEF Contents
    <3>2. FailedOK(failed, step, runs) /\ Flattened(deques) \in Seq(Dated(Hopeless(step, runs)))
      BY <1>1, FlattenedFacts DEF IInv, PoolsOK, DequesOK
    <3> QED BY <1>4, <3>1, <3>2 DEF Files
  <2>3. new.annotated = old.annotated \/ AnnotatedOK(new.annotated.entries, step, runs)
    <3>1. Contents("annotated") = [entries |-> annotated]
      BY DEF Contents
    <3>2. AnnotatedOK(annotated, step, runs)
      BY <1>1 DEF IInv, PoolsOK
    <3> QED BY <1>4, <3>1, <3>2 DEF Files
  <2>4. new.synthetic = old.synthetic \/ new.synthetic.entries \in Seq(SyntheticEntry)
    <3>1. Contents("synthetic") = [entries |-> synthetic]
      BY DEF Contents
    <3> QED BY <1>4, <3>1 DEF Files, IInv, PoolsOK
  <2> QED BY <1>3, <1>4, <2>1, <2>2, <2>3, <2>4 DEF FolderOK
<1> QED BY <1>1, <1>2, <1>5 DEF IInv, DiskOK

LEMMA DumpIInv == IInv /\ (DumpFirst \/ DumpSecond) => IInv'
<1> SUFFICES ASSUME IInv, DumpFirst \/ DumpSecond PROVE IInv'
  OBVIOUS
<1>1. PICK files \in SUBSET Files : Dump(files)
  BY DEF DumpFirst, DumpSecond, Files
<1>2. pc \in {"first", "second"} /\ pc' \in {"second", "track"}
  BY DEF DumpFirst, DumpSecond, Goto
<1>3. UNCHANGED <<setting, runs, step, stepVars, poolVars, tasks, tracked, trained>>
  BY <1>1 DEF Dump
<1>4. Past' = Past
  BY <1>2, <1>3 DEF Past, Early
<1>5. PoolsOK' /\ OutOK'
  BY <1>3, <1>4, PoolsStay
<1>6. BatchOK' /\ QuotaOK' /\ GroupsOK' /\ FreshOK'
  BY <1>2, <1>3, <1>4 DEF IInv, BatchOK, QuotaOK, GroupsOK, FreshOK, Mode, poolVars, stepVars
<1>7. ControlOK' /\ ModesOK'
  BY <1>2, <1>3 DEF IInv, ControlOK, ModesOK, Mode, poolVars
<1>8. DOMAIN disk' = DOMAIN disk /\ \A s \in DOMAIN disk : FolderOK(disk'[s], s, runs)
  BY <1>1, <1>2, DumpFacts
<1>9. DiskOK'
  BY <1>2, <1>3, <1>8 DEF IInv, DiskOK
<1>10. TrackedOK'
  BY <1>2, <1>3, <1>8 DEF IInv, TrackedOK
<1> QED BY <1>5, <1>6, <1>7, <1>9, <1>10 DEF IInv

LEMMA TrackIInv == IInv /\ Track => IInv'
<1> SUFFICES ASSUME IInv, Track PROVE IInv'
  OBVIOUS
<1>1. /\ pc = "track" /\ pc' = "next" /\ tracked'.step = step /\ tracked'.trained = trained
      /\ UNCHANGED <<setting, runs, step, stepVars, poolVars, tasks, disk, trained>>
  BY DEF Track, Goto, historyVars
<1>2. Past' = Past /\ Past = step
  BY <1>1 DEF Past, Early
<1>3. PoolsOK' /\ OutOK'
  BY <1>1, <1>2, PoolsStay
<1>4. BatchOK' /\ QuotaOK' /\ GroupsOK' /\ FreshOK'
  BY <1>1, <1>2 DEF IInv, BatchOK, QuotaOK, GroupsOK, FreshOK, Mode, poolVars, stepVars
<1>5. ControlOK' /\ ModesOK'
  BY <1>1 DEF IInv, ControlOK, ModesOK, Mode, poolVars
<1>6. DiskOK'
  BY <1>1 DEF IInv, DiskOK
<1>7. TrackedOK'
  <2>1. step \in DOMAIN disk /\ step \in Int
    BY <1>1, PastFacts DEF IInv, DiskOK
  <2>2. trained \in SUBSET Failures(step, runs)
    BY <1>2 DEF IInv, OutOK
  <2> QED BY <1>1, <2>1, <2>2 DEF TrackedOK
<1> QED BY <1>3, <1>4, <1>5, <1>6, <1>7 DEF IInv

LEMMA NextStepIInv == IInv /\ NextStep => IInv'
<1> SUFFICES ASSUME IInv, NextStep PROVE IInv'
  OBVIOUS
<1>1. /\ pc = "next"
      /\ IF IsLastStep THEN pc' = "done" /\ step' = step ELSE pc' = "plan" /\ step' = step + 1
      /\ UNCHANGED <<setting, runs, stepVars, poolVars, tasks, disk, tracked, trained>>
  BY DEF NextStep, Goto, diskVars, historyVars
<1>2. step \in Nat \ {0} /\ setting.totalSteps \in Nat
  BY PastFacts DEF SettingType
<1>3. Past' = Past
  BY <1>1, <1>2 DEF Past, Early
<1>4. PoolsOK' /\ OutOK'
  BY <1>1, <1>3, PoolsStay
<1>5. BatchOK' /\ QuotaOK' /\ GroupsOK' /\ FreshOK'
  BY <1>1, <1>3 DEF IInv, BatchOK, QuotaOK, GroupsOK, FreshOK, Mode, poolVars, stepVars
<1>6. ControlOK'
  BY <1>1, <1>2 DEF IInv, ControlOK, IsLastStep
<1>7. ModesOK'
  BY <1>1 DEF IInv, ModesOK, Mode, poolVars
<1>8. DiskOK'
  BY <1>1 DEF IInv, DiskOK
<1>9. TrackedOK'
  <2>1. tracked.step <= step /\ tracked.step \in Int
    BY <1>1 DEF IInv, TrackedOK, DiskOK
  <2> QED BY <1>1, <1>2, <2>1 DEF IInv, TrackedOK
<1> QED BY <1>4, <1>5, <1>6, <1>7, <1>8, <1>9 DEF IInv
\* Whatever the next process is started as, what it loads is well formed.
LEMMA RestartIInv == IInv /\ Restart => IInv'
<1> SUFFICES ASSUME IInv, Restart PROVE IInv'
  OBVIOUS
<1> DEFINE s == tracked.step
           files == disk[s]
<1>1. /\ runs < MaxRuns /\ runs' = runs + 1 /\ s > 0
      /\ setting' \in Settings /\ setting'.totalSteps > s
      /\ step' = s + 1 /\ pc' = "plan"
      /\ quota' = 0 /\ drawn' = << >> /\ injected' = {} /\ groups' = {} /\ fresh' = << >>
      /\ tasks' = {} /\ trained' = tracked.trained
      /\ UNCHANGED <<disk, tracked>>
  BY DEF Restart, Goto, diskVars
<1>2. /\ runs \in Nat \ {0} /\ s \in Nat \ {0} /\ s \in DOMAIN disk /\ DOMAIN disk \subseteq Nat
      /\ FolderOK(files, s, runs) /\ tracked.trained \in SUBSET Failures(s, runs)
  BY <1>1, PastFacts DEF IInv, TrackedOK, DiskOK
<1>3. /\ buffer' = IF files.buffer = NoFile THEN EmptyList ELSE files.buffer
      /\ failed' = IF files.failed # NoFile /\ setting'.mode = "teacher" THEN LoadedList(files.failed) ELSE EmptyList
      /\ deques' = IF files.failed # NoFile /\ setting'.mode = "inject" THEN LoadedDeques(files.failed) ELSE << >>
      /\ annotated' = IF files.annotated # NoFile /\ setting'.mode = "teacher" THEN files.annotated.entries ELSE << >>
      /\ synthetic' = IF files.synthetic # NoFile /\ setting'.mode = "inject" THEN files.synthetic.entries ELSE << >>
  BY DEF Restart, Loaded
<1> HIDE DEF files, s
<1>4. Past' = s
  <2>1. Early' /\ step' - 1 = s
    BY <1>1, <1>2 DEF Early
  <2> QED BY <2>1 DEF Past
<1>5. ASSUME NEW t \in DOMAIN disk
      PROVE  /\ \A x : FailedOK(x, t, runs) => FailedOK(x, t, runs + 1)
             /\ \A x : BufferOK(x, t, runs) => BufferOK(x, t, runs + 1)
             /\ \A x : AnnotatedOK(x, t, runs) => AnnotatedOK(x, t, runs + 1)
             /\ Failures(t, runs) \subseteq Failures(t, runs + 1)
             /\ Dated(Hopeless(t, runs)) \subseteq Dated(Hopeless(t, runs + 1))
  <2>1. t \in Int /\ runs \in Int /\ runs + 1 \in Int /\ t <= t /\ runs <= runs + 1
    BY <1>2
  <2> QED BY <2>1, Grow, Growing
<1>6. \A t \in DOMAIN disk : FolderOK(disk[t], t, runs + 1)
  <2>1. SUFFICES ASSUME NEW t \in DOMAIN disk PROVE FolderOK(disk[t], t, runs + 1)
    OBVIOUS
  <2>2. FolderOK(disk[t], t, runs)
    BY DEF IInv, DiskOK
  <2>3. disk[t].failed # NoFile => disk[t].failed.flat \in Seq(Dated(Hopeless(t, runs + 1)))
    BY <1>5, <2>2, SeqMonotone DEF FolderOK
  <2> QED BY <1>5, <2>2, <2>3 DEF FolderOK
<1>7. FolderOK(files, s, runs + 1)
  BY <1>2, <1>6 DEF files
<1>8. FailedOK(failed', s, runs + 1) /\ BufferOK(buffer', s, runs + 1) /\ AnnotatedOK(annotated', s, runs + 1)
  BY <1>3, <1>7, EmptyOK DEF FolderOK, LoadedList
<1>9. DequesOK(deques', s, runs + 1)
  <2>1. files.failed # NoFile => DequesOK(Grouped(files.failed.flat), s, runs + 1)
    BY <1>7, GroupedFacts DEF FolderOK, DequesOK
  <2> QED BY <1>3, <2>1, EmptyOK DEF LoadedDeques
<1>10. synthetic' \in Seq(SyntheticEntry)
  BY <1>3, <1>7 DEF FolderOK
<1>11. PoolsOK'
  BY <1>1, <1>4, <1>8, <1>9, <1>10 DEF PoolsOK
<1>12. OutOK'
  <2>1. tracked.trained \in SUBSET Failures(s, runs + 1)
    BY <1>2, <1>5
  <2> QED BY <1>1, <1>4, <2>1, EmptyOK DEF OutOK
<1>13. ModesOK'
  BY <1>1, <1>3 DEF ModesOK, Mode
<1>14. BatchOK' /\ QuotaOK' /\ GroupsOK' /\ FreshOK'
  <2>1. \A S : << >> \in Seq(S)
    OBVIOUS
  <2> QED BY <1>1, <2>1 DEF BatchOK, QuotaOK, GroupsOK, FreshOK
<1>15. ControlOK'
  <2>1. setting'.totalSteps \in Nat /\ MaxRuns \in Nat
    BY <1>1, FlatAssumption DEF SettingType
  <2> QED BY <1>1, <1>2, <2>1 DEF ControlOK
<1>16. DiskOK'
  BY <1>1, <1>2, <1>6 DEF IInv, DiskOK
<1>17. TrackedOK'
  <2>1. tracked.trained \in SUBSET Failures(s, runs + 1)
    BY <1>2, <1>5
  <2> QED BY <1>1, <1>2, <2>1 DEF IInv, TrackedOK, s
<1> QED BY <1>11, <1>12, <1>13, <1>14, <1>15, <1>16, <1>17 DEF IInv

LEMMA FetchIInv == IInv /\ WorkerStep /\ Fetch => IInv'
<1> SUFFICES ASSUME IInv, WorkerStep, Fetch PROVE IInv'
  OBVIOUS
<1>1. UNCHANGED <<setting, runs, step, pc, stepVars, buffer, annotated, synthetic, disk, tracked, trained>>
  BY DEF WorkerStep, Fetch, diskVars
<1>2. PICK e \in Waiting : (FetchFromList(e) \/ FetchFromDeques(e)) /\ tasks' = tasks \cup {e}
  BY DEF Fetch
<1>3. Past' = Past
  BY <1>1 DEF Past, Early
<1> DEFINE X == Dated(Hopeless(Past, runs))
<1>4. /\ FailedOK(failed', Past, runs) /\ DequesOK(deques', Past, runs)
      /\ e \in Failures(Past, runs)
      /\ Mode("inject") => e.hopeless
      /\ (Mode("teacher") /\ UNCHANGED deques) \/ (Mode("inject") /\ UNCHANGED failed)
  <2>1. CASE FetchFromList(e)
    <3>1. PICK n \in DOMAIN failed.entries : e = failed.entries[n] /\ failed' = RemoveFromList(failed, {n})
      BY <2>1 DEF FetchFromList
    <3>2. Mode("teacher") /\ ~Mode("inject") /\ UNCHANGED deques
      BY <2>1 DEF FetchFromList, Mode
    <3>3. e \in Failures(Past, runs) /\ FailedOK(failed', Past, runs)
      BY <3>1, ListGives DEF IInv, PoolsOK, FailedOK
    <3> QED BY <3>2, <3>3 DEF IInv, PoolsOK
  <2>2. CASE FetchFromDeques(e)
    <3>1. PICK k \in Freshest(deques) : e = TakenFrom(deques, k) /\ deques' = LeftBy(deques, k)
      BY <2>2 DEF FetchFromDeques
    <3>2. k \in DOMAIN deques /\ IsDeques(deques, X)
      BY DEF Freshest, IInv, PoolsOK, DequesOK
    <3> HIDE DEF X
    <3>3. IsDeques(deques', X) /\ \E x \in X : e = x[2]
      BY <3>1, <3>2, LeftByFacts
    <3>4. e \in Hopeless(Past, runs)
      BY <3>3 DEF X, Dated
    <3>5. Mode("inject") /\ UNCHANGED failed
      BY <2>2 DEF FetchFromDeques
    <3> QED BY <3>3, <3>4, <3>5 DEF X, Hopeless, DequesOK, IInv, PoolsOK
  <2> QED BY <1>2, <2>1, <2>2
<1>5. PoolsOK'
  BY <1>1, <1>3, <1>4 DEF IInv, PoolsOK
<1>6. TasksOK(tasks', Past, runs)
  <2>1. TasksOK(tasks, Past, runs) /\ Cardinality(tasks) < MaxConcurrent /\ MaxConcurrent \in Nat
    BY FlatAssumption DEF IInv, OutOK, Fetch
  <2>2. IsFiniteSet(tasks) /\ Cardinality(tasks) \in Nat
    BY <2>1, FS_CardinalityType DEF TasksOK
  <2>3. IsFiniteSet(tasks') /\ Cardinality(tasks') <= Cardinality(tasks) + 1 /\ Cardinality(tasks') \in Nat
    <3>1. IsFiniteSet(tasks \cup {e})
             /\ (Cardinality(tasks \cup {e}) = Cardinality(tasks) \/ Cardinality(tasks \cup {e}) = Cardinality(tasks) + 1)
      BY <2>2, FS_AddElement
    <3> QED BY <1>2, <2>2, <3>1
  <2>4. Cardinality(tasks') <= MaxConcurrent
    BY <2>1, <2>2, <2>3
  <2> QED BY <1>2, <1>4, <2>1, <2>3, <2>4 DEF TasksOK
<1>7. OutOK'
  BY <1>1, <1>3, <1>6 DEF IInv, OutOK
<1>8. ModesOK'
  BY <1>1, <1>2, <1>4 DEF IInv, ModesOK, Mode
<1>9. BatchOK' /\ QuotaOK' /\ GroupsOK' /\ FreshOK'
  BY <1>1, <1>3 DEF IInv, BatchOK, QuotaOK, GroupsOK, FreshOK, Mode, Tree, stepVars
<1>10. ControlOK' /\ DiskOK' /\ TrackedOK'
  BY <1>1 DEF IInv, ControlOK, DiskOK, TrackedOK
<1> QED BY <1>5, <1>7, <1>8, <1>9, <1>10 DEF IInv

LEMMA AnnotateIInv == IInv /\ WorkerStep /\ Annotate => IInv'
<1> SUFFICES ASSUME IInv, WorkerStep, Annotate PROVE IInv'
  OBVIOUS
<1>1. UNCHANGED <<setting, runs, step, pc, stepVars, buffer, failed, deques, disk, tracked, trained>>
  BY DEF WorkerStep, Annotate, diskVars
<1>2. PICK e \in tasks : (Deliver(e) \/ GiveUp(e)) /\ tasks' = tasks \ {e}
  BY DEF Annotate
<1>3. Past' = Past
  BY <1>1 DEF Past, Early
<1> DEFINE S == Failures(Past, runs)
<1>4. /\ e \in S /\ setting \in Settings /\ annotated \in Seq(S) /\ synthetic \in Seq(SyntheticEntry)
      /\ ~Mode("regular")
  BY DEF IInv, ControlOK, PoolsOK, OutOK, TasksOK, AnnotatedOK, ModesOK
<1>5. setting.maxSize \in Nat \ {0} /\ setting.mode \in {"regular", "teacher", "inject"}
      /\ MaxDepth \in Nat /\ BatchThreshold \in Nat
  BY <1>4, FlatAssumption DEF SettingType
<1> HIDE DEF S
<1>6. /\ AnnotatedOK(annotated', Past, runs)
      /\ Mode("teacher") => \A q \in {0, BatchThreshold} : q <= Len(annotated) => q <= Len(annotated')
      /\ ~Mode("teacher") => annotated' = annotated
  <2>0. AnnotatedOK(annotated, Past, runs)
    BY DEF IInv, PoolsOK
  <2>1. CASE Mode("teacher") /\ Deliver(e)
    <3>1. annotated' = Newest(setting.maxSize, Append(annotated, e))
      BY <2>1 DEF Deliver, AnnotatedWith
    <3>2. annotated' \in Seq(S) /\ Len(annotated') = AtMost(setting.maxSize, Len(annotated) + 1)
      <4> DEFINE max == setting.maxSize
      <4>1. max \in Nat \ {0} /\ annotated \in Seq(S) /\ e \in S /\ annotated' = Newest(max, Append(annotated, e))
        BY <1>4, <1>5, <3>1
      <4> HIDE DEF max
      <4>2. LET t == Newest(max, Append(annotated, e))
            IN  t \in Seq(S) /\ Len(t) = AtMost(max, Len(annotated) + 1)
        BY <4>1, AnnotatedAdds
      <4>3. annotated' \in Seq(S) /\ Len(annotated') = AtMost(max, Len(annotated) + 1)
        BY <4>1, <4>2
      <4> QED BY <4>3 DEF max
    <3>3. Len(annotated) \in Nat /\ Len(annotated') <= setting.maxSize
      BY <1>4, <1>5, <3>2 DEF AtMost
    <3>4. \A c \in Settings : c.mode = "teacher" => c.maxSize = setting.maxSize
      BY <1>4, <2>1, FlatAssumption DEF Mode
    <3>5. Len(annotated) <= setting.maxSize
      BY <1>4, <2>0, <2>1 DEF AnnotatedOK, Mode
    <3>6. \A q \in {0, BatchThreshold} : q <= Len(annotated) => q <= Len(annotated')
      BY <1>5, <3>2, <3>3, <3>5 DEF AtMost
    <3> QED BY <2>1, <3>2, <3>3, <3>4, <3>6 DEF AnnotatedOK, S
  <2>2. CASE ~(Mode("teacher") /\ Deliver(e))
    <3>1. annotated' = annotated
      BY <1>2, <2>2 DEF Deliver, GiveUp
    <3> QED BY <2>0, <3>1
  <2> QED BY <2>1, <2>2
<1>7. /\ synthetic' \in Seq(SyntheticEntry) /\ DOMAIN synthetic \subseteq DOMAIN synthetic'
      /\ ~Mode("inject") => synthetic' = synthetic
  <2>1. CASE ~Mode("teacher") /\ Deliver(e)
    <3>1. PICK depth \in (e.prompt[2] + 1)..MaxDepth, prior \in Priors :
            synthetic' = Append(synthetic, Augmented(e, depth, prior))
      BY <2>1 DEF Deliver
    <3>2. Mode("inject") /\ e.hopeless
      BY <1>4, <1>5, <2>1 DEF IInv, ModesOK, Mode
    <3>3. e.prompt \in Prompt \X Nat
      BY <1>4 DEF S, Failures, Trajectory
    <3>4. e.prompt[1] \in Prompt /\ e.prompt[2] \in Nat
      BY <3>3
    <3>5. depth \in 1..MaxDepth
      BY <1>5, <3>4
    <3> DEFINE new == Augmented(e, depth, prior)
    <3>6. new = [prompt |-> <<e.prompt[1], depth>>, prior |-> prior, succ |-> 0, total |-> 0, hopeless |-> e.hopeless]
      BY DEF Augmented
    <3>7. e.hopeless \in BOOLEAN
      BY <1>4 DEF S, Failures, Trajectory
    <3> HIDE DEF new
    <3>8. new \in SyntheticEntry
      BY <3>2, <3>4, <3>5, <3>6, <3>7 DEF SyntheticEntry
    <3>9. Append(synthetic, new) \in Seq(SyntheticEntry) /\ DOMAIN synthetic \subseteq DOMAIN Append(synthetic, new)
      BY <1>4, <3>8
    <3> QED BY <3>1, <3>2, <3>9 DEF new
  <2>2. CASE ~(~Mode("teacher") /\ Deliver(e))
    <3>1. synthetic' = synthetic
      BY <1>2, <2>2 DEF Deliver, GiveUp
    <3> QED BY <1>4, <3>1
  <2> QED BY <2>1, <2>2
<1>8. TasksOK(tasks', Past, runs)
  <2>1. TasksOK(tasks, Past, runs) /\ MaxConcurrent \in Nat
    BY FlatAssumption DEF IInv, OutOK
  <2>2. tasks' \subseteq tasks
    BY <1>2
  <2>3. IsFiniteSet(tasks') /\ Cardinality(tasks') <= Cardinality(tasks)
    BY <2>1, <2>2, FS_Subset DEF TasksOK
  <2>4. Cardinality(tasks') \in Nat /\ Cardinality(tasks) \in Nat
    BY <2>1, <2>3, FS_CardinalityType DEF TasksOK
  <2> QED BY <2>1, <2>2, <2>3, <2>4 DEF TasksOK
<1>9. PoolsOK' /\ OutOK'
  BY <1>1, <1>3, <1>6, <1>7, <1>8 DEF IInv, PoolsOK, OutOK
<1>10. ModesOK'
  BY <1>1, <1>2, <1>6, <1>7 DEF IInv, ModesOK, Mode
<1>11. QuotaOK'
  BY <1>1, <1>6 DEF IInv, QuotaOK, Mode, stepVars
<1>12. BatchOK' /\ GroupsOK' /\ FreshOK'
  BY <1>1, <1>3, <1>7 DEF IInv, BatchOK, GroupsOK, FreshOK, Mode, Tree, stepVars
<1>13. ControlOK' /\ DiskOK' /\ TrackedOK'
  BY <1>1 DEF IInv, ControlOK, DiskOK, TrackedOK
<1> QED BY <1>9, <1>10, <1>11, <1>12, <1>13 DEF IInv

LEMMA StutterIInv == IInv /\ UNCHANGED flatVars => IInv'
<1> SUFFICES ASSUME IInv, UNCHANGED flatVars PROVE IInv'
  OBVIOUS
<1>1. UNCHANGED <<setting, runs, step, pc, stepVars, poolVars, tasks, disk, tracked, trained>>
  BY DEF flatVars, diskVars, historyVars
<1>2. Past' = Past
  BY <1>1 DEF Past, Early
<1>3. PoolsOK' /\ OutOK'
  BY <1>1, <1>2, PoolsStay
<1>4. BatchOK' /\ QuotaOK' /\ GroupsOK' /\ FreshOK'
  BY <1>1, <1>2 DEF IInv, BatchOK, QuotaOK, GroupsOK, FreshOK, Mode, Tree, poolVars, stepVars
<1>5. ControlOK' /\ ModesOK' /\ DiskOK' /\ TrackedOK'
  BY <1>1 DEF IInv, ControlOK, ModesOK, DiskOK, TrackedOK, Mode, poolVars
<1> QED BY <1>3, <1>4, <1>5 DEF IInv

LEMMA StepIInv == IInv /\ [Next]_flatVars => IInv'
<1>1. IInv /\ DrawBatch => IInv'
  BY DrawAnnotatedIInv, DrawOtherIInv DEF DrawBatch
<1>2. IInv /\ WorkerStep => IInv'
  BY FetchIInv, AnnotateIInv DEF WorkerStep
<1>3. IInv /\ TrainerStep => IInv'
  BY <1>1, PlanIInv, RolloutIInv, FeedIInv, UsageIInv, SaveIInv, DumpIInv, TrackIInv, NextStepIInv DEF TrainerStep
<1> QED BY <1>2, <1>3, RestartIInv, StutterIInv DEF Next, Done

LEMMA Invariance == Spec => []IInv
BY InitIInv, StepIInv, PTL DEF Spec
-----------------------------------------------------------------------------
(* What it shows.                                                          *)

LEMMA EntryFacts ==
  ASSUME IInv
  PROVE  /\ \A e \in Failures(Past, runs) : IsEntry(e)
         /\ \A e \in Roomy(Past, runs) : IsEntry(e)
<1>1. Past \in Nat /\ step \in Nat /\ Past <= step
  BY PastFacts
<1>2. \A e : BornBy(e, Past, runs) => IsEntry(e)
  BY <1>1 DEF BornBy, IsEntry
<1> QED BY <1>2 DEF Failures, Roomy, Points

LEMMA WaitingFacts ==
  ASSUME IInv
  PROVE  /\ Waiting \subseteq Failures(Past, runs)
         /\ Mode("inject") => \A e \in Waiting : e.hopeless
         /\ \A k \in DOMAIN deques : /\ deques[k] # << >>
                                     /\ \A n \in DOMAIN deques[k] : deques[k][n][1] = deques[k][n][2].born
<1> DEFINE X == Dated(Hopeless(Past, runs))
<1>1. \A x \in X : x[2] \in Failures(Past, runs) /\ x[2].hopeless /\ x[1] = x[2].born
  BY DEF Dated, Hopeless
<1> HIDE DEF X
<1>2. IsDeques(deques, X)
  BY DEF IInv, PoolsOK, DequesOK, X
<1>3. \A k \in DOMAIN deques : deques[k] # << >> /\ \A n \in DOMAIN deques[k] : deques[k][n] \in X
  BY <1>2, ElementOfSeq DEF IsDeques
<1>4. \A e \in Range(failed.entries) : e \in Failures(Past, runs)
  BY RangeFacts DEF IInv, PoolsOK, FailedOK, ListOK, IsListed
<1>5. Mode("inject") => Range(failed.entries) = {}
  BY DEF IInv, ModesOK, Mode, EmptyList, Range
<1> QED BY <1>1, <1>3, <1>4, <1>5 DEF Waiting

\* The pools are well formed through eviction, removal, annotation and
\* restarts in any mode: each entry of a list or a deque is one of a step and
\* a process that were, the lists are as long as their steps and as what they
\* say, and stay within their size; no mode keeps what is another's.
THEOREM WellFormed == Spec => [](TypeOK /\ StepsPaired)
<1>1. IInv => TypeOK
  <2> SUFFICES ASSUME IInv PROVE TypeOK
    OBVIOUS
  <2>1. /\ runs \in 1..MaxRuns /\ setting \in Settings /\ step \in 1..setting.totalSteps
        /\ pc \in {"plan", "draw", "rollout", "feed", "usage", "save", "first", "second", "track", "next", "done"}
    BY FlatAssumption DEF IInv, ControlOK
  <2>2. IsListOf(failed)
    <3>1. IsListed(failed, Failures(Past, runs))
      BY DEF IInv, PoolsOK, FailedOK, ListOK
    <3>2. Len(failed.entries) = Len(failed.steps) /\ Range(failed.entries) \subseteq Failures(Past, runs)
      BY <3>1, RangeFacts DEF IsListed
    <3> QED BY <3>2, EntryFacts DEF IsListOf
  <2>3. IsListOf(buffer)
    <3>1. IsListed(buffer, Roomy(Past, runs))
      BY DEF IInv, PoolsOK, BufferOK, ListOK
    <3>2. Len(buffer.entries) = Len(buffer.steps) /\ Range(buffer.entries) \subseteq Roomy(Past, runs)
      BY <3>1, RangeFacts DEF IsListed
    <3> QED BY <3>2, EntryFacts DEF IsListOf
  <2>4. /\ Mode("regular") => Len(buffer.entries) <= setting.maxSize
        /\ Mode("teacher") => Len(failed.entries) <= setting.maxSize /\ Len(annotated) <= setting.maxSize
    BY <2>1 DEF IInv, PoolsOK, BufferOK, FailedOK, ListOK, AnnotatedOK, Mode
  <2>5. /\ ~Mode("teacher") => failed = EmptyList /\ annotated = << >>
        /\ ~Mode("inject") => deques = << >> /\ synthetic = << >>
        /\ Mode("regular") => tasks = {}
    BY DEF IInv, ModesOK
  <2>6. /\ \A k \in DOMAIN deques : deques[k] # << >>
        /\ \A e \in Waiting \cup tasks : IsEntry(e)
    BY WaitingFacts, EntryFacts DEF IInv, OutOK, TasksOK
  <2>7. \A e \in Range(synthetic) : IsSynthetic(e)
    <3>1. SUFFICES ASSUME NEW e \in Range(synthetic) PROVE IsSynthetic(e)
      OBVIOUS
    <3>2. e \in SyntheticEntry
      BY RangeFacts DEF IInv, PoolsOK
    <3>3. /\ e.prompt \in Prompt \X (1..MaxDepth) /\ e.prior \in Priors /\ e.succ \in Nat /\ e.total \in Nat
          /\ e.succ <= e.total
      BY <3>2 DEF SyntheticEntry
    <3> QED BY <3>3 DEF IsSynthetic
  <2>8. /\ injected \subseteq DOMAIN synthetic /\ Cardinality(tasks) <= MaxConcurrent
        /\ tracked.step \in {0} \cup DOMAIN disk
    BY DEF IInv, GroupsOK, OutOK, TasksOK, TrackedOK
  <2> QED BY <2>1, <2>2, <2>3, <2>4, <2>5, <2>6, <2>7, <2>8 DEF TypeOK
<1>2. IInv => StepsPaired
  <2> SUFFICES ASSUME IInv PROVE StepsPaired
    OBVIOUS
  <2>1. Paired(failed) /\ Paired(buffer)
    BY DEF IInv, PoolsOK, FailedOK, BufferOK, ListOK
  <2> QED BY <2>1, WaitingFacts DEF StepsPaired, Paired
<1> QED BY <1>1, <1>2, Invariance, PTL

\* A branch batch is full or there is none, however the worker's deposits and
\* the evictions they cause fall between the count and the draw.
THEOREM BranchBatchesAreFull == Spec => []FullBranchBatches
<1>1. IInv => FullBranchBatches
  BY DEF IInv, QuotaOK, FullBranchBatches
<1> QED BY <1>1, Invariance, PTL

\* What waits for the teacher, is with it or came back from it in inject mode
\* is of a group in which nothing succeeded, whatever the modes of the
\* processes before were.
THEOREM TeacherGetsHopeless == Spec => []OnlyHopelessReachTeacher
<1>1. IInv => OnlyHopelessReachTeacher
  <2> SUFFICES ASSUME IInv, Mode("inject") PROVE \A e \in Waiting \cup tasks \cup Range(synthetic) : e.hopeless
    BY DEF OnlyHopelessReachTeacher
  <2>1. \A e \in Range(synthetic) : e \in SyntheticEntry
    BY RangeFacts DEF IInv, PoolsOK
  <2> QED BY <2>1, WaitingFacts DEF IInv, ModesOK, SyntheticEntry
<1> QED BY <1>1, Invariance, PTL

\* Each branch point in the buffer or in the batch is at the root or has a
\* rest of its response behind it, leaves the room it must and is a node of
\* its chain: for every partition, prompt length and response.
THEOREM BranchPointsStayExpandable == Spec => []BranchPointsExpandable
<1>1. IInv => BranchPointsExpandable
  <2> SUFFICES ASSUME IInv, Mode("regular"), NEW e \in Range(buffer.entries) \cup Range(drawn)
               PROVE  /\ e.rest > 0 \/ e.index = 0
                      /\ e.length + MinRemaining <= MaxModelLen
                      /\ e.index + 1 \in 1..e.chain
    BY DEF BranchPointsExpandable
  <2>1. Range(buffer.entries) \subseteq Roomy(Past, runs)
    BY RangeFacts DEF IInv, PoolsOK, BufferOK, ListOK, IsListed
  <2>2. Range(drawn) \subseteq Roomy(Past, runs)
    BY RangeFacts DEF IInv, BatchOK
  <2> QED BY <2>1, <2>2 DEF Roomy, Points, IsExpanding
<1> QED BY <1>1, Invariance, PTL

\* What a step evicts from the buffer or from the failed pool is too old, or
\* the pool is full; and nothing older than it stays.
THEOREM EvictionsAreOldest == Spec => EvictsOldest
<1>1. IInv /\ Feed => IF Mode("regular") THEN Evicts(buffer, WithRoom, buffer')
                      ELSE Mode("teacher") => Evicts(failed, fresh, failed')
  <2> SUFFICES ASSUME IInv, Feed
               PROVE  /\ Mode("regular") => Evicts(buffer, WithRoom, buffer')
                      /\ Mode("teacher") => Evicts(failed, fresh, failed')
    OBVIOUS
  <2>1. /\ pc = "feed" /\ step \in Nat \ {0} /\ runs \in Nat \ {0} /\ setting \in Settings
        /\ Past \in Nat /\ Past <= step
    BY PastFacts DEF Feed, IInv, ControlOK
  <2>2. MaxAge \in Nat /\ setting.maxSize \in Nat
    BY <2>1, FlatAssumption DEF SettingType
  <2>3. FailedOK(failed, step, runs) /\ BufferOK(buffer, step, runs)
    <3>1. Past \in Int /\ step \in Int /\ runs \in Int /\ runs <= runs
      BY <2>1
    <3> QED BY <2>1, <3>1, Grow DEF IInv, PoolsOK
  <2>4. ASSUME Mode("regular") PROVE Evicts(buffer, WithRoom, buffer')
    <3> DEFINE S == Roomy(step, runs)
               left == AddToList(buffer, WithRoom, step, MaxAge, setting.maxSize)
    <3>1. buffer' = left
      BY <2>4 DEF Feed, FeedDeques, FeedList, FeedBuffer, BufferWith, Mode
    <3>2. WithRoom \in Seq(S) /\ \A n \in DOMAIN WithRoom : WithRoom[n].born = step
      BY <2>1, <2>4, RoomFacts
    <3>3. \A e \in S : e.born <= step
      BY <2>1 DEF Roomy, Points, BornBy
    <3>4. ListOK(buffer, S, "regular") /\ setting.mode = "regular"
      BY <2>3, <2>4 DEF BufferOK, Mode
    <3> HIDE DEF S
    <3>5. /\ ListOK(left, S, "regular") /\ IsListed(buffer, S)
          /\ Paired(Added(buffer, WithRoom, step)) /\ Ascends(Added(buffer, WithRoom, step))
      BY <2>1, <3>2, <3>3, <3>4, ListAdds DEF ListOK
    <3>6. \A e \in RangeOf(buffer.entries) \cup RangeOf(WithRoom) :
            e \notin RangeOf(left.entries) =>
              /\ step - e.born > MaxAge \/ Len(left.entries) = setting.maxSize
              /\ \A f \in RangeOf(left.entries) : e.born <= f.born
      BY <2>1, <2>2, <3>2, <3>5, EvictedFacts
    <3>7. Range(buffer.entries) = RangeOf(buffer.entries) /\ Range(WithRoom) = RangeOf(WithRoom)
          /\ Range(left.entries) = RangeOf(left.entries)
      BY DEF Range, RangeOf
    <3> HIDE DEF left
    <3> QED BY <3>1, <3>6, <3>7 DEF Evicts
  <2>5. ASSUME Mode("teacher") PROVE Evicts(failed, fresh, failed')
    <3> DEFINE S == Failures(step, runs)
               left == AddToList(failed, fresh, step, MaxAge, setting.maxSize)
    <3>1. failed' = IF fresh # << >> THEN left ELSE failed
      BY <2>5 DEF Feed, FeedDeques, FeedList, FeedBuffer, Mode
    <3>2. fresh \in Seq(S) /\ \A n \in DOMAIN fresh : fresh[n].born = step
      BY <2>1, <2>5, FreshFacts
    <3>3. \A e \in S : e.born <= step
      BY <2>1 DEF Failures, BornBy
    <3>4. ListOK(failed, S, "teacher") /\ setting.mode = "teacher"
      BY <2>3, <2>5 DEF FailedOK, Mode
    <3> HIDE DEF S
    <3>5. /\ ListOK(left, S, "teacher") /\ IsListed(failed, S)
          /\ Paired(Added(failed, fresh, step)) /\ Ascends(Added(failed, fresh, step))
      BY <2>1, <3>2, <3>3, <3>4, ListAdds DEF ListOK
    <3>6. \A e \in RangeOf(failed.entries) \cup RangeOf(fresh) :
            e \notin RangeOf(left.entries) =>
              /\ step - e.born > MaxAge \/ Len(left.entries) = setting.maxSize
              /\ \A f \in RangeOf(left.entries) : e.born <= f.born
      BY <2>1, <2>2, <3>2, <3>5, EvictedFacts
    <3>7. Range(failed.entries) = RangeOf(failed.entries) /\ Range(fresh) = RangeOf(fresh)
          /\ Range(left.entries) = RangeOf(left.entries)
      BY DEF Range, RangeOf
    <3>8. CASE fresh # << >>
      <4> HIDE DEF left
      <4> QED BY <3>1, <3>6, <3>7, <3>8 DEF Evicts
    <3>9. CASE fresh = << >>
      <4>1. Range(fresh) = {} /\ failed' = failed
        BY <3>1, <3>9 DEF Range
      <4> QED BY <4>1 DEF Evicts
    <3> QED BY <3>8, <3>9
  <2> QED BY <2>4, <2>5
<1> QED BY <1>1, Invariance, PTL DEF EvictsOldest
-----------------------------------------------------------------------------
(* Ages.                                                                   *)

\* As old as an add leaves anything.
AgedTo(entries, now, age) == \A n \in DOMAIN entries : now - entries[n].born <= age

AgesInv ==
  /\ Mode("regular") /\ ~Early => AgedTo(buffer.entries, step, MaxAge)
  /\ Mode("regular") /\ Early /\ (runs <= 2 \/ step > tracked.step + 1) =>
       AgedTo(buffer.entries, step, MaxAge + 1)
  /\ Mode("regular") /\ pc = "rollout" => RangeOf(drawn) \subseteq RangeOf(buffer.entries)
  /\ runs = 1 /\ ~Mode("regular") => buffer = EmptyList
  /\ runs = 1 => \A s \in DOMAIN disk : disk[s].buffer = NoFile \/ AgedTo(disk[s].buffer.entries, s, MaxAge)

LEMMA InitAges == Init => AgesInv
<1> SUFFICES ASSUME Init PROVE AgesInv
  OBVIOUS
<1>1. pc = "plan" /\ buffer = EmptyList /\ DOMAIN buffer.entries = {} /\ DOMAIN disk = {} /\ Early
  BY DEF Init, Fresh, EmptyList, Early
<1> QED BY <1>1 DEF AgesInv, AgedTo

LEMMA AgesStay ==
  ASSUME AgesInv, UNCHANGED <<setting, runs, step, buffer, disk, tracked>>, Early' = Early,
         pc' = "rollout" => pc = "rollout" /\ drawn' = drawn
  PROVE  AgesInv'
BY DEF AgesInv, Mode

LEMMA StepAges == IInv /\ AgesInv /\ [Next]_flatVars => AgesInv'
<1> SUFFICES ASSUME IInv, AgesInv, [Next]_flatVars PROVE AgesInv'
  OBVIOUS
<1>0. MaxAge \in Nat /\ step \in Nat \ {0} /\ runs \in Nat \ {0}
  BY FlatAssumption, PastFacts
<1>1. CASE Plan
  BY <1>1, AgesStay DEF Plan, Goto, Early, poolVars, diskVars
<1>2. CASE DrawBatch
  <2>1. UNCHANGED <<setting, runs, step, buffer, disk, tracked>> /\ Early' = Early
    BY <1>2 DEF DrawBatch, DrawAnnotated, DrawBranchPoints, DrawSynthetic, Goto, Early, poolVars, diskVars
  <2>2. Mode("regular") => RangeOf(drawn') \subseteq RangeOf(buffer.entries)
    <3>1. SUFFICES ASSUME Mode("regular") PROVE RangeOf(drawn') \subseteq RangeOf(buffer.entries)
      OBVIOUS
    <3>2. DrawBranchPoints
      BY <1>2, <3>1 DEF DrawBatch, DrawAnnotated, DrawSynthetic, Mode
    <3>3. PICK I \in BatchDraws(buffer.entries, quota, setting.strategy) : drawn' = At(buffer.entries, I)
      BY <3>2 DEF DrawBranchPoints
    <3> DEFINE u == buffer.entries
               S == Roomy(Past, runs)
    <3>4. u \in Seq(S) /\ quota \in Nat
      BY DEF IInv, PoolsOK, BufferOK, ListOK, IsListed, BatchOK
    <3> HIDE DEF u, S
    <3>5. I \in SUBSET DOMAIN u
      BY <3>3, <3>4, DrawFacts DEF u
    <3>6. RangeOf(At(u, I)) \subseteq RangeOf(u)
      BY <3>4, <3>5, SplitFacts
    <3> QED BY <3>3, <3>6 DEF u
  <2> QED BY <2>1, <2>2 DEF AgesInv, Mode
<1>3. CASE Rollout
  BY <1>3, AgesStay DEF Rollout, Goto, Early, poolVars, diskVars
<1>4. CASE Feed
  <2>1. /\ pc = "feed" /\ pc' = "usage" /\ ~Early'
        /\ UNCHANGED <<setting, runs, step, disk, tracked>>
    BY <1>4 DEF Feed, Goto, Early, diskVars
  <2>2. ASSUME Mode("regular") PROVE AgedTo(buffer'.entries, step, MaxAge)
    <3> DEFINE S == Roomy(step, runs)
               left == AddToList(buffer, WithRoom, step, MaxAge, setting.maxSize)
    <3>1. buffer' = left
      BY <1>4, <2>2 DEF Feed, FeedDeques, FeedList, FeedBuffer, BufferWith, Mode
    <3>2. WithRoom \in Seq(S) /\ \A n \in DOMAIN WithRoom : WithRoom[n].born = step
      BY <2>1, <2>2, RoomFacts
    <3>3. \A e \in S : e.born <= step
      BY <1>0 DEF Roomy, Points, BornBy
    <3>4. BufferOK(buffer, step, runs)
      <4>1. Past \in Int /\ step \in Int /\ runs \in Int /\ Past <= step /\ runs <= runs
        BY PastFacts
      <4> QED BY <4>1, Grow DEF IInv, PoolsOK
    <3>5. ListOK(buffer, S, "regular") /\ setting.mode = "regular" /\ setting \in Settings
      BY <2>2, <3>4 DEF BufferOK, Mode, IInv, ControlOK
    <3> HIDE DEF S
    <3>6. \A e \in RangeOf(left.entries) : step - e.born <= MaxAge
      BY <1>0, <3>2, <3>3, <3>5, ListAdds
    <3> HIDE DEF left
    <3> QED BY <3>1, <3>6 DEF AgedTo, RangeOf
  <2>3. ~Mode("regular") => buffer' = buffer
    BY <1>4 DEF Feed, FeedDeques, FeedList, FeedBuffer
  <2> QED BY <2>1, <2>2, <2>3 DEF AgesInv, Mode
<1>5. CASE Usage
  BY <1>5, AgesStay DEF Usage, Goto, Early, diskVars
<1>6. CASE Save
  <2>1. /\ pc = "save" /\ pc' \in {"first", "next"}
        /\ UNCHANGED <<setting, runs, step, buffer, tracked>>
        /\ \A s \in DOMAIN disk' : IF s \in DOMAIN disk THEN disk'[s] = disk[s] ELSE disk'[s] = NoFiles
    BY <1>6 DEF Save, Goto, poolVars
  <2>2. NoFiles.buffer = NoFile
    BY DEF NoFiles, Files
  <2> QED BY <2>1, <2>2 DEF AgesInv, Mode, Early
<1>7. CASE DumpFirst \/ DumpSecond
  <2>1. PICK files \in SUBSET Files : Dump(files)
    BY <1>7 DEF DumpFirst, DumpSecond, Files
  <2>2. pc \in {"first", "second"} /\ pc' \in {"second", "track"} /\ ~Early /\ ~Early'
    BY <1>7 DEF DumpFirst, DumpSecond, Goto, Early
  <2>3. UNCHANGED <<setting, runs, step, buffer, tracked>>
    BY <2>1 DEF Dump, poolVars
  <2>4. /\ DOMAIN disk' = DOMAIN disk /\ step \in DOMAIN disk
        /\ \A s \in DOMAIN disk \ {step} : disk'[s] = disk[s]
    BY <2>1, <2>2 DEF Dump, IInv, DiskOK
  <2>5. disk'[step].buffer = disk[step].buffer \/ disk'[step].buffer = buffer
    <3>1. DOMAIN disk[step] = Files
      BY <2>4 DEF IInv, DiskOK, FolderOK
    <3>2. Contents("buffer") = buffer
      BY DEF Contents
    <3> QED BY <2>1, <2>4, <3>1, <3>2 DEF Dump, Files
  <2>6. runs = 1 => AgedTo(buffer.entries, step, MaxAge)
    <3>1. DOMAIN EmptyList.entries = {}
      BY DEF EmptyList
    <3> QED BY <2>2, <3>1 DEF AgesInv, AgedTo
  <2> QED BY <2>2, <2>3, <2>4, <2>5, <2>6 DEF AgesInv, Mode
<1>8. CASE Track
  <2>1. ~Early /\ ~Early' /\ pc' = "next" /\ UNCHANGED <<setting, runs, step, buffer, disk>>
    BY <1>8 DEF Track, Goto, Early, poolVars
  <2> QED BY <2>1 DEF AgesInv, Mode
<1>9. CASE NextStep
  <2>1. /\ pc = "next" /\ ~Early
        /\ UNCHANGED <<setting, runs, buffer, disk, tracked>>
        /\ IF IsLastStep THEN pc' = "done" /\ step' = step ELSE pc' = "plan" /\ step' = step + 1
    BY <1>9 DEF NextStep, Goto, Early, poolVars, diskVars
  <2>2. Mode("regular") => AgedTo(buffer.entries, step, MaxAge)
    BY <2>1 DEF AgesInv
  <2>3. \A n \in DOMAIN buffer.entries : buffer.entries[n].born \in Nat
    <3>1. \A n \in DOMAIN buffer.entries : buffer.entries[n] \in Roomy(Past, runs)
      BY ElementOfSeq DEF IInv, PoolsOK, BufferOK, ListOK, IsListed
    <3> QED BY <3>1 DEF Roomy, Points, Point
  <2>4. Mode("regular") => AgedTo(buffer.entries, step + 1, MaxAge + 1)
    BY <1>0, <2>2, <2>3 DEF AgedTo
  <2> QED BY <2>1, <2>2, <2>4 DEF AgesInv, Mode, Early
<1>10. CASE Restart
  <2> DEFINE s == tracked.step
  <2>1. /\ runs' = runs + 1 /\ step' = s + 1 /\ pc' = "plan" /\ Early' /\ s > 0
        /\ UNCHANGED <<disk, tracked>>
        /\ buffer' = IF disk[s].buffer = NoFile THEN EmptyList ELSE disk[s].buffer
    BY <1>10 DEF Restart, Loaded, Goto, Early, diskVars
  <2>2. s \in DOMAIN disk /\ s \in Nat /\ FolderOK(disk[s], s, runs)
    BY <2>1 DEF IInv, TrackedOK, DiskOK
  <2>3. ASSUME runs' <= 2 PROVE AgedTo(buffer'.entries, step', MaxAge + 1)
    <3>1. runs = 1
      BY <1>0, <2>1, <2>3
    <3>2. CASE disk[s].buffer = NoFile
      BY <2>1, <3>2 DEF EmptyList, AgedTo
    <3>3. CASE disk[s].buffer # NoFile
      <4>1. AgedTo(disk[s].buffer.entries, s, MaxAge) /\ buffer' = disk[s].buffer
        BY <2>1, <2>2, <3>1, <3>3 DEF AgesInv
      <4>2. \A n \in DOMAIN buffer'.entries : buffer'.entries[n].born \in Nat
        <5>1. \A n \in DOMAIN buffer'.entries : buffer'.entries[n] \in Roomy(s, runs)
          BY <2>2, <3>3, <4>1, ElementOfSeq DEF FolderOK, BufferOK, ListOK, IsListed
        <5> QED BY <5>1 DEF Roomy, Points, Point
      <4> QED BY <1>0, <2>1, <2>2, <4>1, <4>2 DEF AgedTo
    <3> QED BY <3>2, <3>3
  <2>4. runs' # 1 /\ ~(step' > tracked'.step + 1)
    BY <1>0, <2>1, <2>2
  <2> QED BY <2>1, <2>3, <2>4 DEF AgesInv
<1>11. CASE WorkerStep
  BY <1>11, AgesStay DEF WorkerStep, Early, stepVars, diskVars
<1>12. CASE UNCHANGED flatVars
  BY <1>12, AgesStay DEF flatVars, Early, stepVars, poolVars, diskVars
<1> QED BY <1>1, <1>2, <1>3, <1>4, <1>5, <1>6, <1>7, <1>8, <1>9, <1>10, <1>11, <1>12 DEF Next, TrainerStep, Done

\* What is said of an entry's age is true, and nothing older than MaxAge + 1
\* steps is drawn from the buffer, also when a step brings nothing to it.  The
\* first step of a third or later process is excepted, see SampledAge: between
\* two processes in regular mode a third may have carried the buffer along
\* without ageing it.
THEOREM AgesHold == Spec => []AgesAreTrue
<1>1. IInv /\ AgesInv => SampledAge
  <2> SUFFICES ASSUME IInv, AgesInv, Mode("regular"), pc = "rollout", runs <= 2 \/ step > tracked.step + 1,
                      NEW n \in DOMAIN drawn
               PROVE  step - drawn[n].born \in 1..(MaxAge + 1)
    BY DEF SampledAge
  <2>1. Past = step - 1 /\ step \in Nat \ {0} /\ MaxAge \in Nat
    BY PastFacts, FlatAssumption DEF Early
  <2>2. drawn[n] \in Roomy(Past, runs)
    BY ElementOfSeq DEF IInv, BatchOK
  <2>3. drawn[n].born \in 1..(step - 1)
    BY <2>1, <2>2 DEF Roomy, Points, BornBy
  <2>4. drawn[n] \in RangeOf(buffer.entries)
    BY DEF AgesInv, RangeOf
  <2>5. step - drawn[n].born <= MaxAge + 1
    BY <2>4 DEF AgesInv, AgedTo, RangeOf, Early
  <2> QED BY <2>1, <2>3, <2>5
<1>2. Spec => []AgesInv
  BY Invariance, InitAges, StepAges, PTL DEF Spec
<1> QED BY <1>1, <1>2, Invariance, WellFormed, PTL DEF AgesAreTrue
-----------------------------------------------------------------------------
(* Places.                                                                 *)

Apart(entries, others, done) ==
  /\ IsInjective(entries) /\ IsInjective(others)
  /\ RangeOf(entries) \cap RangeOf(others) = {}
  /\ RangeOf(entries) \cap done = {} /\ RangeOf(others) \cap done = {}

\* What a folder gives a process in teacher mode.
ListIn(files) == IF files.failed = NoFile THEN EmptyList ELSE LoadedList(files.failed)
AnnotatedIn(files) == IF files.annotated = NoFile THEN << >> ELSE files.annotated.entries

Used == trained \cup RangeOf(drawn)

PlacesInv ==
  /\ Mode("teacher") /\ tracked.whole =>
       /\ Apart(failed.entries, annotated, Used)
       /\ tasks \cap RangeOf(failed.entries) = {} /\ tasks \cap RangeOf(annotated) = {} /\ tasks \cap Used = {}
  /\ pc = "second" /\ still /\ tracked.whole => Apart(ListIn(disk[step]).entries, annotated, trained)
  /\ pc = "track" /\ still /\ tracked.whole =>
       Apart(ListIn(disk[step]).entries, AnnotatedIn(disk[step]), trained)
  /\ tracked.step > 0 /\ tracked.whole =>
       Apart(ListIn(disk[tracked.step]).entries, AnnotatedIn(disk[tracked.step]), tracked.trained)

LEMMA EmptyRange == RangeOf(<< >>) = {} /\ IsInjective(<< >>) /\ EmptyList.entries = << >>
BY DEF RangeOf, IsInjective, EmptyList

LEMMA InitPlaces == Init => PlacesInv
<1> SUFFICES ASSUME Init PROVE PlacesInv
  OBVIOUS
<1>1. /\ pc = "plan" /\ failed = EmptyList /\ annotated = << >> /\ drawn = << >> /\ trained = {} /\ tasks = {}
      /\ tracked.step = 0
  BY DEF Init, Fresh
<1> QED BY <1>1, EmptyRange DEF PlacesInv, Apart, Used

LEMMA PlacesStay ==
  ASSUME PlacesInv, UNCHANGED <<setting, step, failed, annotated, trained, tasks, disk, tracked>>,
         RangeOf(drawn') \subseteq RangeOf(drawn),
         pc' \in {"second", "track"} => pc' = pc /\ still' = still
  PROVE  PlacesInv'
<1>1. Used' \subseteq Used
  BY DEF Used
<1> QED BY <1>1 DEF PlacesInv, Apart, Mode

\* The first two files are those of the moment, or of an empty pool.
LEMMA DumpFirstPlaces == IInv /\ PlacesInv /\ DumpFirst => PlacesInv'
<1> SUFFICES ASSUME IInv, PlacesInv, DumpFirst PROVE PlacesInv'
  OBVIOUS
<1>1. /\ pc = "first" /\ pc' = "second" /\ step \in DOMAIN disk /\ DOMAIN disk[step] = Files
      /\ UNCHANGED <<setting, step, failed, annotated, trained, tasks, tracked, drawn>>
  BY DEF DumpFirst, Dump, Goto, stepVars, poolVars, IInv, DiskOK, FolderOK
<1>2. /\ disk'[step].failed = IF IsWritten("failed") THEN Contents("failed") ELSE disk[step].failed
      /\ \A s \in DOMAIN disk \ {step} : disk'[s] = disk[s]
  BY <1>1 DEF DumpFirst, Dump, Files
<1>3. still' => IsWritten("failed") \/ disk[step].failed = NoFile
  BY <1>1 DEF DumpFirst, Dump
<1>4. Contents("failed") = [priority |-> Mode("inject"), list |-> failed, flat |-> Flattened(deques)]
  BY DEF Contents
<1>5. still' => ListIn(disk'[step]) \in {failed, EmptyList}
  BY <1>2, <1>3, <1>4 DEF ListIn, LoadedList
<1>6. tracked.whole /\ still' => Apart(ListIn(disk'[step]).entries, annotated, trained)
  <2> SUFFICES ASSUME tracked.whole, still' PROVE Apart(ListIn(disk'[step]).entries, annotated, trained)
    OBVIOUS
  <2>1. CASE Mode("teacher")
    <3>1. Apart(failed.entries, annotated, Used)
      BY <2>1 DEF PlacesInv
    <3>2. Apart(failed.entries, annotated, trained)
      BY <3>1 DEF Apart, Used
    <3> QED BY <1>5, <3>2, EmptyRange DEF Apart
  <2>2. CASE ~Mode("teacher")
    <3>1. failed = EmptyList /\ annotated = << >>
      BY <2>2 DEF IInv, ModesOK
    <3> QED BY <1>5, <3>1, EmptyRange DEF Apart
  <2> QED BY <2>1, <2>2
<1>7. tracked.step # step
  BY <1>1, PastFacts DEF IInv, TrackedOK
<1>8. tracked.step > 0 => disk'[tracked.step] = disk[tracked.step]
  BY <1>2, <1>7 DEF IInv, TrackedOK
<1> QED BY <1>1, <1>6, <1>8 DEF PlacesInv, Mode, Used

LEMMA DumpSecondPlaces == IInv /\ PlacesInv /\ DumpSecond => PlacesInv'
<1> SUFFICES ASSUME IInv, PlacesInv, DumpSecond PROVE PlacesInv'
  OBVIOUS
<1>1. /\ pc = "second" /\ pc' = "track" /\ step \in DOMAIN disk /\ DOMAIN disk[step] = Files
      /\ UNCHANGED <<setting, step, failed, annotated, trained, tasks, tracked, drawn>>
  BY DEF DumpSecond, Dump, Goto, stepVars, poolVars, IInv, DiskOK, FolderOK
<1>2. /\ disk'[step].failed = disk[step].failed
      /\ disk'[step].annotated = IF IsWritten("annotated") THEN Contents("annotated") ELSE disk[step].annotated
      /\ \A s \in DOMAIN disk \ {step} : disk'[s] = disk[s]
  BY <1>1 DEF DumpSecond, Dump, Files
<1>3. still' => still /\ (IsWritten("annotated") \/ disk[step].annotated = NoFile)
  BY <1>1 DEF DumpSecond, Dump
<1>4. Contents("annotated") = [entries |-> annotated]
  BY DEF Contents
<1>5. still' => AnnotatedIn(disk'[step]) \in {annotated, << >>}
  BY <1>2, <1>3, <1>4 DEF AnnotatedIn
<1>6. tracked.whole /\ still' => Apart(ListIn(disk'[step]).entries, AnnotatedIn(disk'[step]), trained)
  <2> SUFFICES ASSUME tracked.whole, still'
               PROVE  Apart(ListIn(disk'[step]).entries, AnnotatedIn(disk'[step]), trained)
    OBVIOUS
  <2>1. Apart(ListIn(disk[step]).entries, annotated, trained) /\ ListIn(disk'[step]) = ListIn(disk[step])
    BY <1>1, <1>2, <1>3 DEF PlacesInv, ListIn
  <2> QED BY <1>5, <2>1, EmptyRange DEF Apart
<1>7. tracked.step # step
  BY <1>1, PastFacts DEF IInv, TrackedOK
<1>8. tracked.step > 0 => disk'[tracked.step] = disk[tracked.step]
  BY <1>2, <1>7 DEF IInv, TrackedOK
<1> QED BY <1>1, <1>6, <1>8 DEF PlacesInv, Mode, Used

\* Failures of this step are nowhere yet.
LEMMA FeedPlaces == IInv /\ PlacesInv /\ Feed => PlacesInv'
<1> SUFFICES ASSUME IInv, PlacesInv, Feed PROVE PlacesInv'
  OBVIOUS
<1>1. /\ pc = "feed" /\ pc' = "usage"
      /\ UNCHANGED <<setting, step, annotated, trained, tasks, disk, tracked, drawn>>
  BY DEF Feed, Goto, stepVars, diskVars, historyVars
<1>2. SUFFICES ASSUME Mode("teacher"), tracked.whole
               PROVE  /\ Apart(failed'.entries, annotated, Used)
                      /\ tasks \cap RangeOf(failed'.entries) = {}
  BY <1>1 DEF PlacesInv, Mode, Used
<1> DEFINE S == Failures(step, runs)
           left == AddToList(failed, fresh, step, MaxAge, setting.maxSize)
           all == Added(failed, fresh, step)
<1>3. failed' = IF fresh # << >> THEN left ELSE failed
  BY <1>2 DEF Feed, FeedDeques, FeedList, FeedBuffer, Mode
<1>4. /\ Apart(failed.entries, annotated, Used)
      /\ tasks \cap RangeOf(failed.entries) = {}
  BY <1>2 DEF PlacesInv
<1>5. fresh \in Seq(S) /\ (\A n \in DOMAIN fresh : fresh[n].born = step) /\ IsInjective(fresh)
  BY <1>1, <1>2, FreshFacts DEF IInv, FreshOK, Mode
<1>6. /\ Past = step - 1 /\ step \in Nat \ {0} /\ runs \in Nat \ {0}
      /\ setting \in Settings /\ setting.mode = "teacher"
  BY <1>1, <1>2, PastFacts DEF Early, IInv, ControlOK, Mode
<1>7. \A e \in Failures(Past, runs) : e.born # step /\ e.born <= step
  BY <1>6 DEF Failures, BornBy
<1>8. /\ RangeOf(failed.entries) \subseteq Failures(Past, runs) /\ RangeOf(annotated) \subseteq Failures(Past, runs)
      /\ tasks \subseteq Failures(Past, runs) /\ Used \subseteq Failures(Past, runs)
  <2>1. failed.entries \in Seq(Failures(Past, runs)) /\ annotated \in Seq(Failures(Past, runs))
        /\ drawn \in Seq(Failures(Past, runs))
    BY <1>2 DEF IInv, PoolsOK, FailedOK, ListOK, IsListed, AnnotatedOK, BatchOK
  <2>2. /\ RangeOf(failed.entries) \subseteq Failures(Past, runs) /\ RangeOf(annotated) \subseteq Failures(Past, runs)
        /\ RangeOf(drawn) \subseteq Failures(Past, runs)
    BY <2>1, RangeFacts
  <2> QED BY <2>2 DEF IInv, OutOK, TasksOK, Used
<1>9. \A e \in RangeOf(fresh) : e.born = step
  BY <1>5 DEF RangeOf
<1>10. /\ RangeOf(fresh) \cap RangeOf(failed.entries) = {} /\ RangeOf(fresh) \cap RangeOf(annotated) = {}
       /\ RangeOf(fresh) \cap tasks = {} /\ RangeOf(fresh) \cap Used = {}
  BY <1>7, <1>8, <1>9
<1>11. ListOK(failed, S, "teacher") /\ IsListed(failed, S)
  <2>1. Past \in Int /\ step \in Int /\ runs \in Int /\ Past <= step /\ runs <= runs
    BY <1>6
  <2> QED BY <2>1, Grow DEF IInv, PoolsOK, FailedOK, ListOK
<1>12. \A e \in S : e.born <= step
  BY <1>6 DEF Failures, BornBy
<1> HIDE DEF S
<1>13. ListOK(left, S, "teacher") /\ Within(left, all) /\ IsListed(all, S)
  BY <1>5, <1>6, <1>11, <1>12, ListAdds
<1>14. IsInjective(all.entries) /\ RangeOf(all.entries) = RangeOf(failed.entries) \cup RangeOf(fresh)
  <2>1. RangeOf(failed.entries) \cap RangeOf(fresh) = {} /\ IsInjective(failed.entries)
    BY <1>4, <1>10 DEF Apart
  <2> QED BY <1>5, <1>6, <1>11, <2>1, AddedKeeps, AddedFacts
<1> HIDE DEF left, all
<1>15. IsInjective(left.entries) /\ RangeOf(left.entries) \subseteq RangeOf(failed.entries) \cup RangeOf(fresh)
  BY <1>13, <1>14, WithinKeeps DEF ListOK
<1>16. IsInjective(failed'.entries) /\ RangeOf(failed'.entries) \subseteq RangeOf(failed.entries) \cup RangeOf(fresh)
  BY <1>3, <1>4, <1>15 DEF Apart
<1> QED BY <1>4, <1>10, <1>16 DEF Apart

LEMMA DrawPlaces == IInv /\ PlacesInv /\ DrawBatch => PlacesInv'
<1> SUFFICES ASSUME IInv, PlacesInv, DrawBatch PROVE PlacesInv'
  OBVIOUS
<1>1. /\ pc = "draw" /\ pc' = "rollout"
      /\ UNCHANGED <<setting, step, failed, trained, tasks, disk, tracked>>
  BY DEF DrawBatch, DrawAnnotated, DrawBranchPoints, DrawSynthetic, Goto, poolVars, diskVars, historyVars
<1>2. SUFFICES ASSUME Mode("teacher"), tracked.whole
               PROVE  /\ Apart(failed.entries, annotated', Used')
                      /\ tasks \cap RangeOf(annotated') = {} /\ tasks \cap Used' = {}
  BY <1>1 DEF PlacesInv, Mode
<1>3. PICK I \in BatchDraws(annotated, quota, setting.strategy) :
        drawn' = At(annotated, I) /\ annotated' = Except(annotated, I)
  BY <1>2 DEF DrawBatch, DrawAnnotated, DrawBranchPoints, DrawSynthetic, Mode
<1>4. annotated \in Seq(Failures(Past, runs)) /\ quota \in Nat
  BY DEF IInv, PoolsOK, AnnotatedOK, BatchOK
<1>5. I \in SUBSET DOMAIN annotated
  BY <1>4, DrawFacts
<1>6. /\ Apart(failed.entries, annotated, Used)
      /\ tasks \cap RangeOf(failed.entries) = {} /\ tasks \cap RangeOf(annotated) = {} /\ tasks \cap Used = {}
  BY <1>2 DEF PlacesInv
<1>7. /\ RangeOf(drawn') \subseteq RangeOf(annotated) /\ RangeOf(annotated') \subseteq RangeOf(annotated)
      /\ IsInjective(annotated') /\ RangeOf(drawn') \cap RangeOf(annotated') = {}
  BY <1>3, <1>4, <1>5, <1>6, SplitFacts DEF Apart
<1>8. Used' = trained \cup RangeOf(drawn') /\ trained \subseteq Used
  BY <1>1 DEF Used
<1> QED BY <1>6, <1>7, <1>8 DEF Apart

LEMMA RestartPlaces == IInv /\ PlacesInv /\ Restart => PlacesInv'
<1> SUFFICES ASSUME IInv, PlacesInv, Restart PROVE PlacesInv'
  OBVIOUS
<1> DEFINE files == disk[tracked.step]
<1>1. /\ pc' = "plan" /\ tracked.step > 0 /\ drawn' = << >> /\ tasks' = {} /\ trained' = tracked.trained
      /\ UNCHANGED <<disk, tracked>>
  BY DEF Restart, Goto, diskVars
<1>2. Mode("teacher")' => failed' = ListIn(files) /\ annotated' = AnnotatedIn(files)
  BY DEF Restart, Loaded, ListIn, AnnotatedIn, Mode
<1>3. Used' = tracked.trained
  BY <1>1, EmptyRange DEF Used
<1> QED BY <1>1, <1>2, <1>3 DEF PlacesInv

LEMMA FetchPlaces == IInv /\ PlacesInv /\ WorkerStep /\ Fetch => PlacesInv'
<1> SUFFICES ASSUME IInv, PlacesInv, WorkerStep, Fetch PROVE PlacesInv'
  OBVIOUS
<1>1. UNCHANGED <<setting, step, pc, drawn, annotated, trained, still, disk, tracked>>
  BY DEF WorkerStep, Fetch, stepVars, diskVars
<1>2. SUFFICES ASSUME Mode("teacher"), tracked.whole
               PROVE  /\ Apart(failed'.entries, annotated, Used)
                      /\ tasks' \cap RangeOf(failed'.entries) = {} /\ tasks' \cap RangeOf(annotated) = {}
                      /\ tasks' \cap Used = {}
  BY <1>1 DEF PlacesInv, Mode, Used
<1>3. PICK e \in Waiting : FetchFromList(e) /\ tasks' = tasks \cup {e}
  BY <1>2 DEF Fetch, FetchFromDeques, Mode
<1>4. PICK n \in DOMAIN failed.entries : e = failed.entries[n] /\ failed' = RemoveFromList(failed, {n})
  BY <1>3 DEF FetchFromList
<1>5. /\ Apart(failed.entries, annotated, Used)
      /\ tasks \cap RangeOf(failed.entries) = {} /\ tasks \cap RangeOf(annotated) = {} /\ tasks \cap Used = {}
  BY <1>2 DEF PlacesInv
<1>6. /\ RangeOf(failed'.entries) \subseteq RangeOf(failed.entries) /\ IsInjective(failed'.entries)
      /\ e \notin RangeOf(failed'.entries) /\ e \in RangeOf(failed.entries)
  <2>1. ListOK(failed, Failures(Past, runs), "teacher") /\ IsInjective(failed.entries)
    BY <1>5 DEF IInv, PoolsOK, FailedOK, Apart
  <2>2. /\ RangeOf(failed'.entries) \subseteq RangeOf(failed.entries) /\ IsInjective(failed'.entries)
        /\ e \notin RangeOf(failed'.entries)
    BY <1>4, <2>1, ListGives
  <2> QED BY <1>4, <2>2 DEF RangeOf
<1> QED BY <1>3, <1>5, <1>6 DEF Apart

LEMMA AnnotatePlaces == IInv /\ PlacesInv /\ WorkerStep /\ Annotate => PlacesInv'
<1> SUFFICES ASSUME IInv, PlacesInv, WorkerStep, Annotate PROVE PlacesInv'
  OBVIOUS
<1>1. UNCHANGED <<setting, step, pc, drawn, failed, trained, disk, tracked>>
  BY DEF WorkerStep, Annotate, stepVars, diskVars
<1>2. PICK e \in tasks : (Deliver(e) \/ GiveUp(e)) /\ tasks' = tasks \ {e}
  BY DEF Annotate
<1>3. still' => still /\ (pc = "second" => annotated' = annotated)
  <2>1. CASE Deliver(e)
    <3>1. still' = (still /\ pc # "second")
      BY <2>1 DEF Deliver
    <3> QED BY <3>1
  <2>2. CASE GiveUp(e)
    BY <2>2 DEF GiveUp
  <2> QED BY <1>2, <2>1, <2>2
<1>4. SUFFICES ASSUME Mode("teacher"), tracked.whole
               PROVE  /\ Apart(failed.entries, annotated', Used)
                      /\ tasks' \cap RangeOf(annotated') = {}
  BY <1>1, <1>2, <1>3 DEF PlacesInv, Mode, Used
<1>5. /\ Apart(failed.entries, annotated, Used)
      /\ tasks \cap RangeOf(failed.entries) = {} /\ tasks \cap RangeOf(annotated) = {} /\ tasks \cap Used = {}
  BY <1>4 DEF PlacesInv
<1>6. CASE annotated' = annotated
  BY <1>2, <1>5, <1>6
<1>7. CASE annotated' # annotated
  <2> DEFINE S == Failures(Past, runs)
  <2>1. annotated' = Newest(setting.maxSize, Append(annotated, e))
    BY <1>2, <1>4, <1>7 DEF Deliver, GiveUp, AnnotatedWith
  <2>2. annotated \in Seq(S) /\ e \in S /\ setting.maxSize \in Nat \ {0}
    BY FlatAssumption DEF IInv, PoolsOK, AnnotatedOK, OutOK, TasksOK, ControlOK, SettingType
  <2> HIDE DEF S
  <2>3. RangeOf(annotated') \subseteq RangeOf(annotated) \cup {e} /\ IsInjective(annotated')
    BY <1>5, <2>1, <2>2, AnnotatedAdds DEF Apart
  <2> QED BY <1>2, <1>5, <2>3 DEF Apart
<1> QED BY <1>6, <1>7

LEMMA StepPlaces == IInv /\ PlacesInv /\ [Next]_flatVars => PlacesInv'
<1> SUFFICES ASSUME IInv, PlacesInv, [Next]_flatVars PROVE PlacesInv'
  OBVIOUS
<1>1. CASE Plan
  BY <1>1, PlacesStay DEF Plan, Goto, poolVars, diskVars, historyVars
<1>2. CASE Rollout
  <2>1. /\ pc' = "feed" /\ trained' = IF Mode("teacher") THEN trained \cup Range(drawn) ELSE trained
        /\ UNCHANGED <<setting, step, failed, annotated, drawn, tasks, disk, tracked>>
    BY <1>2 DEF Rollout, Goto, poolVars, diskVars
  <2>2. Mode("teacher") => Used' = Used
    BY <2>1 DEF Used, Range, RangeOf
  <2> QED BY <2>1, <2>2 DEF PlacesInv, Mode
<1>3. CASE Usage
  <2>1. /\ pc' = "save" /\ drawn' = << >>
        /\ UNCHANGED <<setting, step, failed, annotated, trained, tasks, disk, tracked>>
    BY <1>3 DEF Usage, Goto, diskVars
  <2> QED BY <2>1, PlacesStay, EmptyRange
<1>4. CASE Save
  <2>1. /\ pc = "save" /\ pc' \in {"first", "next"}
        /\ UNCHANGED <<setting, step, failed, annotated, trained, tasks, tracked, drawn>>
        /\ \A s \in DOMAIN disk : disk'[s] = disk[s]
    BY <1>4 DEF Save, Goto, poolVars, stepVars, historyVars
  <2>2. tracked.step > 0 => disk'[tracked.step] = disk[tracked.step]
    BY <2>1 DEF IInv, TrackedOK
  <2> QED BY <2>1, <2>2 DEF PlacesInv, Mode, Used
<1>5. CASE Track
  <2>1. /\ pc = "track" /\ pc' = "next" /\ tracked'.step = step /\ tracked'.trained = trained
        /\ tracked'.whole = (still /\ tracked.whole)
        /\ UNCHANGED <<setting, step, failed, annotated, trained, tasks, disk, drawn>>
    BY <1>5 DEF Track, Goto, poolVars, stepVars, historyVars
  <2> QED BY <2>1 DEF PlacesInv, Mode, Used
<1>6. CASE NextStep
  <2>1. /\ pc' \in {"done", "plan"}
        /\ UNCHANGED <<setting, failed, annotated, trained, tasks, disk, tracked, drawn>>
    BY <1>6 DEF NextStep, Goto, poolVars, stepVars, diskVars, historyVars
  <2> QED BY <2>1 DEF PlacesInv, Mode, Used
<1>7. CASE WorkerStep
  BY <1>7, FetchPlaces, AnnotatePlaces DEF WorkerStep
<1>8. CASE UNCHANGED flatVars
  BY <1>8, PlacesStay DEF flatVars, stepVars, poolVars, diskVars, historyVars
<1> QED BY <1>1, <1>2, <1>3, <1>4, <1>5, <1>6, <1>7, <1>8, DrawPlaces, FeedPlaces, DumpFirstPlaces,
           DumpSecondPlaces, RestartPlaces DEF Next, TrainerStep, Done

\* A failed trajectory waits, is with the worker, is annotated or was trained
\* on, and only one of these, and no list has it twice: through fetches,
\* evictions, draws and crashes, as long as the checkpoints that were loaded
\* are of one moment.
THEOREM OnePlace == Spec => []InOnePlace
<1>1. PlacesInv => InOnePlace
  <2> SUFFICES ASSUME PlacesInv, Mode("teacher"), tracked.whole
               PROVE  /\ IsInjective(failed.entries) /\ IsInjective(annotated)
                      /\ LET places == <<Range(failed.entries), tasks, Range(annotated), trained \cup Range(drawn)>>
                         IN \A i, j \in DOMAIN places : i # j => places[i] \cap places[j] = {}
    BY DEF InOnePlace
  <2> DEFINE F == Range(failed.entries)
             A == Range(annotated)
             D == trained \cup Range(drawn)
             places == <<F, tasks, A, D>>
  <2>1. F = RangeOf(failed.entries) /\ A = RangeOf(annotated) /\ D = Used
    BY DEF Range, RangeOf, Used
  <2>2. /\ IsInjective(failed.entries) /\ IsInjective(annotated)
        /\ F \cap A = {} /\ F \cap D = {} /\ A \cap D = {} /\ tasks \cap F = {} /\ tasks \cap A = {} /\ tasks \cap D = {}
    BY <2>1 DEF PlacesInv, Apart
  <2> HIDE DEF F, A, D
  <2>3. /\ DOMAIN places = {1, 2, 3, 4}
        /\ places[1] = F /\ places[2] = tasks /\ places[3] = A /\ places[4] = D
    OBVIOUS
  <2> HIDE DEF places
  <2>4. \A i, j \in {1, 2, 3, 4} : i # j => places[i] \cap places[j] = {}
    <3>1. F \cap tasks = {} /\ A \cap F = {} /\ D \cap F = {} /\ A \cap tasks = {} /\ D \cap tasks = {} /\ D \cap A = {}
      BY <2>2
    <3> QED BY <2>2, <2>3, <3>1
  <2> QED BY <2>2, <2>3, <2>4 DEF places, F, A, D
<1>2. Spec => []PlacesInv
  BY Invariance, InitPlaces, StepPlaces, PTL DEF Spec
<1> QED BY <1>1, <1>2, PTL

-----------------------------------------------------------------------------
(* Stratified draws.                                                       *)


\* One turn of the loop.
Turn(s, order, n, before, turn) ==
  LET t == TreeOf(order, turn)
  IN IF SumFunction(before) < n /\ HasMore(s, before, t) THEN [before EXCEPT ![t] = @ + 1] ELSE before

\* The recursive function in Shares, up to a turn.
Takes(f, s, order, n, turns) ==
  f = [turn \in 0..turns |->
         IF turn = 0 THEN [t \in Trees(s) |-> 0] ELSE Turn(s, order, n, f[turn - 1], turn)]

LEMMA TakesExist ==
  ASSUME NEW s, NEW order, NEW n, NEW turns \in Nat
  PROVE  \E f : Takes(f, s, order, n, turns)
<1> DEFINE Solved(k) == \E f : Takes(f, s, order, n, k)
           T == {k \in Nat : Solved(k)}
<1>1. 0 \in T
  <2>1. Takes([turn \in 0..0 |-> [t \in Trees(s) |-> 0]], s, order, n, 0)
    BY DEF Takes
  <2> QED BY <2>1
<1>2. ASSUME NEW k \in T PROVE k + 1 \in T
  <2>1. k \in Nat /\ k + 1 \in Nat
    OBVIOUS
  <2>2. PICK f : Takes(f, s, order, n, k)
    OBVIOUS
  <2> DEFINE g == [turn \in 0..(k + 1) |-> IF turn <= k THEN f[turn] ELSE Turn(s, order, n, f[turn - 1], turn)]
  <2>3. ASSUME NEW turn \in 0..(k + 1)
        PROVE  g[turn] = IF turn = 0 THEN [t \in Trees(s) |-> 0] ELSE Turn(s, order, n, g[turn - 1], turn)
    <3>1. turn # 0 => turn - 1 \in 0..(k + 1) /\ turn - 1 <= k /\ g[turn - 1] = f[turn - 1]
      BY <2>1
    <3>2. turn <= k => f[turn] = IF turn = 0 THEN [t \in Trees(s) |-> 0] ELSE Turn(s, order, n, f[turn - 1], turn)
      <4>1. turn <= k => turn \in 0..k
        BY <2>1
      <4> QED BY <2>2, <4>1 DEF Takes
    <3>3. g[turn] = IF turn <= k THEN f[turn] ELSE Turn(s, order, n, f[turn - 1], turn)
      OBVIOUS
    <3>4. turn = 0 => turn <= k
      BY <2>1
    <3> HIDE DEF g
    <3> QED BY <3>1, <3>2, <3>3, <3>4
  <2>4. Takes(g, s, order, n, k + 1)
    BY <2>3 DEF Takes
  <2> HIDE DEF g
  <2> QED BY <2>1, <2>4
<1>3. T = Nat
  <2> HIDE DEF Solved
  <2> DEFINE U == T
  <2>1. U \in SUBSET Nat /\ 0 \in U /\ \A k \in U : k + 1 \in U
    BY <1>1, <1>2
  <2> HIDE DEF U
  <2>2. U = Nat
    BY <2>1, AllNaturals
  <2> QED BY <2>2 DEF U
<1> QED BY <1>3

LEMMA SharesAre ==
  ASSUME NEW s, NEW order, NEW n, Len(order) * Len(s) \in Nat
  PROVE  \E f : /\ Takes(f, s, order, n, Len(order) * Len(s))
                /\ Shares(s, order, n) = f[Len(order) * Len(s)]
<1> DEFINE turns == Len(order) * Len(s)
           f == CHOOSE f : Takes(f, s, order, n, turns)
<1>1. Takes(f, s, order, n, turns)
  <2> HIDE DEF turns
  <2>1. turns \in Nat
    BY DEF turns
  <2> QED BY <2>1, TakesExist
<1>2. Shares(s, order, n) = f[turns]
  BY DEF Shares, Takes, Turn
<1> HIDE DEF f
<1> QED BY <1>1, <1>2

\* The place in a lap.
LEMMA PlaceFacts ==
  ASSUME NEW L \in Nat \ {0}, NEW q \in Nat, NEW r \in 0..(L - 1)
  PROVE  ((q * L) + r) % L = r
<1> DEFINE a == (q * L) + r
           m == a % L
           d == a \div L
           P == L * d
           Q == L * q
<1>1. a = Q + r /\ Q \in Nat /\ a \in Nat
  <2>1. Q = q * L /\ Q \in Nat
    OBVIOUS
  <2> HIDE DEF Q
  <2> QED BY <2>1
<1>2. a = P + m /\ m \in 0..(L - 1) /\ d \in Int
  <2> HIDE DEF a
  <2> QED BY <1>1
<1>3. d = q
  <2>1. CASE d > q
    <3>1. PICK k \in Nat : d = q + 1 + k
      <4>1. d - q - 1 \in Nat /\ d = q + 1 + (d - q - 1)
        BY <1>2, <2>1
      <4> QED BY <4>1
    <3>2. P = Q + L + (L * k) /\ L * k \in Nat
      BY <3>1 DEF P, Q
    <3> HIDE DEF P, Q, m, a
    <3> QED BY <1>1, <1>2, <3>2
  <2>2. CASE d < q
    <3>1. PICK k \in Nat : q = d + 1 + k
      <4>1. q - d - 1 \in Nat /\ q = d + 1 + (q - d - 1)
        BY <1>2, <2>2
      <4> QED BY <4>1
    <3>2. Q = P + L + (L * k) /\ L * k \in Nat /\ P \in Int
      BY <1>2, <3>1 DEF P, Q
    <3> HIDE DEF P, Q, m, a
    <3> QED BY <1>1, <1>2, <3>2
  <2> QED BY <1>2, <2>1, <2>2
<1>4. m = r
  <2>1. P = Q
    BY <1>3
  <2> HIDE DEF P, Q, m, a
  <2> QED BY <1>1, <1>2, <2>1
<1> QED BY <1>4

Stock(s, t) == Cardinality(OfTree(s, t))

\* After q laps and r turns each tree gave one in each of its turns, or all.
Even(s, order, taken, turn) ==
  \E q \in Nat, r \in 0..(Len(order) - 1) :
    /\ turn = (q * Len(order)) + r
    /\ \A p \in 1..Len(order) : taken[order[p]] = AtMost(Stock(s, order[p]), IF p <= r THEN q + 1 ELSE q)

Fair(s, taken) ==
  \A t, u \in Trees(s) : taken[u] > taken[t] + 1 => taken[t] = Stock(s, t)

LEMMA StockFacts ==
  ASSUME NEW S, NEW s \in Seq(S), NEW t
  PROVE  IsFiniteSet(OfTree(s, t)) /\ Stock(s, t) \in Nat
<1>1. Len(s) \in Nat /\ DOMAIN s = 1..Len(s)
  OBVIOUS
<1>2. IsFiniteSet(1..Len(s))
  BY <1>1, FS_Interval
<1>3. OfTree(s, t) \in SUBSET (1..Len(s))
  BY <1>1 DEF OfTree
<1> QED BY <1>2, <1>3, FS_Subset, FS_CardinalityType DEF Stock

\* Each tree has one place in a shuffled order.
LEMMA OrderFacts ==
  ASSUME NEW S, NEW s \in Seq(S), NEW order \in Orders(s)
  PROVE  /\ Len(order) \in Nat /\ order \in [1..Len(order) -> Trees(s)]
         /\ \A p, r \in 1..Len(order) : order[p] = order[r] => p = r
         /\ \A t \in Trees(s) : \E p \in 1..Len(order) : order[p] = t
<1> DEFINE T == Trees(s)
           L == Cardinality(T)
<1>1. IsFiniteSet(T)
  <2>1. Len(s) \in Nat /\ DOMAIN s = 1..Len(s)
    OBVIOUS
  <2>2. IsFiniteSet(1..Len(s))
    BY <2>1, FS_Interval
  <2> DEFINE g == [n \in DOMAIN s |-> s[n].tree]
  <2>3. g \in Surjection(DOMAIN s, T)
    <3>1. g \in [DOMAIN s -> T] /\ \A t \in T : \E n \in DOMAIN s : g[n] = t
      BY DEF Trees
    <3> QED BY <3>1 DEF Surjection
  <2> HIDE DEF g, T
  <2> QED BY <2>1, <2>2, <2>3, FS_Surjection
<1>2. L \in Nat
  BY <1>1, FS_CardinalityType
<1>3. order \in [1..L -> T] /\ \A i, j \in 1..L : i # j => order[i] # order[j]
  BY DEF Orders, SetToSeqs
<1> HIDE DEF L, T
<1>4. Len(order) = L
  BY <1>2, <1>3
<1>5. order \in Injection(1..L, T)
  BY <1>3 DEF Injection, IsInjective
<1>6. IsFiniteSet(1..L) /\ Cardinality(1..L) = L
  BY <1>2, FS_Interval
<1>7. order \in Surjection(1..L, T)
  <2>1. Cardinality(1..L) = Cardinality(T)
    BY <1>6 DEF L
  <2> QED BY <1>1, <1>5, <2>1, FS_Injection
<1>8. \A t \in T : \E p \in 1..L : order[p] = t
  BY <1>7 DEF Surjection
<1> QED BY <1>2, <1>3, <1>4, <1>8 DEF T

LEMMA EvenIsFair ==
  ASSUME NEW S, NEW s \in Seq(S), NEW order \in Orders(s), NEW taken \in [Trees(s) -> Nat], NEW turn,
         Even(s, order, taken, turn)
  PROVE  Fair(s, taken)
<1>1. PICK q \in Nat, r \in 0..(Len(order) - 1) :
        \A p \in 1..Len(order) : taken[order[p]] = AtMost(Stock(s, order[p]), IF p <= r THEN q + 1 ELSE q)
  BY DEF Even
<1>2. ASSUME NEW t \in Trees(s)
      PROVE  taken[t] \in Nat /\ taken[t] <= q + 1 /\ (taken[t] < q => taken[t] = Stock(s, t))
  <2>1. PICK p \in 1..Len(order) : order[p] = t
    BY OrderFacts
  <2>2. taken[t] = AtMost(Stock(s, t), IF p <= r THEN q + 1 ELSE q)
    BY <1>1, <2>1
  <2>3. Stock(s, t) \in Nat
    BY StockFacts
  <2> DEFINE c == IF p <= r THEN q + 1 ELSE q
  <2>4. c \in {q, q + 1}
    OBVIOUS
  <2> HIDE DEF c
  <2>5. taken[t] = IF Stock(s, t) <= c THEN Stock(s, t) ELSE c
    BY <2>2 DEF c, AtMost
  <2> QED BY <2>3, <2>4, <2>5
<1>3. ASSUME NEW t \in Trees(s), NEW u \in Trees(s), taken[u] > taken[t] + 1
      PROVE  taken[t] = Stock(s, t)
  BY <1>2, <1>3
<1> QED BY <1>3 DEF Fair

\* One turn keeps the laps even, as long as entries are wanted.
LEMMA TurnIsEven ==
  ASSUME NEW S, NEW s \in Seq(S), NEW order \in Orders(s), NEW n, NEW before \in [Trees(s) -> Nat],
         NEW turn \in Nat \ {0}, Len(order) # 0, Even(s, order, before, turn - 1), SumFunction(before) < n
  PROVE  LET after == Turn(s, order, n, before, turn)
         IN  after \in [Trees(s) -> Nat] /\ Even(s, order, after, turn)
<1> DEFINE L == Len(order)
           after == Turn(s, order, n, before, turn)
<1>1. L \in Nat \ {0} /\ order \in [1..L -> Trees(s)] /\ \A i, j \in 1..L : order[i] = order[j] => i = j
  BY OrderFacts
<1>2. PICK q \in Nat, r \in 0..(L - 1) :
        /\ turn - 1 = (q * L) + r
        /\ \A p \in 1..L : before[order[p]] = AtMost(Stock(s, order[p]), IF p <= r THEN q + 1 ELSE q)
  BY DEF Even
<1> DEFINE t == order[r + 1]
<1>3. r + 1 \in 1..L /\ t \in Trees(s)
  BY <1>1
<1>4. q * L \in Nat /\ turn = (q * L) + r + 1
  <2> DEFINE P == q * L
  <2>1. P \in Nat
    <3> HIDE DEF L
    <3> QED BY <1>1
  <2>2. turn - 1 = P + r
    BY <1>2
  <2> HIDE DEF P, L
  <2>3. turn = P + r + 1
    BY <1>1, <2>1, <2>2
  <2> QED BY <2>1, <2>3 DEF P
<1>5. TreeOf(order, turn) = t
  <2>1. ((turn - 1) % L) + 1 = r + 1
    <3> HIDE DEF L
    <3>1. ((q * L) + r) % L = r
      BY <1>1, PlaceFacts
    <3>2. turn - 1 = (q * L) + r
      BY <1>2
    <3> QED BY <3>1, <3>2
  <2> QED BY <2>1 DEF TreeOf
<1>6. after = IF before[t] < Stock(s, t) THEN [before EXCEPT ![t] = @ + 1] ELSE before
  BY <1>5 DEF Turn, HasMore, Stock
<1>7. after \in [Trees(s) -> Nat]
  BY <1>3, <1>6
<1>8. ASSUME NEW p \in 1..L
      PROVE  after[order[p]] = AtMost(Stock(s, order[p]), IF p <= r + 1 THEN q + 1 ELSE q)
  <2>1. before[order[p]] = AtMost(Stock(s, order[p]), IF p <= r THEN q + 1 ELSE q)
    BY <1>2
  <2>2. CASE p = r + 1
    <3>1. before[t] = AtMost(Stock(s, t), q)
      <4>1. ~(p <= r)
        BY <2>2
      <4> QED BY <2>1, <2>2, <4>1
    <3>2. Stock(s, t) \in Nat
      BY StockFacts
    <3>3. after[t] = IF before[t] < Stock(s, t) THEN before[t] + 1 ELSE before[t]
      BY <1>3, <1>6
    <3> HIDE DEF t, after
    <3>4. after[t] = AtMost(Stock(s, t), q + 1)
      BY <3>1, <3>2, <3>3 DEF AtMost
    <3>5. p <= r + 1
      BY <2>2
    <3> QED BY <2>2, <3>4, <3>5 DEF t
  <2>3. CASE p # r + 1
    <3>1. order[p] # t /\ order[p] \in Trees(s)
      BY <1>1, <1>3, <2>3
    <3>2. after[order[p]] = before[order[p]]
      BY <1>6, <3>1
    <3>3. p <= r + 1 <=> p <= r
      BY <2>3
    <3> QED BY <2>1, <3>2, <3>3
  <2> QED BY <2>2, <2>3
<1> HIDE DEF after, t
<1>9. CASE r + 1 < L
  <2>1. r + 1 \in 0..(L - 1) /\ turn = (q * L) + (r + 1)
    BY <1>1, <1>4, <1>9
  <2> QED BY <1>7, <1>8, <2>1 DEF Even, after
<1>10. CASE ~(r + 1 < L)
  <2>1. r + 1 = L /\ 0 \in 0..(L - 1)
    <3> HIDE DEF L
    <3> QED BY <1>1, <1>10
  <2>2. turn = ((q + 1) * L) + 0 /\ q + 1 \in Nat
    <3> DEFINE P == q * L
               R == (q + 1) * L
    <3> HIDE DEF L
    <3>1. R = P + L
      BY <1>1
    <3>2. P \in Nat /\ turn = P + r + 1
      BY <1>4
    <3> HIDE DEF P, R
    <3>3. turn = R + 0
      BY <1>1, <2>1, <3>1, <3>2
    <3> QED BY <3>3 DEF R
  <2>3. ASSUME NEW p \in 1..L
        PROVE  after[order[p]] = AtMost(Stock(s, order[p]), IF p <= 0 THEN (q + 1) + 1 ELSE q + 1)
    <3>1. p <= r + 1 /\ ~(p <= 0)
      BY <1>1, <2>1
    <3> QED BY <1>8, <3>1
  <2> QED BY <1>7, <2>1, <2>2, <2>3 DEF Even, after
<1> QED BY <1>9, <1>10

\* However far the loop comes, it is fair.
LEMMA SharesAreFair ==
  ASSUME NEW S, NEW s \in Seq(S), NEW order \in Orders(s), NEW n
  PROVE  Shares(s, order, n) \in [Trees(s) -> Nat] /\ Fair(s, Shares(s, order, n))
<1> DEFINE L == Len(order)
           turns == L * Len(s)
<1>1. L \in Nat /\ Len(s) \in Nat /\ order \in [1..L -> Trees(s)]
  BY OrderFacts
<1>2. turns \in Nat
  BY <1>1
<1>3. PICK f : Takes(f, s, order, n, turns) /\ Shares(s, order, n) = f[turns]
  BY <1>2, SharesAre
<1>4. CASE L = 0
  <2>1. Trees(s) = {}
    BY <1>4, OrderFacts
  <2>2. turns = 0
    BY <1>1, <1>4
  <2>3. f[0] = [t \in Trees(s) |-> 0]
    BY <1>3, <2>2 DEF Takes
  <2> QED BY <1>3, <2>1, <2>2, <2>3 DEF Fair
<1>5. CASE L # 0
  <2> HIDE DEF turns
  <2> DEFINE Good(k) == k <= turns => /\ f[k] \in [Trees(s) -> Nat] /\ Fair(s, f[k])
                                      /\ SumFunction(f[k]) < n => Even(s, order, f[k], k)
             T == {k \in Nat : Good(k)}
  <2>1. 0 \in T
    <3>1. f[0] = [t \in Trees(s) |-> 0]
      BY <1>2, <1>3 DEF Takes
    <3>2. f[0] \in [Trees(s) -> Nat]
      BY <3>1
    <3>3. Even(s, order, f[0], 0)
      <4>1. 0 = (0 * L) + 0 /\ 0 \in 0..(L - 1)
        BY <1>1, <1>5
      <4>2. ASSUME NEW p \in 1..L
            PROVE  f[0][order[p]] = AtMost(Stock(s, order[p]), IF p <= 0 THEN 0 + 1 ELSE 0)
        <5>1. order[p] \in Trees(s) /\ ~(p <= 0)
          BY <1>1
        <5>2. Stock(s, order[p]) \in Nat
          BY StockFacts
        <5>3. AtMost(Stock(s, order[p]), 0) = 0
          BY <5>2 DEF AtMost
        <5> QED BY <3>1, <5>1, <5>3
      <4> QED BY <4>1, <4>2 DEF Even
    <3>4. Fair(s, f[0])
      BY <3>2, <3>3, EvenIsFair
    <3> QED BY <3>2, <3>3, <3>4
  <2>2. ASSUME NEW k \in T PROVE k + 1 \in T
    <3>1. k \in Nat /\ k + 1 \in Nat \ {0} /\ (k + 1) - 1 = k
      OBVIOUS
    <3>2. SUFFICES ASSUME k + 1 <= turns
                   PROVE  /\ f[k + 1] \in [Trees(s) -> Nat] /\ Fair(s, f[k + 1])
                          /\ SumFunction(f[k + 1]) < n => Even(s, order, f[k + 1], k + 1)
      BY <3>1
    <3>3. k <= turns
      BY <1>2, <3>1, <3>2
    <3>4. f[k + 1] = Turn(s, order, n, f[k], k + 1)
      <4>1. k + 1 \in 0..turns /\ k + 1 # 0
        BY <1>2, <3>1, <3>2
      <4> QED BY <1>3, <3>1, <4>1 DEF Takes
    <3>5. /\ f[k] \in [Trees(s) -> Nat] /\ Fair(s, f[k])
          /\ SumFunction(f[k]) < n => Even(s, order, f[k], k)
      BY <3>3
    <3>6. CASE SumFunction(f[k]) < n
      <4>1. Even(s, order, f[k], (k + 1) - 1)
        BY <3>1, <3>5, <3>6
      <4>2. f[k + 1] \in [Trees(s) -> Nat] /\ Even(s, order, f[k + 1], k + 1)
        <5> DEFINE before == f[k]
                   turn == k + 1
        <5>1. before \in [Trees(s) -> Nat] /\ turn \in Nat \ {0} /\ Len(order) # 0
              /\ Even(s, order, before, turn - 1) /\ SumFunction(before) < n
          BY <1>5, <3>1, <3>5, <3>6, <4>1
        <5> HIDE DEF before, turn, T
        <5>2. Turn(s, order, n, before, turn) \in [Trees(s) -> Nat]
              /\ Even(s, order, Turn(s, order, n, before, turn), turn)
          BY <5>1, TurnIsEven
        <5> QED BY <3>4, <5>2 DEF before, turn
      <4>3. Fair(s, f[k + 1])
        BY <4>2, EvenIsFair
      <4> QED BY <4>2, <4>3
    <3>7. CASE ~(SumFunction(f[k]) < n)
      <4>1. f[k + 1] = f[k]
        BY <3>4, <3>7 DEF Turn
      <4> QED BY <3>5, <3>7, <4>1
    <3> QED BY <3>6, <3>7
  <2>3. T = Nat
    <3> HIDE DEF Good
    <3> DEFINE U == T
    <3>1. U \in SUBSET Nat /\ 0 \in U /\ \A k \in U : k + 1 \in U
      BY <2>1, <2>2
    <3> HIDE DEF U
    <3>2. U = Nat
      BY <3>1, AllNaturals
    <3> QED BY <3>2 DEF U
  <2>4. Good(turns)
    <3> HIDE DEF Good
    <3> QED BY <1>2, <2>3
  <2>5. turns <= turns
    BY <1>2
  <2> QED BY <1>3, <2>4, <2>5
<1> QED BY <1>4, <1>5

\* How many of each tree a draw has.
LEMMA DrawnOfTree ==
  ASSUME NEW S, NEW s \in Seq(S), NEW I \in SUBSET DOMAIN s, NEW t
  PROVE  Cardinality(OfTree(At(s, I), t)) = Cardinality(I \cap OfTree(s, t))
<1> DEFINE d == At(s, I)
           A == OfTree(d, t)
           B == I \cap OfTree(s, t)
           g == [n \in A |-> Nth(I, n)]
<1>1. /\ d \in Seq(S)
      /\ \A n \in DOMAIN d : Nth(I, n) \in I /\ d[n] = s[Nth(I, n)]
      /\ \A i \in I : \E n \in DOMAIN d : Nth(I, n) = i
      /\ \A m, n \in DOMAIN d : m < n => Nth(I, m) < Nth(I, n)
  BY AtFacts
<1>2. I \subseteq Int /\ DOMAIN d \subseteq Int
  BY <1>1
<1>3. A = {n \in DOMAIN d : d[n].tree = t} /\ B = {i \in I : s[i].tree = t}
  BY DEF OfTree
<1> HIDE DEF A, B, d
<1>4. ASSUME NEW n \in A PROVE n \in DOMAIN d /\ Nth(I, n) \in B
  BY <1>1, <1>3
<1>5. ASSUME NEW m \in A, NEW n \in A, Nth(I, m) = Nth(I, n) PROVE m = n
  <2>1. m \in DOMAIN d /\ n \in DOMAIN d /\ Nth(I, m) \in I /\ Nth(I, n) \in I
    BY <1>1, <1>4
  <2>2. m \in Int /\ n \in Int /\ Nth(I, m) \in Int /\ Nth(I, n) \in Int
    BY <1>2, <2>1
  <2>3. ~(m < n) /\ ~(n < m)
    <3>1. m < n => Nth(I, m) < Nth(I, n)
      BY <1>1, <2>1
    <3>2. n < m => Nth(I, n) < Nth(I, m)
      BY <1>1, <2>1
    <3> QED BY <1>5, <2>2, <3>1, <3>2
  <2> QED BY <2>2, <2>3
<1>6. ASSUME NEW i \in B PROVE \E n \in A : Nth(I, n) = i
  <2>1. PICK n \in DOMAIN d : Nth(I, n) = i
    BY <1>1, <1>3
  <2>2. n \in A
    BY <1>1, <1>3, <2>1
  <2> QED BY <2>1, <2>2
<1>7. g \in Bijection(A, B)
  <2>1. g \in [A -> B] /\ \A m, n \in A : g[m] = g[n] => m = n
    BY <1>4, <1>5
  <2>2. \A i \in B : \E n \in A : g[n] = i
    BY <1>6
  <2> HIDE DEF g
  <2> QED BY <2>1, <2>2 DEF Bijection, Injection, Surjection, IsInjective
<1>8. IsFiniteSet(A)
  <2>1. A = OfTree(d, t)
    BY DEF A
  <2> QED BY <1>1, <2>1, StockFacts
<1> HIDE DEF g
<1>9. ExistsBijection(A, B)
  BY <1>7 DEF ExistsBijection
<1>10. Cardinality(B) = Cardinality(A)
  BY <1>8, <1>9, FS_Bijection
<1> QED BY <1>10 DEF A, B, d

LEMMA StratifiedDrawsAreFair ==
  ASSUME NEW S, NEW s \in Seq(S), NEW n, NEW I \in StratifiedDraws(s, n), NEW t, NEW u,
         Cardinality(OfTree(At(s, I), u)) > Cardinality(OfTree(At(s, I), t)) + 1
  PROVE  Cardinality(OfTree(At(s, I), t)) = Cardinality(OfTree(s, t))
<1> DEFINE d == At(s, I)
           of(v) == Cardinality(OfTree(d, v))
<1>1. I \in SUBSET DOMAIN s
  BY DEF StratifiedDraws, UniformDraws, kSubset
<1>2. PICK order \in Orders(s) :
        \A v \in Trees(s) : Cardinality(I \cap OfTree(s, v)) = Shares(s, order, AtMost(n, Len(s)))[v]
  BY DEF StratifiedDraws
<1> DEFINE f == Shares(s, order, AtMost(n, Len(s)))
<1>3. \A v \in Trees(s) : of(v) = f[v]
  <2> HIDE DEF f
  <2> QED BY <1>1, <1>2, DrawnOfTree DEF f
<1>4. f \in [Trees(s) -> Nat] /\ Fair(s, f)
  <2> DEFINE k == AtMost(n, Len(s))
  <2> HIDE DEF k
  <2>1. Shares(s, order, k) \in [Trees(s) -> Nat] /\ Fair(s, Shares(s, order, k))
    BY SharesAreFair
  <2> QED BY <2>1 DEF k
<1> HIDE DEF f
<1>5. \A v : v \notin Trees(s) => of(v) = 0 /\ Cardinality(OfTree(s, v)) = 0
  <2>1. SUFFICES ASSUME NEW v, v \notin Trees(s) PROVE of(v) = 0 /\ Cardinality(OfTree(s, v)) = 0
    OBVIOUS
  <2>2. OfTree(s, v) = {}
    BY <2>1 DEF OfTree, Trees
  <2>3. I \cap OfTree(s, v) = {}
    BY <2>2
  <2>4. of(v) = Cardinality(I \cap OfTree(s, v))
    BY <1>1, DrawnOfTree
  <2> QED BY <2>2, <2>3, <2>4, FS_EmptySet
<1>6. CASE t \notin Trees(s)
  BY <1>5, <1>6
<1>7. CASE t \in Trees(s)
  <2>1. u \in Trees(s)
    <3>1. SUFFICES ASSUME u \notin Trees(s) PROVE FALSE
      OBVIOUS
    <3>2. of(u) = 0 /\ of(t) \in Nat
      BY <1>3, <1>4, <1>5, <1>7, <3>1
    <3>3. of(u) > of(t) + 1
      OBVIOUS
    <3> HIDE DEF of
    <3> QED BY <3>2, <3>3
  <2>2. f[u] > f[t] + 1
    BY <1>3, <1>7, <2>1
  <2>3. f[t] = Stock(s, t)
    BY <1>4, <1>7, <2>1, <2>2 DEF Fair
  <2> QED BY <1>3, <1>7, <2>3 DEF Stock
<1> QED BY <1>6, <1>7

\* A stratified draw takes from each tree as much as from any other, up to
\* one, or all it has: from the annotated pool and from the branch points,
\* for any number of trees and entries (TeacherAnnotatedPool.sample,
\* BranchPointBuffer.sample).
THEOREM TreesShareFairly == Spec => StratifiedIsFair
<1>1. IInv /\ DrawBatch /\ setting.strategy = "stratified" =>
        \A t, u \in Trees(drawn') \cup Trees(annotated) \cup Trees(buffer.entries) :
          TakenOf(u) > TakenOf(t) + 1 => TakenOf(t) = Had(t)
  <2>1. SUFFICES ASSUME IInv, DrawBatch, setting.strategy = "stratified", NEW t, NEW u,
                        TakenOf(u) > TakenOf(t) + 1
                 PROVE  TakenOf(t) = Had(t)
    OBVIOUS
  <2>2. CASE DrawAnnotated
    <3>1. PICK I \in BatchDraws(annotated, quota, setting.strategy) : drawn' = At(annotated, I)
      BY <2>2 DEF DrawAnnotated
    <3>2. I \in StratifiedDraws(annotated, quota)
      BY <2>1, <3>1 DEF BatchDraws
    <3>3. annotated \in Seq(Failures(Past, runs))
      BY <2>1 DEF IInv, PoolsOK, AnnotatedOK
    <3>4. TakenOf(t) = Cardinality(OfTree(At(annotated, I), t))
          /\ TakenOf(u) = Cardinality(OfTree(At(annotated, I), u))
      BY <3>1 DEF TakenOf
    <3>5. Had(t) = Cardinality(OfTree(annotated, t))
      BY <2>2 DEF Had, DrawAnnotated
    <3> QED BY <2>1, <3>2, <3>3, <3>4, <3>5, StratifiedDrawsAreFair
  <2>3. CASE DrawBranchPoints
    <3> DEFINE s == buffer.entries
    <3>1. PICK I \in BatchDraws(s, quota, setting.strategy) : drawn' = At(s, I)
      BY <2>3 DEF DrawBranchPoints
    <3>2. I \in StratifiedDraws(s, quota)
      BY <2>1, <3>1 DEF BatchDraws
    <3>3. s \in Seq(Roomy(Past, runs))
      BY <2>1 DEF IInv, PoolsOK, BufferOK, ListOK, IsListed
    <3>4. TakenOf(t) = Cardinality(OfTree(At(s, I), t)) /\ TakenOf(u) = Cardinality(OfTree(At(s, I), u))
      BY <3>1 DEF TakenOf
    <3>5. Had(t) = Cardinality(OfTree(s, t))
      BY <2>3 DEF Had, DrawBranchPoints, Mode
    <3> HIDE DEF s
    <3> QED BY <2>1, <3>2, <3>3, <3>4, <3>5, StratifiedDrawsAreFair
  <2>4. CASE DrawSynthetic
    <3>1. drawn' = << >>
      BY <2>1, <2>4 DEF DrawSynthetic, IInv, BatchOK
    <3>2. \A v : TakenOf(v) = 0
      <4>1. \A v : OfTree(drawn', v) = {}
        BY <3>1 DEF OfTree
      <4> QED BY <4>1, FS_EmptySet DEF TakenOf
    <3> QED BY <2>1, <3>2
  <2> QED BY <2>1, <2>2, <2>3, <2>4 DEF DrawBatch
<1> QED BY <1>1, Invariance, PTL DEF StratifiedIsFair

-----------------------------------------------------------------------------
(* Draws of synthetic prompts.                                             *)

LEMMA VarianceFacts ==
  ASSUME NEW a \in Nat, NEW b \in Nat \ {0}
  PROVE  Variance(a, b) \in Int
<1> DEFINE x == 40000 * a * (b - a)
           y == b * b
<1>1. x \in Int
  <2>1. 40000 * a \in Int /\ b - a \in Int
    OBVIOUS
  <2> QED BY <2>1
<1>2. y \in Nat \ {0}
  <2>1. PICK c \in Nat : b = c + 1
    <3>1. b - 1 \in Nat /\ b = (b - 1) + 1
      OBVIOUS
    <3> QED BY <3>1
  <2>2. y = (b * c) + b /\ b * c \in Nat
    BY <2>1
  <2> HIDE DEF y
  <2> QED BY <2>2
<1>3. x \div y \in Int
  <2> HIDE DEF x, y
  <2> QED BY <1>1, <1>2
<1> QED BY <1>3 DEF Variance

LEMMA WeightFacts ==
  ASSUME MasteredWeighsLeast, NEW e \in SyntheticEntry
  PROVE  IF e.total > 0 /\ e.succ = e.total
         THEN EntryWeight(e, FloorHard, FloorMastered) = FloorMastered
         ELSE /\ EntryWeight(e, FloorHard, FloorMastered) \in Int
              /\ EntryWeight(e, FloorHard, FloorMastered) > FloorMastered
<1> DEFINE w == EntryWeight(e, FloorHard, FloorMastered)
<1>1. /\ FloorHard \in Nat /\ FloorMastered \in Nat /\ RolloutN \in Nat \ {0, 1}
      /\ Priors \subseteq Nat \X (Nat \ {0})
  BY FlatAssumption
<1>2. /\ e.prior \in Priors /\ e.succ \in Nat /\ e.total \in Nat /\ e.succ <= e.total
      /\ e.total \in {0, RolloutN}
  BY DEF SyntheticEntry
<1>3. CASE e.total = 0
  <2> DEFINE v == Variance(e.prior[1], e.prior[2])
  <2>1. FloorMastered < v
    BY <1>2 DEF MasteredWeighsLeast
  <2>2. v \in Int
    <3>1. e.prior[1] \in Nat /\ e.prior[2] \in Nat \ {0}
      BY <1>1, <1>2
    <3> QED BY <3>1, VarianceFacts
  <2>3. w = IF v = 0 THEN 1 ELSE v
    BY <1>3 DEF EntryWeight
  <2> HIDE DEF v, w
  <2>4. w \in Int /\ w > FloorMastered
    BY <1>1, <2>1, <2>2, <2>3
  <2> QED BY <1>3, <2>4 DEF w
<1>4. CASE e.total # 0 /\ e.succ = 0
  <2>1. w = FloorHard
    BY <1>4 DEF EntryWeight
  <2>2. FloorHard \in Int /\ FloorHard > FloorMastered
    BY <1>1 DEF MasteredWeighsLeast
  <2> HIDE DEF w
  <2> QED BY <1>4, <2>1, <2>2 DEF w
<1>5. CASE e.total # 0 /\ e.succ # 0 /\ e.succ = e.total
  <2>1. w = FloorMastered
    BY <1>5 DEF EntryWeight
  <2>2. e.total > 0
    BY <1>2, <1>5
  <2> QED BY <1>5, <2>1, <2>2
<1>6. CASE e.total # 0 /\ e.succ # 0 /\ e.succ # e.total
  <2>1. e.total = RolloutN /\ e.succ \in 1..(RolloutN - 1)
    BY <1>1, <1>2, <1>6
  <2>2. w = Variance(e.succ, RolloutN)
    BY <1>6, <2>1 DEF EntryWeight
  <2>3. FloorMastered < w
    BY <2>1, <2>2 DEF MasteredWeighsLeast
  <2>4. w \in Int
    BY <1>1, <1>2, <2>2, VarianceFacts
  <2> HIDE DEF w
  <2>5. w \in Int /\ w > FloorMastered
    BY <1>1, <2>3, <2>4
  <2> QED BY <1>6, <2>5 DEF w
<1> QED BY <1>3, <1>4, <1>5, <1>6

\* Of each prompt at most cap, and none left out weighs more.
LEMMA SyntheticDrawIsCapped ==
  ASSUME NEW S, NEW s \in Seq(S), NEW weight, NEW cap \in Nat, NEW k, NEW I \in SyntheticDraws(s, weight, cap, k),
         NEW n \in I
  PROVE  \E C \in SUBSET OfPrompt(s, s[n].prompt) :
           /\ n \in C /\ I \cap OfPrompt(s, s[n].prompt) \subseteq C
           /\ IsFiniteSet(C) /\ Cardinality(C) <= cap
           /\ \A j \in OfPrompt(s, s[n].prompt) \ C : weight[n] >= weight[j]
<1> DEFINE P == OfPrompt(s, s[n].prompt)
<1>1. PICK D \in Candidates(s, weight, cap) : I \in SUBSET D
  BY DEF SyntheticDraws, kSubset
<1>2. D \in SUBSET DOMAIN s /\ n \in D /\ n \in DOMAIN s
  BY <1>1 DEF Candidates
<1> DEFINE C == D \cap P
<1>3. C \in Picked(s, weight, cap, s[n].prompt)
  BY <1>1, <1>2 DEF Candidates
<1>4. /\ C \in SUBSET P /\ Cardinality(C) = AtMost(cap, Cardinality(P))
      /\ \A i \in C, j \in P \ C : weight[i] >= weight[j]
  <2> HIDE DEF C
  <2> QED BY <1>3 DEF Picked, kSubset
<1>5. n \in P
  BY <1>2 DEF OfPrompt
<1>6. IsFiniteSet(P) /\ Cardinality(P) \in Nat
  <2>1. Len(s) \in Nat /\ DOMAIN s = 1..Len(s)
    OBVIOUS
  <2>2. IsFiniteSet(1..Len(s)) /\ P \in SUBSET (1..Len(s))
    BY <2>1, FS_Interval DEF OfPrompt
  <2> HIDE DEF P
  <2> QED BY <2>2, FS_Subset, FS_CardinalityType
<1>7. IsFiniteSet(C)
  <2> HIDE DEF C, P
  <2> QED BY <1>4, <1>6, FS_Subset
<1>8. Cardinality(C) <= cap
  <2> HIDE DEF C, P
  <2> QED BY <1>4, <1>6 DEF AtMost
<1>9. n \in C /\ I \cap P \subseteq C
  BY <1>1, <1>2, <1>5
<1> QED BY <1>4, <1>7, <1>8, <1>9

\* No tree starves in a draw behind one with more entries, and no prompt that
\* still fails behind one that is mastered, if nothing weighs as little as
\* that (TeacherAnnotatedPool.sample, SyntheticPromptPool.sample).
THEOREM DrawsStayFair == MasteredWeighsLeast => (Spec => DrawsAreFair)
<1>1. ASSUME MasteredWeighsLeast, IInv, DrawSynthetic, NEW n \in injected'
      PROVE  LET same == OfPrompt(synthetic, synthetic[n].prompt)
             IN /\ Cardinality(injected' \cap same) <= MaxPerPrompt
                /\ Mastered(n) => Cardinality({m \in same : ~Mastered(m)}) < MaxPerPrompt
  <2> DEFINE same == OfPrompt(synthetic, synthetic[n].prompt)
             open == {m \in same : ~Mastered(m)}
  <2>1. synthetic \in Seq(SyntheticEntry) /\ MaxPerPrompt \in Nat /\ FloorMastered \in Nat
    BY <1>1, FlatAssumption DEF IInv, PoolsOK
  <2>2. injected' \in SyntheticDraws(synthetic, Weights, MaxPerPrompt, quota)
    BY <1>1 DEF DrawSynthetic
  <2>3. PICK C \in SUBSET same :
          /\ n \in C /\ injected' \cap same \subseteq C
          /\ IsFiniteSet(C) /\ Cardinality(C) <= MaxPerPrompt
          /\ \A j \in same \ C : Weights[n] >= Weights[j]
    BY <2>1, <2>2, SyntheticDrawIsCapped
  <2>4. same \subseteq DOMAIN synthetic /\ n \in same
    BY <2>3 DEF OfPrompt
  <2>5. ASSUME NEW m \in same
        PROVE  IF Mastered(m) THEN Weights[m] = FloorMastered
               ELSE Weights[m] \in Int /\ Weights[m] > FloorMastered
    <3>1. m \in DOMAIN synthetic /\ synthetic[m] \in SyntheticEntry
      BY <2>1, <2>4, ElementOfSeq
    <3>2. Weights[m] = EntryWeight(synthetic[m], FloorHard, FloorMastered)
      BY <3>1 DEF Weights
    <3> DEFINE e == synthetic[m]
    <3>3. Mastered(m) <=> e.total > 0 /\ e.succ = e.total
      BY DEF Mastered
    <3> HIDE DEF e
    <3>4. e \in SyntheticEntry
      BY <3>1 DEF e
    <3> QED BY <1>1, <3>2, <3>3, <3>4, WeightFacts DEF e
  <2>6. Cardinality(injected' \cap same) <= MaxPerPrompt
    <3>1. Cardinality(injected' \cap same) <= Cardinality(C) /\ IsFiniteSet(injected' \cap same)
      BY <2>3, FS_Subset
    <3>2. Cardinality(injected' \cap same) \in Nat /\ Cardinality(C) \in Nat
      BY <2>3, <3>1, FS_CardinalityType
    <3> QED BY <2>1, <2>3, <3>1, <3>2
  <2>7. ASSUME Mastered(n) PROVE Cardinality(open) < MaxPerPrompt
    <3>1. ASSUME NEW m \in open PROVE m \in C
      <4>1. SUFFICES ASSUME m \in same \ C PROVE FALSE
        OBVIOUS
      <4>2. /\ Weights[n] = FloorMastered /\ Weights[n] >= Weights[m]
            /\ Weights[m] \in Int /\ Weights[m] > FloorMastered
        BY <2>3, <2>4, <2>5, <2>7, <4>1
      <4> QED BY <2>1, <4>2
    <3>2. open \in SUBSET C /\ n \notin open /\ open # C
      BY <2>3, <2>7, <3>1
    <3> HIDE DEF open
    <3>3. Cardinality(open) <= Cardinality(C) /\ IsFiniteSet(open) /\ Cardinality(open) # Cardinality(C)
      BY <2>3, <3>2, FS_Subset
    <3>4. Cardinality(open) \in Nat /\ Cardinality(C) \in Nat
      BY <2>3, <3>3, FS_CardinalityType
    <3> QED BY <2>1, <2>3, <3>3, <3>4
  <2> QED BY <2>6, <2>7
<1>2. ASSUME MasteredWeighsLeast PROVE Spec => DrawsAreFair
  <2>1. IInv /\ pc = "draw" /\ DrawSynthetic =>
          \A n \in injected' :
            LET same == OfPrompt(synthetic, synthetic[n].prompt)
            IN /\ Cardinality(injected' \cap same) <= MaxPerPrompt
               /\ Mastered(n) => Cardinality({m \in same : ~Mastered(m)}) < MaxPerPrompt
    BY <1>1, <1>2
  <2> QED BY <2>1, Invariance, TreesShareFairly, PTL DEF MasteredStepBack, DrawsAreFair
<1> QED BY <1>2
===============================================================================
