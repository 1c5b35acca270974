------------------------ MODULE EntropyTree_proofs ------------------------
(***************************************************************************)
(* Proofs about EntropyTree: however forks of several leaves and rounds    *)
(* overlap, what is read off the tree is what was generated, no place is   *)
(* forked twice, and what is trained is what was scored; for every number  *)
(* of rounds, places and branches and every length of the answers.         *)
(***************************************************************************)
EXTENDS EntropyTree, SequenceTheorems, FiniteSetTheorems, WellFoundedInduction, TLAPS

-----------------------------------------------------------------------------
(* Counting.                                                               *)

LEMMA LeastNatural ==
  ASSUME NEW T \in SUBSET Nat, T # {}
  PROVE  \E x \in T : \A y \in T : x <= y
<1>1. PICK x \in T : \A y \in T : <<y, x>> \notin OpToRel(<, Nat)
  BY NatLessThanWellFounded, WFMin
<1>2. \A y \in T : ~(y < x)
  BY <1>1 DEF OpToRel
<1> QED BY <1>2

\* Induction, for a set of numbers.
LEMMA AllNaturals ==
  ASSUME NEW T \in SUBSET Nat, 0 \in T, \A n \in T : n + 1 \in T
  PROVE  T = Nat
<1>1. SUFFICES ASSUME NEW n \in Nat \ T PROVE FALSE
  OBVIOUS
<1>2. PICK x \in Nat \ T : \A y \in Nat \ T : x <= y
  BY LeastNatural, Nat \ T \in SUBSET Nat, Nat \ T # {}
<1>3. x # 0 /\ x - 1 \in Nat /\ x - 1 \notin Nat \ T
  BY <1>2
<1>4. (x - 1) + 1 \in T
  BY <1>3
<1> QED BY <1>2, <1>4

\* The rank of a position in a set of positions.
Rank(I, i) == Cardinality({j \in I : j <= i})

LEMMA Ranks ==
  ASSUME NEW N \in Nat, NEW I \in SUBSET (1..N)
  PROVE  /\ IsFiniteSet(I) /\ Cardinality(I) \in Nat
         /\ \A i \in I : Rank(I, i) \in 1..Cardinality(I)
         /\ \A i, j \in I : i < j => Rank(I, i) < Rank(I, j)
<1>1. IsFiniteSet(1..N)
  BY FS_Interval
<1>2. IsFiniteSet(I) /\ Cardinality(I) \in Nat
  BY <1>1, FS_Subset, FS_CardinalityType
<1>3. ASSUME NEW i \in I
      PROVE  Rank(I, i) \in 1..Cardinality(I)
  <2> DEFINE J == {j \in I : j <= i}
  <2>1. J \subseteq I /\ i \in J
    OBVIOUS
  <2>2. IsFiniteSet(J) /\ Cardinality(J) \in Nat /\ Cardinality(J) <= Cardinality(I) /\ Cardinality(J) # 0
    BY <1>2, <2>1, FS_Subset, FS_CardinalityType, FS_EmptySet
  <2> QED BY <1>2, <2>2 DEF Rank
<1>4. ASSUME NEW i \in I, NEW k \in I, i < k
      PROVE  Rank(I, i) < Rank(I, k)
  <2> DEFINE J == {j \in I : j <= i}
             K == {j \in I : j <= k}
  <2>0. i \in Int /\ k \in Int /\ \A j \in I : j \in Int
    OBVIOUS
  <2>1. J \subseteq K /\ k \in K /\ k \notin J /\ K \subseteq I
    <3>1. \A j \in I : j <= i => j <= k
      BY <2>0, <1>4
    <3>2. ~(k <= i)
      BY <2>0, <1>4
    <3>3. k <= k
      BY <2>0
    <3>4. J \subseteq K
      BY <3>1
    <3>5. k \in K /\ k \notin J
      BY <3>2, <3>3
    <3> QED BY <3>4, <3>5
  <2>2. IsFiniteSet(K) /\ IsFiniteSet(J) /\ Cardinality(J) \in Nat /\ Cardinality(K) \in Nat
    BY <1>2, <2>1, FS_Subset, FS_CardinalityType
  <2>3. Cardinality(J) < Cardinality(K)
    BY <2>1, <2>2, FS_Subset
  <2> QED BY <2>3 DEF Rank
<1> QED BY <1>2, <1>3, <1>4

LEMMA HasRank ==
  ASSUME NEW N \in Nat, NEW I \in SUBSET (1..N), NEW n \in 1..Cardinality(I)
  PROVE  \E i \in I : Rank(I, i) = n
<1> DEFINE Ranked(m) == \A J \in SUBSET (1..m) : \A k \in 1..Cardinality(J) : \E i \in J : Rank(J, i) = k
           T == {m \in Nat : Ranked(m)}
<1>1. 0 \in T
  <2>1. ASSUME NEW J \in SUBSET (1..0) PROVE Cardinality(J) = 0
    <3>1. J = {}
      OBVIOUS
    <3> QED BY <3>1, FS_EmptySet
  <2> QED BY <2>1
<1>2. ASSUME NEW m \in T PROVE m + 1 \in T
  <2>1. SUFFICES ASSUME NEW J \in SUBSET (1..(m + 1)), NEW k \in 1..Cardinality(J)
                 PROVE  \E i \in J : Rank(J, i) = k
    OBVIOUS
  <2> DEFINE K == J \ {m + 1}
  <2>2. m \in Nat /\ K \in SUBSET (1..m) /\ IsFiniteSet(J) /\ IsFiniteSet(K)
        /\ Cardinality(J) \in Nat /\ Cardinality(K) \in Nat
    <3>1. m + 1 \in Nat
      OBVIOUS
    <3>2. IsFiniteSet(J) /\ Cardinality(J) \in Nat
      BY <3>1, Ranks
    <3>3. K \in SUBSET (1..m)
      OBVIOUS
    <3> QED BY <3>2, <3>3, Ranks
  <2>3. Ranked(m)
    OBVIOUS
  <2>4. CASE m + 1 \notin J
    <3>1. K = J
      BY <2>4
    <3> QED BY <2>2, <2>3, <3>1
  <2>5. CASE m + 1 \in J
    <3>1. Cardinality(K) = Cardinality(J) - 1
      BY <2>2, <2>5, FS_RemoveElement
    <3>2. CASE k = Cardinality(J)
      <4>0. \A j \in J : j <= m + 1
        OBVIOUS
      <4>1. {j \in J : j <= m + 1} = J
        BY <4>0
      <4>2. Rank(J, m + 1) = k
        BY <3>2, <4>1 DEF Rank
      <4> QED BY <2>5, <4>2
    <3>3. CASE k # Cardinality(J)
      <4>1. k \in 1..Cardinality(K)
        BY <2>2, <3>1, <3>3
      <4>2. PICK i \in K : Rank(K, i) = k
        BY <2>2, <2>3, <4>1
      <4>3. ASSUME NEW j \in J PROVE j <= i => j \in K
        <5>1. m \in Nat /\ i \in 1..m /\ ~(m + 1 <= i)
          BY <2>2
        <5> QED BY <5>1
      <4>4. {j \in J : j <= i} = {j \in K : j <= i}
        BY <4>3
      <4>5. Rank(J, i) = k
        BY <4>2, <4>4 DEF Rank
      <4> QED BY <4>5
    <3> QED BY <3>2, <3>3
  <2> QED BY <2>4, <2>5
<1>3. T = Nat
  <2> HIDE DEF T
  <2> QED BY <1>1, <1>2, AllNaturals, T \in SUBSET Nat DEF T
<1>4. Ranked(N)
  BY <1>3
<1> QED BY <1>4

\* The n-th smallest of a set of positions.
Nth(I, n) == CHOOSE p \in I : Cardinality({q \in I : q <= p}) = n

LEMMA NthFacts ==
  ASSUME NEW N \in Nat, NEW I \in SUBSET (1..N)
  PROVE  /\ \A n \in 1..Cardinality(I) : Nth(I, n) \in I /\ Rank(I, Nth(I, n)) = n
         /\ \A i \in I : Rank(I, i) \in 1..Cardinality(I) /\ Nth(I, Rank(I, i)) = i
         /\ \A m, n \in 1..Cardinality(I) : m < n => Nth(I, m) < Nth(I, n)
<1>1. ASSUME NEW n \in 1..Cardinality(I)
      PROVE  Nth(I, n) \in I /\ Rank(I, Nth(I, n)) = n
  <2>1. \E i \in I : Cardinality({j \in I : j <= i}) = n
    BY HasRank DEF Rank
  <2>2. Nth(I, n) \in I /\ Cardinality({j \in I : j <= Nth(I, n)}) = n
    BY <2>1, Zenon DEF Nth
  <2> QED BY <2>2 DEF Rank
<1>2. \A i, j \in I : Rank(I, i) = Rank(I, j) => i = j
  <2>1. SUFFICES ASSUME NEW i \in I, NEW j \in I, i # j PROVE Rank(I, i) # Rank(I, j)
    OBVIOUS
  <2>2. i \in Int /\ j \in Int /\ (i < j \/ j < i)
    BY <2>1
  <2>3. Rank(I, i) \in Int /\ Rank(I, j) \in Int
    <3>1. \A k \in I : Rank(I, k) \in 1..Cardinality(I)
      BY Ranks
    <3> QED BY <3>1
  <2>4. /\ i < j => Rank(I, i) < Rank(I, j)
        /\ j < i => Rank(I, j) < Rank(I, i)
    BY Ranks
  <2> QED BY <2>2, <2>3, <2>4
<1>3. ASSUME NEW i \in I
      PROVE  Rank(I, i) \in 1..Cardinality(I) /\ Nth(I, Rank(I, i)) = i
  BY <1>1, <1>2, Ranks
<1>4. ASSUME NEW m \in 1..Cardinality(I), NEW n \in 1..Cardinality(I), m < n
      PROVE  Nth(I, m) < Nth(I, n)
  <2>1. Nth(I, m) \in I /\ Rank(I, Nth(I, m)) = m /\ Nth(I, n) \in I /\ Rank(I, Nth(I, n)) = n
    BY <1>1
  <2>2. Nth(I, m) \in Int /\ Nth(I, n) \in Int /\ m \in Int /\ n \in Int
    <3>1. I \subseteq Int /\ 1..Cardinality(I) \subseteq Int
      OBVIOUS
    <3> QED BY <2>1, <3>1
  <2>3. Nth(I, n) < Nth(I, m) => n < m
    <3>1. \A i, j \in I : i < j => Rank(I, i) < Rank(I, j)
      BY Ranks
    <3> QED BY <2>1, <3>1
  <2>4. Nth(I, n) # Nth(I, m)
    <3>1. m # n
      BY <1>4
    <3> QED BY <2>1, <3>1, Zenon
  <2> QED BY <1>4, <2>2, <2>3, <2>4
<1> QED BY <1>1, <1>3, <1>4

LEMMA AscendingFacts ==
  ASSUME NEW N \in Nat, NEW I \in SUBSET (1..N)
  PROVE  /\ Ascending(I) \in Seq(I) /\ Len(Ascending(I)) = Cardinality(I) /\ Cardinality(I) \in Nat
         /\ DOMAIN Ascending(I) = 1..Cardinality(I)
         /\ \A m \in DOMAIN Ascending(I) : Ascending(I)[m] \in I
         /\ \A m, n \in DOMAIN Ascending(I) : m < n => Ascending(I)[m] < Ascending(I)[n]
<1>1. IsFiniteSet(I) /\ Cardinality(I) \in Nat
  BY Ranks
<1>2. Ascending(I) = [n \in 1..Cardinality(I) |-> Nth(I, n)]
  BY DEF Ascending, Nth
<1>3. \A n \in 1..Cardinality(I) : Nth(I, n) \in I
  BY NthFacts
<1>4. Ascending(I) \in [1..Cardinality(I) -> I]
  BY <1>2, <1>3
<1>5. Ascending(I) \in Seq(I)
  BY <1>1, <1>4, IsASeq
<1>6. DOMAIN Ascending(I) = 1..Cardinality(I)
  BY <1>2
<1>7. Len(Ascending(I)) = Cardinality(I)
  BY <1>1, <1>5, <1>6
<1>8. \A m, n \in 1..Cardinality(I) : m < n => Ascending(I)[m] < Ascending(I)[n]
  <2>1. \A n \in 1..Cardinality(I) : Ascending(I)[n] = Nth(I, n)
    BY <1>2
  <2>2. \A m, n \in 1..Cardinality(I) : m < n => Nth(I, m) < Nth(I, n)
    BY NthFacts
  <2> QED BY <2>1, <2>2
<1> QED BY <1>1, <1>2, <1>3, <1>5, <1>6, <1>7, <1>8
RangeOf(s) == {s[n] : n \in DOMAIN s}

LEMMA RangeFacts ==
  ASSUME NEW S, NEW s \in Seq(S)
  PROVE  /\ Range(s) = RangeOf(s) /\ Range(s) \subseteq S
         /\ s \in Seq(Range(s))
<1>1. Range(s) = RangeOf(s)
  BY DEF Range, RangeOf
<1>2. Len(s) \in Nat /\ DOMAIN s = 1..Len(s) /\ \A n \in DOMAIN s : s[n] \in S /\ s[n] \in RangeOf(s)
  BY ElementOfSeq DEF RangeOf
<1>3. s \in [1..Len(s) -> RangeOf(s)]
  BY <1>2
<1>4. s \in Seq(RangeOf(s))
  BY <1>2, <1>3, IsASeq
<1>5. RangeOf(s) \subseteq S
  BY <1>2 DEF RangeOf
<1> QED BY <1>1, <1>4, <1>5

LEMMA ConcatFacts ==
  ASSUME NEW S, NEW s \in Seq(S), NEW t \in Seq(S)
  PROVE  /\ s \o t \in Seq(S) /\ Len(s \o t) = Len(s) + Len(t)
         /\ \A n \in 1..(Len(s) + Len(t)) : (s \o t)[n] = IF n <= Len(s) THEN s[n] ELSE t[n - Len(s)]
         /\ RangeOf(s \o t) = RangeOf(s) \cup RangeOf(t)
<1>1. /\ s \o t \in Seq(S) /\ Len(s \o t) = Len(s) + Len(t)
      /\ \A n \in 1..(Len(s) + Len(t)) : (s \o t)[n] = IF n <= Len(s) THEN s[n] ELSE t[n - Len(s)]
  BY ConcatProperties
<1>2. /\ Len(s) \in Nat /\ Len(t) \in Nat /\ DOMAIN s = 1..Len(s) /\ DOMAIN t = 1..Len(t)
      /\ DOMAIN (s \o t) = 1..(Len(s) + Len(t))
  BY <1>1
<1>3. ASSUME NEW n \in DOMAIN (s \o t) PROVE (s \o t)[n] \in RangeOf(s) \cup RangeOf(t)
  <2>1. CASE n <= Len(s)
    BY <1>1, <1>2, <2>1 DEF RangeOf
  <2>2. CASE ~(n <= Len(s))
    <3>1. n - Len(s) \in DOMAIN t /\ (s \o t)[n] = t[n - Len(s)]
      BY <1>1, <1>2, <2>2
    <3> QED BY <3>1 DEF RangeOf
  <2> QED BY <2>1, <2>2
<1>4. ASSUME NEW n \in DOMAIN s PROVE s[n] \in RangeOf(s \o t)
  <2>1. n \in DOMAIN (s \o t) /\ (s \o t)[n] = s[n]
    BY <1>1, <1>2
  <2> QED BY <2>1 DEF RangeOf
<1>5. ASSUME NEW n \in DOMAIN t PROVE t[n] \in RangeOf(s \o t)
  <2>1. n + Len(s) \in DOMAIN (s \o t) /\ (s \o t)[n + Len(s)] = t[n]
    BY <1>1, <1>2
  <2> QED BY <2>1 DEF RangeOf
<1>6. RangeOf(s \o t) = RangeOf(s) \cup RangeOf(t)
  BY <1>3, <1>4, <1>5 DEF RangeOf
<1> QED BY <1>1, <1>6


\* The recursive function in FlattenSeq.
Flattens(f, ss) ==
  f = [i \in 1..Len(ss) |-> IF i = 1 THEN ss[i] ELSE f[i - 1] \o ss[i]]

LEMMA FlattenExists ==
  ASSUME NEW S, NEW ss \in Seq(Seq(S))
  PROVE  \E f : Flattens(f, ss)
<1> DEFINE Solves(f, n) == f = [i \in 1..n |-> IF i = 1 THEN ss[i] ELSE f[i - 1] \o ss[i]]
           T == {n \in Nat : \E f : Solves(f, n)}
<1>1. 0 \in T
  <2>1. Solves([i \in 1..0 |-> 0], 0)
    OBVIOUS
  <2> QED BY <2>1
<1>2. ASSUME NEW n \in T PROVE n + 1 \in T
  <2>1. PICK f : Solves(f, n)
    OBVIOUS
  <2> DEFINE g == [i \in 1..(n + 1) |-> IF i <= n THEN f[i] ELSE IF i = 1 THEN ss[i] ELSE f[i - 1] \o ss[i]]
  <2>2. n \in Nat /\ DOMAIN f = 1..n
    BY <2>1
  <2>3. ASSUME NEW i \in 1..(n + 1)
        PROVE  g[i] = IF i = 1 THEN ss[i] ELSE g[i - 1] \o ss[i]
    <3>1. i # 1 => i - 1 \in 1..n /\ g[i - 1] = f[i - 1]
      BY <2>2
    <3>2. i \in 1..n => f[i] = IF i = 1 THEN ss[i] ELSE f[i - 1] \o ss[i]
      BY <2>1
    <3>3. i <= n => i \in 1..n
      BY <2>2
    <3> QED BY <3>1, <3>2, <3>3
  <2>4. Solves(g, n + 1)
    BY <2>3
  <2>5. n + 1 \in Nat
    BY <2>2
  <2> HIDE DEF Solves
  <2> QED BY <2>4, <2>5
<1>3. Len(ss) \in T
  <2>1. T = Nat
    <3> HIDE DEF Solves
    <3> DEFINE U == T
    <3>1. U \in SUBSET Nat /\ 0 \in U /\ \A n \in U : n + 1 \in U
      BY <1>1, <1>2
    <3> HIDE DEF U
    <3>2. U = Nat
      BY <3>1, AllNaturals
    <3> QED BY <3>2 DEF U
  <2>2. Len(ss) \in Nat
    OBVIOUS
  <2> QED BY <2>1, <2>2
<1> QED BY <1>3 DEF Flattens

LEMMA FlattenIs ==
  ASSUME NEW S, NEW ss \in Seq(Seq(S))
  PROVE  IF Len(ss) = 0 THEN FlattenSeq(ss) = ss
         ELSE \E f : Flattens(f, ss) /\ FlattenSeq(ss) = f[Len(ss)]
<1> DEFINE flat == CHOOSE f : f = [i \in 1..Len(ss) |-> IF i = 1 THEN ss[i] ELSE f[i - 1] \o ss[i]]
<1>1. Flattens(flat, ss)
  BY FlattenExists DEF Flattens
<1>2. Len(ss) # 0 => FlattenSeq(ss) = flat[Len(ss)]
  BY DEF FlattenSeq
<1>3. Len(ss) = 0 => FlattenSeq(ss) = ss
  BY DEF FlattenSeq
<1> HIDE DEF flat
<1> QED BY <1>1, <1>2, <1>3
-----------------------------------------------------------------------------
(* The invariant.                                                          *)

\* The objects that are linked into the tree; the others were replaced.
Tree == {Root} \cup {n \in DOMAIN nodes : nodes[n].parent # None /\ n \in nodes[nodes[n].parent].children}
Leaves == {n \in Tree : IsLeaf(n)}

ShapeOK ==
  /\ nodes[Root].parent = None
  /\ \A n \in DOMAIN nodes :
       /\ nodes[n].leaf <=> nodes[n].children = {}
       /\ nodes[n].parent # None =>
            nodes[n].parent \in Tree /\ nodes[n].parent < n /\ nodes[n].parent \notin Leaves
       /\ \A c \in nodes[n].children : c \in DOMAIN nodes /\ n < c
  /\ \A n \in Tree :
       /\ \A c \in nodes[n].children : nodes[c].parent = n
       /\ ~IsLeaf(n) \/ n = Root => nodes[n].segment # << >>

TokensOK ==
  /\ \A n \in Tree : /\ IsInjective(nodes[n].segment)
                     /\ \A k \in DOMAIN nodes[n].segment : nodes[n].segment[k][1] \in DOMAIN responses
  /\ \A m, n \in Tree : m # n => Range(nodes[m].segment) \cap Range(nodes[n].segment) = {}

\* The whole text of a response, after the prompt.
Full(r) == r.context \o r.tokens

IsAbove(above) ==
  \A n \in DOMAIN nodes :
    above[n] = IF nodes[n].parent = None THEN << >>
               ELSE above[nodes[n].parent] \o nodes[nodes[n].parent].segment

Owns(above, own) ==
  \A n \in Leaves : /\ above[n] \o nodes[n].segment = Full(responses[own[n]])
                    /\ nodes[n].finish = responses[own[n]].finish

\* The last token.
EndOf(s) == s[Len(s)]

ResponsesOK ==
  /\ responses # << >> /\ responses[1].context = << >>
  /\ \A r \in DOMAIN responses :
       /\ setting.prompt + Len(Full(responses[r])) <= MaxModelLen
       /\ responses[r].tokens = [j \in 1..Len(responses[r].tokens) |-> <<r, j>>]
       /\ r # 1 => /\ responses[r].context # << >>
                   /\ \E m \in Tree : ~IsLeaf(m) /\ EndOf(responses[r].context) = EndOf(nodes[m].segment)

ChosenOK ==
  /\ DOMAIN chosen \subseteq Leaves /\ DOMAIN launched \subseteq DOMAIN chosen
  /\ \A n \in DOMAIN chosen :
       /\ chosen[n] \in Seq(Nat) /\ chosen[n] # << >>
       /\ \A i \in DOMAIN chosen[n] : chosen[n][i] >= 1 /\ chosen[n][i] + MinSuffix <= Len(nodes[n].segment)
       /\ \A i, j \in DOMAIN chosen[n] : i < j => chosen[n][i] < chosen[n][j]

IsLaunched(above) ==
  \A n \in DOMAIN launched :
    launched[n] = [i \in DOMAIN chosen[n] |-> above[n] \o SubSeq(nodes[n].segment, 1, chosen[n][i])]

Pending == UNION {{n} \X DOMAIN chosen[n] : n \in DOMAIN chosen}
CountOK ==
  /\ IsFiniteSet(Pending)
  /\ Len(responses) + (setting.t * Cardinality(Pending)) <= 1 + ((setting.n * setting.t) * round)

\* The tokens before each object and the response that each leaf ends.
Links(above, own) ==
  /\ above \in [DOMAIN nodes -> Seq(Token)] /\ IsAbove(above) /\ IsLaunched(above)
  /\ own \in [Leaves -> DOMAIN responses] /\ Owns(above, own)
  /\ \A m, n \in Leaves : own[m] = own[n] => m = n
  /\ \A r \in DOMAIN responses : \E n \in Leaves : own[n] = r

GrowthOK ==
  /\ ShapeOK /\ TokensOK /\ ResponsesOK /\ ChosenOK /\ CountOK /\ BranchedOnce
  /\ \E above, own : Links(above, own)

\* What Score and Package have read off the tree.
IsScored ==
  /\ scored = [n \in LeavesUnder(Root) |-> TextTo[n]]
  /\ values = [n \in UNION {Range(p) : p \in PathsFrom[Root]} |-> LeavesUnder(n)]
IsPackaged == samples = {Sample(p) : p \in {q \in PathsFrom[Root] : TextOf(q) # << >>}}
ReadOK ==
  /\ pc \in {"package", "done"} /\ HasTree => IsScored
  /\ pc = "done" => IF HasTree THEN IsPackaged ELSE scored = << >> /\ samples = {}

IInv == TypeOK /\ (HasTree => GrowthOK) /\ (~HasTree => responses = << >>) /\ ReadOK

LEMMA SettingFacts ==
  ASSUME setting \in Settings
  PROVE  /\ setting.prompt \in Nat /\ setting.n \in Nat \ {0} /\ setting.l \in Nat \ {0} /\ setting.t \in Nat \ {0}
         /\ MaxModelLen \in Nat /\ MinSuffix \in Nat /\ Margin \in Nat /\ MinPrefix \in Nat \ {0}
BY TreeAssumption

LEMMA NodeFacts ==
  ASSUME TypeOK, HasTree
  PROVE  /\ Len(nodes) \in Nat \ {0} /\ DOMAIN nodes = 1..Len(nodes) /\ Root \in DOMAIN nodes
         /\ \A n \in DOMAIN nodes : /\ nodes[n] \in NodeType
                                    /\ nodes[n].segment \in Seq(Token) /\ nodes[n].parent \in Nat
                                    /\ nodes[n].children \subseteq Nat /\ nodes[n].leaf \in BOOLEAN
<1>1. Len(nodes) \in Nat /\ DOMAIN nodes = 1..Len(nodes)
  BY DEF TypeOK
<1>2. Len(nodes) # 0
  BY EmptySeq DEF TypeOK, HasTree
<1>3. \A n \in DOMAIN nodes : nodes[n] \in NodeType
  BY <1>1, ElementOfSeq DEF TypeOK
<1> QED BY <1>1, <1>2, <1>3 DEF NodeType, Root

LEMMA ResponseFacts ==
  ASSUME TypeOK
  PROVE  /\ Len(responses) \in Nat /\ DOMAIN responses = 1..Len(responses)
         /\ \A r \in DOMAIN responses : /\ responses[r] \in ResponseType
                                        /\ responses[r].context \in Seq(Token)
                                        /\ responses[r].tokens \in Seq(Token)
<1>1. Len(responses) \in Nat /\ DOMAIN responses = 1..Len(responses)
  BY DEF TypeOK
<1>3. \A n \in DOMAIN responses : responses[n] \in ResponseType
  BY <1>1, ElementOfSeq DEF TypeOK
<1> QED BY <1>1, <1>3 DEF ResponseType

\* The tree's own nodes are among the objects.
LEMMA TreeFacts ==
  ASSUME TypeOK, HasTree, ShapeOK
  PROVE  /\ Root \in Tree /\ Tree \subseteq DOMAIN nodes /\ Leaves \subseteq Tree
         /\ \A n \in Tree : n # Root => /\ nodes[n].parent \in Tree /\ nodes[n].parent < n
                                        /\ nodes[n].parent # None /\ n \in nodes[nodes[n].parent].children
         /\ \A n \in Tree : \A c \in nodes[n].children : c \in Tree /\ c # Root /\ nodes[c].parent = n /\ n < c
         /\ \A n \in Tree : IsLeaf(n) <=> nodes[n].children = {}
<1>1. Root \in Tree /\ Tree \subseteq DOMAIN nodes /\ Leaves \subseteq Tree
  BY NodeFacts DEF Tree, Leaves
<1>2. ASSUME NEW n \in Tree, n # Root
      PROVE  /\ nodes[n].parent \in Tree /\ nodes[n].parent < n
             /\ nodes[n].parent # None /\ n \in nodes[nodes[n].parent].children
  <2>1. n \in DOMAIN nodes /\ nodes[n].parent # None /\ n \in nodes[nodes[n].parent].children
    BY <1>2 DEF Tree
  <2> QED BY <2>1 DEF ShapeOK
<1>3. ASSUME NEW n \in Tree, NEW c \in nodes[n].children
      PROVE  c \in Tree /\ c # Root /\ nodes[c].parent = n /\ n < c
  <2>1. n \in DOMAIN nodes /\ c \in DOMAIN nodes /\ n < c /\ nodes[c].parent = n
    BY <1>1, <1>3 DEF ShapeOK
  <2>2. n # None
    BY <2>1, NodeFacts DEF None
  <2>3. c # Root
    BY <2>1, <2>2 DEF ShapeOK
  <2> QED BY <2>1, <2>2, <2>3 DEF Tree
<1>4. \A n \in Tree : IsLeaf(n) <=> nodes[n].children = {}
  BY <1>1 DEF ShapeOK, IsLeaf
<1> QED BY <1>1, <1>2, <1>3, <1>4

\* A tree whose root is a leaf has no other node, and no other object has a
\* parent.
LEMMA RootAlone ==
  ASSUME TypeOK, HasTree, ShapeOK, Root \in Leaves
  PROVE  Tree = {Root} /\ \A n \in DOMAIN nodes : nodes[n].parent = None
<1> DEFINE others == Tree \ {Root}
<1>1. others = {}
  <2>1. SUFFICES ASSUME others # {} PROVE FALSE
    OBVIOUS
  <2>2. others \in SUBSET Nat
    BY TreeFacts, NodeFacts
  <2>3. PICK n \in others : \A m \in others : n <= m
    <3> HIDE DEF others
    <3> QED BY <2>1, <2>2, LeastNatural
  <2>4. nodes[n].parent \in Tree /\ nodes[n].parent < n /\ n \in nodes[nodes[n].parent].children
    BY TreeFacts
  <2>5. nodes[n].parent \notin others
    BY <2>2, <2>3, <2>4
  <2>6. nodes[Root].children # {}
    BY <2>4, <2>5
  <2> QED BY <2>6 DEF Leaves, IsLeaf
<1>2. \A n \in DOMAIN nodes : nodes[n].parent = None
  BY <1>1 DEF ShapeOK, Leaves
<1> QED BY <1>1, <1>2, TreeFacts-----------------------------------------------------------------------------
(* A leaf in pieces.                                                       *)

Places(n) == Len(chosen[n])
Cuts(n) == <<0>> \o chosen[n] \o <<Len(nodes[n].segment)>>

\* The object that is the i-th piece, where the b-th branch comes, and which
\* of the branches come after the i-th piece.
PieceAt(n, i) == IF i = 1 /\ n = Root THEN Root ELSE Len(nodes) + i
BranchAt(n, b) == Len(nodes) + (Places(n) + 1) + b
BranchesAt(n, new, i) == {BranchAt(n, b) : b \in {c \in DOMAIN new : ForkOf(n, c) = i}}

PieceText(n, i) == SubSeq(nodes[n].segment, Cuts(n)[i] + 1, Cuts(n)[i + 1])

LEMMA CutsFacts ==
  ASSUME TypeOK, HasTree, ShapeOK, ChosenOK, NEW n \in DOMAIN chosen
  PROVE  /\ Places(n) \in Nat \ {0} /\ Len(Cuts(n)) = Places(n) + 2 /\ Len(nodes[n].segment) \in Nat
         /\ Cuts(n)[1] = 0 /\ Cuts(n)[Places(n) + 2] = Len(nodes[n].segment)
         /\ DOMAIN chosen[n] = 1..Places(n)
         /\ \A i \in 1..Places(n) : Cuts(n)[i + 1] = chosen[n][i]
         /\ \A i \in 1..(Places(n) + 2) : Cuts(n)[i] \in 0..Len(nodes[n].segment)
         /\ \A i, j \in 1..(Places(n) + 1) : i < j => Cuts(n)[i] < Cuts(n)[j]
         /\ \A i \in 1..(Places(n) + 1) : Cuts(n)[i] <= Cuts(n)[Places(n) + 2]
<1> DEFINE K == Places(n)
           L == Len(nodes[n].segment)
<1>1. n \in DOMAIN nodes /\ nodes[n].segment \in Seq(Token) /\ L \in Nat
  BY NodeFacts DEF TypeOK
<1>2. chosen[n] \in Seq(Nat) /\ chosen[n] # << >>
  BY DEF ChosenOK
<1>3. K \in Nat \ {0} /\ DOMAIN chosen[n] = 1..K /\ K = Len(chosen[n])
  BY <1>2, EmptySeq DEF Places
<1>4. MinSuffix \in Nat
  BY TreeAssumption
<1>5. \A i \in 1..K : chosen[n][i] \in Nat /\ chosen[n][i] >= 1 /\ chosen[n][i] + MinSuffix <= L
  BY <1>2, <1>3, ElementOfSeq DEF ChosenOK
<1>6. \A i, j \in 1..K : i < j => chosen[n][i] < chosen[n][j]
  BY <1>3 DEF ChosenOK
<1>7. Cuts(n) = <<0>> \o chosen[n] \o <<L>>
  BY DEF Cuts
<1> HIDE DEF K, L
<1>8. /\ Len(<<0>> \o chosen[n]) = K + 1 /\ <<0>> \o chosen[n] \in Seq(Nat)
      /\ \A i \in 1..(K + 1) : (<<0>> \o chosen[n])[i] = IF i = 1 THEN 0 ELSE chosen[n][i - 1]
  BY <1>2, <1>3
<1>9. /\ Len(Cuts(n)) = K + 2
      /\ \A i \in 1..(K + 2) : Cuts(n)[i] = IF i = 1 THEN 0 ELSE IF i = K + 2 THEN L ELSE chosen[n][i - 1]
  <2> DEFINE s == <<0>> \o chosen[n]
  <2>1. s \in Seq(Nat) /\ Len(s) = K + 1
    BY <1>8
  <2>2. \A i \in 1..(K + 1) : s[i] = IF i = 1 THEN 0 ELSE chosen[n][i - 1]
    BY <1>8
  <2>3. Cuts(n) = s \o <<L>>
    BY <1>7
  <2>4. <<L>> \in Seq(Nat) /\ Len(<<L>>) = 1 /\ <<L>>[1] = L
    BY <1>1 DEF L
  <2> HIDE DEF s
  <2>5. /\ Len(Cuts(n)) = K + 2
        /\ \A i \in 1..(K + 2) : Cuts(n)[i] = IF i <= K + 1 THEN s[i] ELSE <<L>>[i - (K + 1)]
    BY <1>3, <2>1, <2>3, <2>4, ConcatProperties
  <2>6. ASSUME NEW i \in 1..(K + 2)
        PROVE  Cuts(n)[i] = IF i = 1 THEN 0 ELSE IF i = K + 2 THEN L ELSE chosen[n][i - 1]
    <3>1. i <= K + 1 => i \in 1..(K + 1) /\ i # K + 2
      BY <1>3
    <3>2. ~(i <= K + 1) => i = K + 2 /\ i - (K + 1) = 1 /\ i # 1
      BY <1>3
    <3> QED BY <2>2, <2>4, <2>5, <3>1, <3>2
  <2> QED BY <2>5, <2>6
<1>10. \A i \in 1..K : Cuts(n)[i + 1] = chosen[n][i]
  BY <1>3, <1>9
<1>11. Cuts(n)[1] = 0 /\ Cuts(n)[K + 2] = L
  BY <1>3, <1>9
<1>12. ASSUME NEW i \in 2..(K + 1)
       PROVE  Cuts(n)[i] = chosen[n][i - 1] /\ i - 1 \in 1..K
  BY <1>3, <1>9
<1>13. L \in Nat
  BY <1>1 DEF L
<1>14. ASSUME NEW i \in 1..(K + 2)
       PROVE  Cuts(n)[i] \in 0..L
  <2>1. i = 1 \/ i = K + 2 \/ i \in 2..(K + 1)
    BY <1>3
  <2>2. ASSUME i \in 2..(K + 1) PROVE Cuts(n)[i] \in 0..L
    <3>1. Cuts(n)[i] \in Nat /\ Cuts(n)[i] + MinSuffix <= L
      BY <1>5, <1>12, <2>2 DEF L
    <3> QED BY <1>4, <1>13, <3>1
  <2> QED BY <1>11, <1>13, <2>1, <2>2
<1>15. ASSUME NEW i \in 1..(K + 1), NEW j \in 1..(K + 1), i < j
       PROVE  Cuts(n)[i] < Cuts(n)[j]
  <2>1. j \in 2..(K + 1) /\ (i = 1 \/ i \in 2..(K + 1))
    BY <1>3, <1>15
  <2>2. CASE i = 1
    BY <1>5, <1>11, <1>12, <2>1, <2>2
  <2>3. CASE i \in 2..(K + 1)
    <3>1. i - 1 < j - 1
      BY <1>15, <2>1, <2>3
    <3> QED BY <1>6, <1>12, <2>1, <2>3, <3>1
  <2> QED BY <2>1, <2>2, <2>3
<1>16. \A i \in 1..(K + 1) : Cuts(n)[i] <= Cuts(n)[K + 2]
  <2>1. \A i \in 1..(K + 1) : i \in 1..(K + 2)
    BY <1>3
  <2> QED BY <1>11, <1>13, <1>14, <2>1
<1> QED BY <1>3, <1>9, <1>10, <1>11, <1>13, <1>14, <1>15, <1>16 DEF K, L

\* Each branch belongs to a place with room, and t to each of them.
LEMMA Division ==
  ASSUME NEW t \in Nat \ {0}, NEW k \in Nat, NEW b \in 1..(k * t)
  PROVE  /\ ((b - 1) \div t) + 1 \in 1..k /\ (b - 1) \div t \in Nat
         /\ b \in ((((b - 1) \div t) * t) + 1)..((((b - 1) \div t) * t) + t)
<1> DEFINE q == (b - 1) \div t
<1>1. b \in Nat /\ b >= 1 /\ b - 1 \in Nat /\ k * t \in Nat
  OBVIOUS
<1>2. q \in Nat /\ q * t \in Nat /\ q * t <= b - 1 /\ b - 1 < (q * t) + t
  BY <1>1
<1> HIDE DEF q
<1>3. q < k
  <2>1. SUFFICES ASSUME k <= q PROVE FALSE
    BY <1>2
  <2>2. PICK d \in Nat : q = k + d
    <3>1. q - k \in Nat /\ q = k + (q - k)
      BY <1>2, <2>1
    <3> QED BY <3>1
  <2>3. q * t = (k * t) + (d * t)
    BY <2>2
  <2>4. d * t \in Nat
    OBVIOUS
  <2> QED BY <1>1, <1>2, <2>3, <2>4
<1>4. q + 1 \in 1..k
  BY <1>2, <1>3
<1>5. b \in ((q * t) + 1)..((q * t) + t)
  BY <1>1, <1>2
<1> QED BY <1>2, <1>4, <1>5 DEF q

LEMMA ForkFacts ==
  ASSUME TypeOK, HasTree, ShapeOK, ChosenOK, NEW n \in DOMAIN launched, NEW f \in Answers(n)
  PROVE  /\ Len(f) \in Nat /\ DOMAIN f = 1..Len(f) /\ Len(f) <= Places(n) * setting.t
         /\ \A b \in DOMAIN f : /\ ForkOf(n, b) \in 1..Places(n)
                                /\ ~IsSkipped(launched[n][ForkOf(n, b)])
                                /\ f[b] \in ResponseLengths(setting.prompt + Len(launched[n][ForkOf(n, b)]))
                                /\ f[b] \in Nat
         /\ \A i : /\ IsFiniteSet({b \in DOMAIN f : ForkOf(n, b) = i})
                   /\ Cardinality({b \in DOMAIN f : ForkOf(n, b) = i}) <= setting.t
<1> DEFINE K == Places(n)
           t == setting.t
           room == {i \in DOMAIN launched[n] : ~IsSkipped(launched[n][i])}
           k == Cardinality(room)
<1>1. n \in DOMAIN chosen /\ K \in Nat \ {0} /\ DOMAIN launched[n] = 1..K /\ t \in Nat \ {0}
  BY CutsFacts, SettingFacts DEF TypeOK
<1>2. room \in SUBSET (1..K) /\ Forked(n) = Ascending(room)
  BY <1>1 DEF Forked
<1>3. /\ k \in Nat /\ DOMAIN Forked(n) = 1..k /\ Len(Forked(n)) = k
      /\ \A m \in 1..k : Forked(n)[m] \in room
      /\ \A l, m \in 1..k : l < m => Forked(n)[l] < Forked(n)[m]
  <2> HIDE DEF room, K
  <2> QED BY <1>1, <1>2, AscendingFacts
<1>4. k <= K
  <2>1. IsFiniteSet(1..K) /\ Cardinality(1..K) = K
    BY <1>1, FS_Interval
  <2> HIDE DEF room, K
  <2> QED BY <1>1, <1>2, <2>1, FS_Subset
<1>5. f \in [1..(k * t) -> 0..MaxModelLen]
  BY <1>3 DEF Answers
<1> HIDE DEF room, k
<1>6. k * t \in Nat /\ k * t <= K * t
  <2>1. PICK d \in Nat : K = k + d
    <3>1. K - k \in Nat /\ K = k + (K - k)
      BY <1>1, <1>3, <1>4
    <3> QED BY <3>1
  <2> HIDE DEF K, t
  <2>2. K * t = (k * t) + (d * t) /\ d * t \in Nat /\ k * t \in Nat
    BY <1>1, <1>3, <2>1
  <2> QED BY <2>2
<1>7. Len(f) = k * t /\ DOMAIN f = 1..(k * t)
  BY <1>5, <1>6
<1>8. ASSUME NEW b \in 1..(k * t)
      PROVE  /\ ForkOf(n, b) = Forked(n)[((b - 1) \div t) + 1]
             /\ ((b - 1) \div t) + 1 \in 1..k /\ (b - 1) \div t \in Nat
             /\ b \in ((((b - 1) \div t) * t) + 1)..((((b - 1) \div t) * t) + t)
  <2>1. ForkOf(n, b) = Forked(n)[((b - 1) \div t) + 1]
    BY DEF ForkOf
  <2>2. /\ ((b - 1) \div t) + 1 \in 1..k /\ (b - 1) \div t \in Nat
        /\ b \in ((((b - 1) \div t) * t) + 1)..((((b - 1) \div t) * t) + t)
    <3> HIDE DEF t
    <3> QED BY <1>1, <1>3, Division
  <2> QED BY <2>1, <2>2
<1>9. ASSUME NEW b \in DOMAIN f
      PROVE  /\ ForkOf(n, b) \in 1..K
             /\ ~IsSkipped(launched[n][ForkOf(n, b)])
             /\ f[b] \in ResponseLengths(setting.prompt + Len(launched[n][ForkOf(n, b)]))
             /\ f[b] \in Nat
  <2>1. ForkOf(n, b) \in room
    BY <1>3, <1>7, <1>8
  <2>2. f[b] \in Nat
    BY <1>5, <1>7
  <2>3. f[b] \in ResponseLengths(setting.prompt + Len(launched[n][ForkOf(n, b)]))
    BY DEF Answers
  <2> QED BY <1>2, <2>1, <2>2, <2>3 DEF room
<1>10. ASSUME NEW i
       PROVE  /\ IsFiniteSet({b \in DOMAIN f : ForkOf(n, b) = i})
              /\ Cardinality({b \in DOMAIN f : ForkOf(n, b) = i}) <= t
  <2> DEFINE B == {b \in DOMAIN f : ForkOf(n, b) = i}
  <2>1. CASE B = {}
    <3>1. IsFiniteSet(B) /\ Cardinality(B) = 0
      <4> HIDE DEF B
      <4> QED BY <2>1, FS_EmptySet
    <3>2. 0 <= t
      BY <1>1
    <3> QED BY <3>1, <3>2
  <2>2. CASE B # {}
    <3>1. PICK a \in B : TRUE
      BY <2>2
    <3> DEFINE m == (a - 1) \div t
               J == ((m * t) + 1)..((m * t) + t)
    <3>2. a \in 1..(k * t) /\ m + 1 \in 1..k /\ ForkOf(n, a) = i /\ Forked(n)[m + 1] = i
      BY <1>7, <1>8
    <3>3. ASSUME NEW b \in B PROVE b \in J
      <4>1. b \in 1..(k * t) /\ ForkOf(n, b) = i
        BY <1>7
      <4>2. ((b - 1) \div t) + 1 \in 1..k /\ Forked(n)[((b - 1) \div t) + 1] = i
        BY <1>8, <4>1
      <4>3. \A l, o \in 1..k : Forked(n)[l] = Forked(n)[o] => l = o
        <5>1. SUFFICES ASSUME NEW l \in 1..k, NEW o \in 1..k, l < o
                       PROVE  Forked(n)[l] # Forked(n)[o]
          BY <1>3
        <5>2. 1..K \subseteq Int
          OBVIOUS
        <5>3. Forked(n)[l] \in 1..K /\ Forked(n)[o] \in 1..K
          <6> HIDE DEF K
          <6> QED BY <1>2, <1>3
        <5>4. Forked(n)[l] \in Int /\ Forked(n)[o] \in Int
          BY <5>2, <5>3
        <5>5. Forked(n)[l] < Forked(n)[o]
          BY <1>3, <5>1
        <5> QED BY <5>4, <5>5
      <4>4. ((b - 1) \div t) + 1 = m + 1
        <5> HIDE DEF m
        <5> QED BY <3>2, <4>2, <4>3
      <4>5. (b - 1) \div t = m
        <5>1. m \in Nat /\ (b - 1) \div t \in Nat
          BY <1>8, <3>2, <4>1
        <5> HIDE DEF m
        <5> QED BY <4>4, <5>1
      <4>6. b \in ((((b - 1) \div t) * t) + 1)..((((b - 1) \div t) * t) + t)
        BY <1>8, <4>1
      <4> HIDE DEF m
      <4> QED BY <4>5, <4>6
    <3>4. m \in Nat /\ m * t \in Nat
      <4>1. m \in Nat
        BY <1>8, <3>2
      <4> HIDE DEF m, t
      <4> QED BY <1>1, <4>1
    <3>5. IsFiniteSet(J) /\ Cardinality(J) = t
      <4> DEFINE a1 == (m * t) + 1
                 a2 == (m * t) + t
      <4>1. a1 \in Int /\ a2 \in Int /\ a2 - a1 + 1 = t /\ ~(a1 > a2) /\ J = a1..a2
        <5> HIDE DEF m, t
        <5> QED BY <1>1, <3>4
      <4> HIDE DEF a1, a2, J
      <4>2. IsFiniteSet(a1..a2) /\ Cardinality(a1..a2) = IF a1 > a2 THEN 0 ELSE a2 - a1 + 1
        BY <4>1, FS_Interval
      <4> QED BY <4>1, <4>2
    <3>6. B \in SUBSET J
      BY <3>3
    <3> HIDE DEF B, J
    <3> QED BY <3>5, <3>6, FS_Subset DEF B
  <2> QED BY <2>1, <2>2
<1> QED BY <1>6, <1>7, <1>9, <1>10
-----------------------------------------------------------------------------
(* What Grow makes of a leaf.                                              *)

LEMMA NewFacts ==
  ASSUME TypeOK, HasTree, ShapeOK, ChosenOK, NEW n \in DOMAIN launched, NEW f \in Answers(n)
  PROVE  /\ NewResponses(n, f) \in Seq(ResponseType)
         /\ Len(NewResponses(n, f)) = Len(f) /\ DOMAIN NewResponses(n, f) = 1..Len(f)
         /\ \A b \in 1..Len(f) :
              /\ NewResponses(n, f)[b].context = launched[n][ForkOf(n, b)]
              /\ NewResponses(n, f)[b].context \in Seq(Token)
              /\ NewResponses(n, f)[b].tokens = [j \in 1..f[b] |-> <<Len(responses) + b, j>>]
              /\ NewResponses(n, f)[b].tokens \in Seq(Token) /\ Len(NewResponses(n, f)[b].tokens) = f[b]
              /\ NewResponses(n, f)[b].finish \in FinishReasons
<1> DEFINE new == NewResponses(n, f)
<1>1. /\ Len(f) \in Nat /\ DOMAIN f = 1..Len(f)
      /\ \A b \in DOMAIN f : ForkOf(n, b) \in 1..Places(n) /\ f[b] \in Nat
  BY ForkFacts
<1>2. DOMAIN launched[n] = 1..Places(n) /\ \A i \in DOMAIN launched[n] : launched[n][i] \in Seq(Token)
  BY CutsFacts DEF TypeOK
<1>3. new = [b \in 1..Len(f) |-> Response(Len(responses) + b, f[b], launched[n][ForkOf(n, b)])]
  BY <1>1 DEF NewResponses
<1>4. ASSUME NEW b \in 1..Len(f)
      PROVE  /\ new[b].context = launched[n][ForkOf(n, b)]
             /\ new[b].context \in Seq(Token)
             /\ new[b].tokens = [j \in 1..f[b] |-> <<Len(responses) + b, j>>]
             /\ new[b].tokens \in Seq(Token) /\ Len(new[b].tokens) = f[b]
             /\ new[b].finish \in FinishReasons
             /\ new[b] \in ResponseType
  <2> DEFINE r == Response(Len(responses) + b, f[b], launched[n][ForkOf(n, b)])
             tokens == [j \in 1..f[b] |-> <<Len(responses) + b, j>>]
  <2>1. new[b] = r
    BY <1>3
  <2>2. r.context = launched[n][ForkOf(n, b)] /\ r.tokens = tokens /\ r.finish \in FinishReasons
        /\ r = [context |-> r.context, tokens |-> r.tokens, finish |-> r.finish]
    BY DEF Response, FinishReasons, FinishReason
  <2>3. launched[n][ForkOf(n, b)] \in Seq(Token)
    BY <1>1, <1>2
  <2>4. f[b] \in Nat /\ Len(responses) + b \in Nat
    BY <1>1, ResponseFacts
  <2>5. tokens \in [1..f[b] -> Token]
    BY <2>4 DEF Token
  <2>6. tokens \in Seq(Token) /\ Len(tokens) = f[b]
    <3> HIDE DEF tokens
    <3>1. tokens \in Seq(Token)
      BY <2>4, <2>5, IsASeq
    <3> QED BY <2>4, <2>5, <3>1
  <2> HIDE DEF r, tokens, new
  <2>7. r \in ResponseType
    BY <2>2, <2>3, <2>6 DEF ResponseType
  <2> QED BY <2>1, <2>2, <2>3, <2>6, <2>7 DEF tokens
<1>5. DOMAIN new = 1..Len(f)
  BY <1>3
<1>6. new \in [1..Len(f) -> ResponseType]
  BY <1>3, <1>4
<1>7. new \in Seq(ResponseType) /\ Len(new) = Len(f)
  <2> HIDE DEF new
  <2>1. new \in Seq(ResponseType)
    BY <1>1, <1>6, IsASeq
  <2> QED BY <1>1, <1>5, <2>1
<1> QED BY <1>4, <1>5, <1>7

\* The objects after Grow: pieces and branches, and the parent's children.
Piece(n, new, i) ==
  Node(PieceText(n, i), IF i = 1 THEN nodes[n].parent ELSE PieceAt(n, i - 1),
       IF i = Places(n) + 1 THEN {} ELSE {PieceAt(n, i + 1)} \cup BranchesAt(n, new, i),
       IF i = Places(n) + 1 THEN nodes[n].finish ELSE "none")

Branch(n, new, b) == Node(new[b].tokens, PieceAt(n, ForkOf(n, b)), {}, new[b].finish)

Kept(n, m) ==
  IF n # Root /\ m = nodes[n].parent
  THEN [nodes[m] EXCEPT !.children = Swapped(@, n, PieceAt(n, 1))] ELSE nodes[m]

Regrown(n, new, m) ==
  IF m \in DOMAIN nodes THEN IF n = Root /\ m = Root THEN Piece(n, new, 1) ELSE Kept(n, m)
  ELSE IF m <= Len(nodes) + (Places(n) + 1) THEN Piece(n, new, m - Len(nodes))
  ELSE Branch(n, new, m - (Len(nodes) + (Places(n) + 1)))

Objects(n, new) == 1..(Len(nodes) + (Places(n) + 1) + Len(new))

LEMMA NodeParent ==
  ASSUME NEW s, NEW p, NEW q, NEW c, NEW x
  PROVE  /\ [Node(s, p, c, x) EXCEPT !.parent = q] = Node(s, q, c, x)
         /\ Node(s, p, c, x).children = c /\ Node(s, p, c, x).parent = p
         /\ Node(s, p, c, x).segment = s /\ Node(s, p, c, x).finish = x
         /\ (Node(s, p, c, x).leaf <=> c = {})
<1>1. Node(s, p, c, x) = [segment |-> s, parent |-> p, children |-> c, leaf |-> c = {}, finish |-> x]
  BY DEF Node
<1>2. Node(s, q, c, x) = [segment |-> s, parent |-> q, children |-> c, leaf |-> c = {}, finish |-> x]
  BY DEF Node
<1> DEFINE leaf == c = {}
<1> HIDE DEF leaf
<1>3. [[segment |-> s, parent |-> p, children |-> c, leaf |-> leaf, finish |-> x] EXCEPT !.parent = q]
        = [segment |-> s, parent |-> q, children |-> c, leaf |-> leaf, finish |-> x]
  OBVIOUS
<1>4. [Node(s, p, c, x) EXCEPT !.parent = q] = Node(s, q, c, x)
  BY <1>1, <1>2, <1>3, Zenon DEF leaf
<1>5. Node(s, p, c, x) = [segment |-> s, parent |-> p, children |-> c, leaf |-> leaf, finish |-> x]
  BY <1>1, Zenon DEF leaf
<1>6. /\ Node(s, p, c, x).children = c /\ Node(s, p, c, x).parent = p
      /\ Node(s, p, c, x).segment = s /\ Node(s, p, c, x).finish = x
      /\ Node(s, p, c, x).leaf = leaf
  BY <1>5
<1> QED BY <1>4, <1>6, Zenon DEF leaf

\* The pieces before they are linked into the tree.
Loose(n, new, i) ==
  Node(PieceText(n, i), IF i = 1 THEN None ELSE Len(nodes) + i - 1,
       IF i = Places(n) + 1 THEN nodes[n].children ELSE {Len(nodes) + i + 1} \cup BranchesAt(n, new, i),
       IF i = Places(n) + 1 THEN nodes[n].finish ELSE "none")
LooseBranch(n, new, b) == Node(new[b].tokens, Len(nodes) + ForkOf(n, b), {}, new[b].finish)

LEMMA PiecesFacts ==
  ASSUME TypeOK, HasTree, ShapeOK, ChosenOK, NEW n \in DOMAIN chosen, NEW new, Len(new) \in Nat
  PROVE  LET ns == nodes \o Pieces(n, new)
         IN /\ DOMAIN ns = Objects(n, new)
            /\ \A m \in DOMAIN nodes : ns[m] = nodes[m]
            /\ \A i \in 1..(Places(n) + 1) : ns[Len(nodes) + i] = Loose(n, new, i)
            /\ \A b \in 1..Len(new) : ns[BranchAt(n, b)] = LooseBranch(n, new, b)
<1> DEFINE K == Places(n)
           L == Len(nodes)
           cuts == Cuts(n)
           ps == Pieces(n, new)
           ns == nodes \o ps
<1>1. K \in Nat \ {0} /\ Len(cuts) - 1 = K + 1 /\ L \in Nat /\ DOMAIN nodes = 1..L
  <2>1. K \in Nat \ {0} /\ Len(cuts) = K + 2
    BY CutsFacts
  <2> HIDE DEF K, cuts
  <2> QED BY <2>1, NodeFacts
<1>2. Len(<<0>> \o chosen[n] \o <<Len(nodes[n].segment)>>) - 1 = K + 1
  BY <1>1 DEF Cuts
<1>3. ps = [c \in 1..((K + 1) + Len(new)) |-> IF c <= K + 1 THEN Loose(n, new, c)
                                             ELSE LooseBranch(n, new, c - (K + 1))]
  <2> DEFINE last == Len(<<0>> \o chosen[n] \o <<Len(nodes[n].segment)>>) - 1
             at(i) == {L + last + b : b \in {c \in DOMAIN new : ForkOf(n, c) = i}}
             loose(i) == Node(SubSeq(nodes[n].segment, cuts[i] + 1, cuts[i + 1]),
                              IF i = 1 THEN None ELSE L + i - 1,
                              IF i = last THEN nodes[n].children ELSE {L + i + 1} \cup at(i),
                              IF i = last THEN nodes[n].finish ELSE "none")
  <2>1. ps = [c \in 1..(last + Len(new)) |-> IF c <= last THEN loose(c) ELSE LooseBranch(n, new, c - last)]
    BY DEF Pieces, LooseBranch, Cuts
  <2>2. last = K + 1
    BY <1>2
  <2>3. \A i : at(i) = BranchesAt(n, new, i)
    <3> HIDE DEF last
    <3> QED BY <2>2 DEF BranchesAt, BranchAt
  <2>4. \A i : loose(i) = Loose(n, new, i)
    <3> HIDE DEF last, at
    <3> QED BY <2>2, <2>3 DEF Loose, PieceText
  <2> HIDE DEF last, loose, ps
  <2> QED BY <2>1, <2>2, <2>4
<1>4. ps \in Seq({ps[c] : c \in 1..((K + 1) + Len(new))}) /\ Len(ps) = (K + 1) + Len(new)
      /\ \A c \in 1..((K + 1) + Len(new)) : ps[c] = IF c <= K + 1 THEN Loose(n, new, c) ELSE LooseBranch(n, new, c - (K + 1))
  <2> DEFINE N == (K + 1) + Len(new)
             P == {ps[c] : c \in 1..N}
  <2>1. N \in Nat
    BY <1>1
  <2>2. ps \in [1..N -> P]
    BY <1>3
  <2>3. ps \in Seq(P) /\ Len(ps) = N
    <3> HIDE DEF N, P, ps
    <3>1. ps \in Seq(P)
      BY <2>1, <2>2, IsASeq
    <3> QED BY <2>1, <2>2, <3>1
  <2> QED BY <1>3, <2>3
<1>5. /\ Len(ns) = L + ((K + 1) + Len(new)) /\ DOMAIN ns = 1..(L + ((K + 1) + Len(new)))
      /\ \A m \in 1..(L + ((K + 1) + Len(new))) : ns[m] = IF m <= L THEN nodes[m] ELSE ps[m - L]
  <2> DEFINE Q == NodeType \cup {ps[c] : c \in 1..((K + 1) + Len(new))}
  <2>1. nodes \in Seq(Q) /\ ps \in Seq(Q)
    <3> HIDE DEF ps, K
    <3>1. nodes \in Seq(NodeType)
      BY DEF TypeOK
    <3> QED BY <1>4, <3>1
  <2> HIDE DEF ps, Q, K
  <2>2. /\ ns \in Seq(Q) /\ Len(ns) = L + Len(ps)
        /\ \A m \in 1..(L + Len(ps)) : ns[m] = IF m <= L THEN nodes[m] ELSE ps[m - L]
    BY <2>1, ConcatFacts
  <2>3. DOMAIN ns = 1..Len(ns)
    BY <2>2
  <2> HIDE DEF ns
  <2> QED BY <1>4, <2>2, <2>3
<1> HIDE DEF ps, K
<1>6. \A m \in DOMAIN nodes : m \in 1..(L + ((K + 1) + Len(new))) /\ ns[m] = nodes[m]
  BY <1>1, <1>5
<1>7. ASSUME NEW i \in 1..(K + 1) PROVE ns[L + i] = Loose(n, new, i)
  <2>1. L + i \in 1..(L + ((K + 1) + Len(new))) /\ ~(L + i <= L) /\ (L + i) - L = i /\ i \in 1..((K + 1) + Len(new)) /\ i <= K + 1
    BY <1>1
  <2> QED BY <1>4, <1>5, <2>1
<1>8. ASSUME NEW b \in 1..Len(new) PROVE ns[BranchAt(n, b)] = LooseBranch(n, new, b)
  <2> DEFINE m == BranchAt(n, b)
  <2>0. m = L + (K + 1) + b
    BY DEF BranchAt, K
  <2>1. m \in 1..(L + ((K + 1) + Len(new))) /\ ~(m <= L) /\ m - L = (K + 1) + b
        /\ (K + 1) + b \in 1..((K + 1) + Len(new)) /\ ~((K + 1) + b <= K + 1) /\ ((K + 1) + b) - (K + 1) = b
    <3> HIDE DEF m
    <3> QED BY <1>1, <2>0
  <2> QED BY <1>4, <1>5, <2>1
<1>9. Objects(n, new) = 1..(L + ((K + 1) + Len(new)))
  <2>1. L + (K + 1) + Len(new) = L + ((K + 1) + Len(new))
    BY <1>1
  <2> QED BY <2>1 DEF Objects, K
<1> QED BY <1>5, <1>6, <1>7, <1>8, <1>9 DEF ps, K
\* Where each object of the grown tree comes from.
LEMMA ObjectFacts ==
  ASSUME TypeOK, HasTree, ShapeOK, ChosenOK, NEW n \in DOMAIN chosen,
         NEW new, Len(new) \in Nat, DOMAIN new = 1..Len(new)
  PROVE  /\ \A m \in DOMAIN nodes : m \in Objects(n, new)
         /\ \A i \in 1..(Places(n) + 1) : /\ Len(nodes) + i \in Objects(n, new) \ DOMAIN nodes
                                          /\ PieceAt(n, i) \in Objects(n, new)
                                          /\ PieceAt(n, i) \in DOMAIN nodes => n = Root /\ PieceAt(n, i) = Root
                                          /\ Regrown(n, new, Len(nodes) + i) = Piece(n, new, i)
                                          /\ Regrown(n, new, PieceAt(n, i)) = Piece(n, new, i)
         /\ \A b \in 1..Len(new) : /\ BranchAt(n, b) \in Objects(n, new) \ DOMAIN nodes
                                   /\ Regrown(n, new, BranchAt(n, b)) = Branch(n, new, b)
         /\ \A m \in Objects(n, new) \ DOMAIN nodes :
              \/ \E i \in 1..(Places(n) + 1) : m = Len(nodes) + i
              \/ \E b \in 1..Len(new) : m = BranchAt(n, b)
         /\ \A i \in 1..(Places(n) + 1), b \in 1..Len(new) : Len(nodes) + i < BranchAt(n, b) /\ PieceAt(n, i) < BranchAt(n, b)
         /\ \A i, j \in 1..(Places(n) + 1) : i < j => PieceAt(n, i) < PieceAt(n, j)
         /\ \A b, c \in 1..Len(new) : BranchAt(n, b) = BranchAt(n, c) => b = c
         /\ \A i \in 1..(Places(n) + 1) : PieceAt(n, i) \in Nat \ {0} /\ PieceAt(n, i) <= Len(nodes) + i
         /\ \A i \in 2..(Places(n) + 1) : PieceAt(n, i) = Len(nodes) + i
<1> DEFINE K == Places(n)
           L == Len(nodes)
           M == Len(new)
<1>1. K \in Nat \ {0} /\ L \in Nat \ {0} /\ M \in Nat /\ DOMAIN nodes = 1..L /\ Root = 1
  BY CutsFacts, NodeFacts DEF Root
<1>2. Objects(n, new) = 1..(L + (K + 1) + M)
  BY DEF Objects
<1>3. \A i : PieceAt(n, i) = IF i = 1 /\ n = Root THEN Root ELSE L + i
  BY DEF PieceAt
<1>4. \A b : BranchAt(n, b) = L + (K + 1) + b
  BY DEF BranchAt
<1>5. \A m : Regrown(n, new, m) =
         IF m \in DOMAIN nodes THEN IF n = Root /\ m = Root THEN Piece(n, new, 1) ELSE Kept(n, m)
         ELSE IF m <= L + (K + 1) THEN Piece(n, new, m - L)
         ELSE Branch(n, new, m - (L + (K + 1)))
  BY DEF Regrown
<1> HIDE DEF K, L, M
<1>6. ASSUME NEW i \in 1..(K + 1)
      PROVE  /\ L + i \in Objects(n, new) \ DOMAIN nodes
             /\ PieceAt(n, i) \in Objects(n, new)
             /\ PieceAt(n, i) \in DOMAIN nodes => n = Root /\ PieceAt(n, i) = Root
             /\ Regrown(n, new, L + i) = Piece(n, new, i)
             /\ Regrown(n, new, PieceAt(n, i)) = Piece(n, new, i)
  <2>1. L + i \in 1..(L + (K + 1) + M) /\ L + i \notin 1..L /\ L + i <= L + (K + 1) /\ (L + i) - L = i
    BY <1>1
  <2>2. Regrown(n, new, L + i) = Piece(n, new, i)
    BY <1>1, <1>5, <2>1
  <2>3. Root \in 1..L /\ Root \in 1..(L + (K + 1) + M)
    BY <1>1
  <2>4. i = 1 /\ n = Root => Regrown(n, new, Root) = Piece(n, new, i)
    BY <1>1, <1>5, <2>3
  <2> QED BY <1>1, <1>2, <1>3, <2>1, <2>2, <2>3, <2>4
<1>7. ASSUME NEW b \in 1..M
      PROVE  /\ BranchAt(n, b) \in Objects(n, new) \ DOMAIN nodes
             /\ Regrown(n, new, BranchAt(n, b)) = Branch(n, new, b)
  <2>1. /\ L + (K + 1) + b \in 1..(L + (K + 1) + M) /\ L + (K + 1) + b \notin 1..L
        /\ ~(L + (K + 1) + b <= L + (K + 1)) /\ (L + (K + 1) + b) - (L + (K + 1)) = b
    BY <1>1
  <2> QED BY <1>1, <1>2, <1>4, <1>5, <2>1
<1>8. ASSUME NEW m \in Objects(n, new) \ DOMAIN nodes
      PROVE  \/ \E i \in 1..(K + 1) : m = L + i
             \/ \E b \in 1..M : m = BranchAt(n, b)
  <2>1. m \in 1..(L + (K + 1) + M) /\ m \notin 1..L
    BY <1>1, <1>2
  <2>2. CASE m <= L + (K + 1)
    <3>1. m - L \in 1..(K + 1) /\ m = L + (m - L)
      BY <1>1, <2>1, <2>2
    <3> QED BY <3>1
  <2>3. CASE ~(m <= L + (K + 1))
    <3>1. m - (L + (K + 1)) \in 1..M /\ m = L + (K + 1) + (m - (L + (K + 1)))
      BY <1>1, <2>1, <2>3
    <3> QED BY <1>4, <3>1
  <2> QED BY <2>2, <2>3
<1>9. \A m \in DOMAIN nodes : m \in Objects(n, new)
  BY <1>1, <1>2
<1>10. \A i \in 1..(K + 1), b \in 1..M : L + i < BranchAt(n, b) /\ PieceAt(n, i) < BranchAt(n, b)
  BY <1>1, <1>3, <1>4
<1>11. \A i, j \in 1..(K + 1) : i < j => PieceAt(n, i) < PieceAt(n, j)
  BY <1>1, <1>3
<1>12. \A b, c \in 1..M : BranchAt(n, b) = BranchAt(n, c) => b = c
  BY <1>1, <1>4
<1>13. \A i \in 1..(K + 1) : PieceAt(n, i) \in Nat \ {0} /\ PieceAt(n, i) <= L + i
  BY <1>1, <1>3
<1>14. \A i \in 2..(K + 1) : PieceAt(n, i) = L + i
  BY <1>1, <1>3
<1> QED BY <1>6, <1>7, <1>8, <1>9, <1>10, <1>11, <1>12, <1>13, <1>14 DEF K, L, M

\* _replace_node_in_tree with the new pieces.
LEMMA GrownNodes ==
  ASSUME TypeOK, HasTree, ShapeOK, ChosenOK, NEW n \in DOMAIN chosen,
         NEW new, Len(new) \in Nat, DOMAIN new = 1..Len(new)
  PROVE  Replace(nodes \o Pieces(n, new), n, Len(nodes) + 1)
           = [m \in Objects(n, new) |-> Regrown(n, new, m)]
<1> DEFINE K == Places(n)
           L == Len(nodes)
           O == Objects(n, new)
           ns == nodes \o Pieces(n, new)
<1>1. K \in Nat \ {0} /\ L \in Nat \ {0} /\ DOMAIN nodes = 1..L /\ Root = 1 /\ None = 0 /\ Root \in DOMAIN nodes
  BY CutsFacts, NodeFacts DEF Root, None
<1>2. /\ DOMAIN ns = O
      /\ \A m \in DOMAIN nodes : ns[m] = nodes[m]
      /\ \A i \in 1..(K + 1) : ns[L + i] = Loose(n, new, i)
      /\ \A b \in 1..Len(new) : ns[BranchAt(n, b)] = LooseBranch(n, new, b)
  BY PiecesFacts
<1>3. n \in Leaves /\ n \in Tree /\ n \in DOMAIN nodes /\ nodes[n].children = {}
  BY TreeFacts DEF ChosenOK, Leaves
<1>4. /\ DOMAIN nodes \subseteq O
      /\ \A i \in 1..(K + 1) : L + i \in O \ DOMAIN nodes /\ Regrown(n, new, L + i) = Piece(n, new, i)
      /\ \A b \in 1..Len(new) : BranchAt(n, b) \in O \ DOMAIN nodes /\ Regrown(n, new, BranchAt(n, b)) = Branch(n, new, b)
      /\ \A m \in O \ DOMAIN nodes : \/ \E i \in 1..(K + 1) : m = L + i
                                     \/ \E b \in 1..Len(new) : m = BranchAt(n, b)
      /\ \A i \in 1..(K + 1), b \in 1..Len(new) : L + i < BranchAt(n, b)
      /\ \A b, c \in 1..Len(new) : BranchAt(n, b) = BranchAt(n, c) => b = c
  BY ObjectFacts
<1>5. \A i \in 1..(K + 1) :
        Loose(n, new, i) = Node(PieceText(n, i), IF i = 1 THEN None ELSE L + i - 1,
                                IF i = K + 1 THEN {} ELSE {L + i + 1} \cup BranchesAt(n, new, i),
                                IF i = K + 1 THEN nodes[n].finish ELSE "none")
  BY <1>3 DEF Loose
<1>6. \A i \in 1..(K + 1) :
        Piece(n, new, i) = Node(PieceText(n, i), IF i = 1 THEN nodes[n].parent ELSE PieceAt(n, i - 1),
                                IF i = K + 1 THEN {} ELSE {L + i + 1} \cup BranchesAt(n, new, i),
                                IF i = K + 1 THEN nodes[n].finish ELSE "none")
  <2>1. \A i \in 1..(K + 1) : i # K + 1 => PieceAt(n, i + 1) = L + i + 1
    BY <1>1 DEF PieceAt
  <2> QED BY <2>1 DEF Piece
<1>7. \A b : /\ LooseBranch(n, new, b) = Node(new[b].tokens, L + ForkOf(n, b), {}, new[b].finish)
             /\ Branch(n, new, b) = Node(new[b].tokens, PieceAt(n, ForkOf(n, b)), {}, new[b].finish)
  BY DEF LooseBranch, Branch
<1>8. \A i : PieceAt(n, i) = IF i = 1 /\ n = Root THEN Root ELSE L + i
  BY DEF PieceAt
<1>9. /\ 1 \in 1..(K + 1) /\ 1 # K + 1
      /\ \A i \in 1..(K + 1) : i # 1 => L + (i - 1) = L + i - 1 /\ i - 1 # 0 /\ (i - 1 = 1 <=> i = 2)
  BY <1>1
<1> HIDE DEF K, L, O, ns
<1>10. CASE n # Root
  <2> DEFINE p == nodes[n].parent
  <2>1. p \in DOMAIN nodes /\ p # L + 1
    BY <1>1, <1>3, <1>10, TreeFacts
  <2>2. ns[n].parent = p /\ L + 1 \in O
    BY <1>2, <1>3, <1>4, <1>9
  <2>3. Replace(ns, n, L + 1) = [ns EXCEPT ![L + 1].parent = p, ![p].children = Swapped(@, n, L + 1)]
    BY <1>10, <2>2 DEF Replace
  <2> HIDE DEF p
  <2>4. Replace(ns, n, L + 1) =
          [m \in O |-> IF m = p THEN [ns[p] EXCEPT !.children = Swapped(@, n, L + 1)]
                       ELSE IF m = L + 1 THEN [ns[L + 1] EXCEPT !.parent = p] ELSE ns[m]]
    BY <1>2, <2>1, <2>2, <2>3
  <2>5. ASSUME NEW m \in DOMAIN nodes
        PROVE  Replace(ns, n, L + 1)[m] = Regrown(n, new, m)
    <3>1. m \in O /\ m # L + 1 /\ ns[m] = nodes[m]
      BY <1>2, <1>4, <1>9
    <3>2. Regrown(n, new, m) = Kept(n, m)
      BY <1>10 DEF Regrown
    <3>3. PieceAt(n, 1) = L + 1
      BY <1>8, <1>10
    <3> QED BY <1>10, <2>4, <3>1, <3>2, <3>3 DEF Kept, p
  <2>6. ASSUME NEW i \in 1..(K + 1)
        PROVE  Replace(ns, n, L + 1)[L + i] = Regrown(n, new, L + i)
    <3>1. L + i \in O /\ L + i # p
      BY <1>4, <2>1
    <3>2. Regrown(n, new, L + i) = Piece(n, new, i) /\ ns[L + i] = Loose(n, new, i)
      BY <1>2, <1>4
    <3>3. CASE i = 1
      <4> DEFINE text == PieceText(n, 1)
                 cs == {L + 1 + 1} \cup BranchesAt(n, new, 1)
      <4>1. Loose(n, new, 1) = Node(text, None, cs, "none")
        BY <1>5, <1>9
      <4>2. Piece(n, new, 1) = Node(text, p, cs, "none")
        BY <1>6, <1>9 DEF p
      <4>3. [Node(text, None, cs, "none") EXCEPT !.parent = p] = Node(text, p, cs, "none")
        <5> HIDE DEF text, cs
        <5> QED BY NodeParent
      <4>4. [Loose(n, new, 1) EXCEPT !.parent = p] = Piece(n, new, 1)
        BY <4>1, <4>2, <4>3, Zenon
      <4> QED BY <2>4, <3>1, <3>2, <3>3, <4>4
    <3>4. CASE i # 1
      <4>1. L + i # L + 1
        BY <1>1, <3>4
      <4>2. PieceAt(n, i - 1) = L + i - 1
        BY <1>8, <1>9, <1>10, <3>4
      <4>3. Loose(n, new, i) = Piece(n, new, i)
        BY <1>5, <1>6, <3>4, <4>2
      <4> QED BY <2>4, <3>1, <3>2, <4>1, <4>3
    <3> QED BY <3>3, <3>4
  <2>7. ASSUME NEW b \in 1..Len(new)
        PROVE  Replace(ns, n, L + 1)[BranchAt(n, b)] = Regrown(n, new, BranchAt(n, b))
    <3>1. BranchAt(n, b) \in O /\ BranchAt(n, b) # p /\ BranchAt(n, b) # L + 1
      <4>1. L + 1 < BranchAt(n, b)
        BY <1>4, <1>9
      <4>2. BranchAt(n, b) # L + 1
        BY <1>1, <4>1
      <4> QED BY <1>4, <2>1, <4>2
    <3>2. LooseBranch(n, new, b) = Branch(n, new, b)
      BY <1>7, <1>8, <1>10
    <3> QED BY <1>2, <1>4, <2>4, <3>1, <3>2
  <2>8. \A m \in O : Replace(ns, n, L + 1)[m] = Regrown(n, new, m)
    BY <1>4, <2>5, <2>6, <2>7
  <2>9. Replace(ns, n, L + 1) = [m \in O |-> Regrown(n, new, m)]
    BY <2>4, <2>8
  <2> QED BY <2>9 DEF ns, L, O
<1>11. CASE n = Root
  <2> DEFINE top == [ns EXCEPT ![Root] = [ns[L + 1] EXCEPT !.parent = None]]
             cs == {L + 2} \cup BranchesAt(n, new, 1)
  <2>1. ns[L + 1] = Loose(n, new, 1) /\ ns[L + 1].children = cs
    <3>1. ns[L + 1] = Loose(n, new, 1)
      BY <1>2, <1>9
    <3>2. L + 1 + 1 = L + 2
      BY <1>1
    <3>3. Loose(n, new, 1) = Node(PieceText(n, 1), None, {L + 2} \cup BranchesAt(n, new, 1), "none")
      BY <1>5, <1>9, <3>2
    <3> QED BY <3>1, <3>3, NodeParent
  <2>2. Loose(n, new, 1) = Piece(n, new, 1)
    <3>1. nodes[n].parent = None
      BY <1>11 DEF ShapeOK
    <3> QED BY <1>5, <1>6, <1>9, <3>1
  <2>3. [ns[L + 1] EXCEPT !.parent = None] = Piece(n, new, 1)
    <3> DEFINE text == PieceText(n, 1)
               cs1 == {L + 1 + 1} \cup BranchesAt(n, new, 1)
    <3>1. Loose(n, new, 1) = Node(text, None, cs1, "none")
      BY <1>5, <1>9
    <3>2. [Node(text, None, cs1, "none") EXCEPT !.parent = None] = Node(text, None, cs1, "none")
      <4> HIDE DEF text, cs1
      <4> QED BY NodeParent
    <3> QED BY <2>1, <2>2, <3>1, <3>2, Zenon
  <2>4. top = [m \in O |-> IF m = Root THEN Piece(n, new, 1) ELSE ns[m]]
    BY <1>1, <1>2, <1>4, <2>3
  <2> HIDE DEF top
  <2>5. Replace(ns, n, L + 1) = [c \in DOMAIN top |-> IF c \in cs THEN [top[c] EXCEPT !.parent = Root] ELSE top[c]]
    BY <1>11, <2>1 DEF Replace, top
  <2>6. Replace(ns, n, L + 1) = [m \in O |-> IF m \in cs THEN [top[m] EXCEPT !.parent = Root] ELSE top[m]]
    BY <2>4, <2>5
  <2>7. \A b \in 1..Len(new) : BranchAt(n, b) \in cs <=> ForkOf(n, b) = 1
    <3>1. \A b \in 1..Len(new) : BranchAt(n, b) # L + 2
      <4>1. \A b \in 1..Len(new) : L + (K + 1) < BranchAt(n, b) /\ L + 2 <= L + (K + 1)
        <5>1. K + 1 \in 1..(K + 1)
          BY <1>1
        <5>2. L + 2 <= L + (K + 1)
          BY <1>1
        <5> QED BY <1>4, <5>1, <5>2
      <4>2. L + 2 \in Int /\ L + (K + 1) \in Int
        BY <1>1
      <4> QED BY <4>1, <4>2
    <3>2. \A b \in 1..Len(new) : BranchAt(n, b) \in BranchesAt(n, new, 1) <=> ForkOf(n, b) = 1
      BY <1>4 DEF BranchesAt
    <3> QED BY <3>1, <3>2
  <2>8. \A m \in cs : m \notin DOMAIN nodes
    <3>1. 2 \in 1..(K + 1)
      BY <1>1
    <3>2. \A m \in BranchesAt(n, new, 1) : \E b \in 1..Len(new) : m = BranchAt(n, b)
      BY DEF BranchesAt
    <3> QED BY <1>4, <3>1, <3>2
  <2>9. \A i \in 1..(K + 1) : L + i \in cs <=> i = 2
    <3>1. ASSUME NEW i \in 1..(K + 1) PROVE L + i \notin BranchesAt(n, new, 1)
      <4>1. ASSUME NEW b \in 1..Len(new) PROVE L + i # BranchAt(n, b)
        <5> DEFINE x == L + i
        <5>0. x < BranchAt(n, b)
          BY <1>4
        <5>1. x \in Int
          BY <1>1
        <5> HIDE DEF x
        <5>2. x # BranchAt(n, b)
          BY <5>0, <5>1
        <5> QED BY <5>2 DEF x
      <4> QED BY <4>1 DEF BranchesAt
    <3>2. \A i \in 1..(K + 1) : L + i = L + 2 <=> i = 2
      BY <1>1
    <3> QED BY <3>1, <3>2
  <2> HIDE DEF cs
  <2>10. ASSUME NEW m \in DOMAIN nodes
         PROVE  Replace(ns, n, L + 1)[m] = Regrown(n, new, m)
    <3>1. m \in O /\ ns[m] = nodes[m] /\ m \notin cs
      BY <1>2, <1>4, <2>8
    <3>2. Regrown(n, new, m) = IF m = Root THEN Piece(n, new, 1) ELSE nodes[m]
      BY <1>11 DEF Regrown, Kept
    <3> QED BY <2>4, <2>6, <3>1, <3>2
  <2>11. ASSUME NEW i \in 1..(K + 1)
         PROVE  Replace(ns, n, L + 1)[L + i] = Regrown(n, new, L + i)
    <3>1. L + i \in O /\ L + i # Root
      <4>1. Root \in DOMAIN nodes
        BY <1>1
      <4>2. L + i \in O \ DOMAIN nodes
        BY <1>4
      <4> QED BY <4>1, <4>2
    <3>2. Regrown(n, new, L + i) = Piece(n, new, i) /\ ns[L + i] = Loose(n, new, i)
      BY <1>2, <1>4
    <3>3. top[L + i] = Loose(n, new, i)
      BY <2>4, <3>1, <3>2
    <3>4. CASE i = 1
      <4>1. L + i \notin cs
        BY <2>9, <3>4
      <4> QED BY <2>2, <2>6, <3>1, <3>2, <3>3, <3>4, <4>1
    <3>5. CASE i = 2
      <4>1. L + i \in cs
        BY <2>9, <3>5
      <4>2. PieceAt(n, i - 1) = Root
        BY <1>8, <1>11, <3>5
      <4>3. [Loose(n, new, i) EXCEPT !.parent = Root] = Piece(n, new, i)
        <5>1. i # 1
          BY <3>5
        <5> DEFINE text == PieceText(n, i)
                   ds == IF i = K + 1 THEN {} ELSE {L + i + 1} \cup BranchesAt(n, new, i)
                   finish == IF i = K + 1 THEN nodes[n].finish ELSE "none"
        <5>2. Loose(n, new, i) = Node(text, L + i - 1, ds, finish)
          BY <1>5, <5>1
        <5>3. Piece(n, new, i) = Node(text, Root, ds, finish)
          BY <1>6, <4>2, <5>1
        <5>4. [Node(text, L + i - 1, ds, finish) EXCEPT !.parent = Root] = Node(text, Root, ds, finish)
          <6> HIDE DEF text, ds, finish
          <6> QED BY NodeParent
        <5> QED BY <5>2, <5>3, <5>4, Zenon
      <4> QED BY <2>6, <3>1, <3>2, <3>3, <4>1, <4>3
    <3>6. CASE i # 1 /\ i # 2
      <4>1. L + i \notin cs
        BY <2>9, <3>6
      <4>2. PieceAt(n, i - 1) = L + i - 1
        BY <1>8, <1>9, <3>6
      <4>3. Loose(n, new, i) = Piece(n, new, i)
        BY <1>5, <1>6, <3>6, <4>2
      <4> QED BY <2>6, <3>1, <3>2, <3>3, <4>1, <4>3
    <3> QED BY <3>4, <3>5, <3>6
  <2>12. ASSUME NEW b \in 1..Len(new)
         PROVE  Replace(ns, n, L + 1)[BranchAt(n, b)] = Regrown(n, new, BranchAt(n, b))
    <3>1. BranchAt(n, b) \in O /\ BranchAt(n, b) # Root
      BY <1>1, <1>4
    <3>2. top[BranchAt(n, b)] = LooseBranch(n, new, b)
      BY <1>2, <2>4, <3>1
    <3>3. CASE ForkOf(n, b) = 1
      <4>1. PieceAt(n, ForkOf(n, b)) = Root
        BY <1>8, <1>11, <3>3
      <4>2. [LooseBranch(n, new, b) EXCEPT !.parent = Root] = Branch(n, new, b)
        BY <1>7, <4>1, NodeParent
      <4> QED BY <1>4, <2>6, <2>7, <3>1, <3>2, <3>3, <4>2
    <3>4. CASE ForkOf(n, b) # 1
      <4>1. LooseBranch(n, new, b) = Branch(n, new, b)
        BY <1>7, <1>8, <3>4
      <4> QED BY <1>4, <2>6, <2>7, <3>1, <3>2, <3>4, <4>1
    <3> QED BY <3>3, <3>4
  <2>13. \A m \in O : Replace(ns, n, L + 1)[m] = Regrown(n, new, m)
    BY <1>4, <2>10, <2>11, <2>12
  <2>14. Replace(ns, n, L + 1) = [m \in O |-> Regrown(n, new, m)]
    BY <2>6, <2>13
  <2> QED BY <2>14 DEF ns, L, O
<1> QED BY <1>10, <1>11
-----------------------------------------------------------------------------
(* Grow.                                                                   *)

\* Grow(n) with these answers, in a good state.
Growing(n, f) ==
  /\ TypeOK /\ HasTree /\ GrowthOK
  /\ n \in DOMAIN launched /\ f \in Answers(n)
  /\ responses' = responses \o NewResponses(n, f)
  /\ nodes' = Replace(nodes \o Pieces(n, NewResponses(n, f)), n, Len(nodes) + 1)
  /\ launched' = Restrict(launched, DOMAIN launched \ {n})
  /\ chosen' = Restrict(chosen, DOMAIN chosen \ {n})
  /\ UNCHANGED <<setting, round>>

Branched(n, f) == 1..Len(NewResponses(n, f))

LEMMA GrowingFacts ==
  ASSUME NEW n, NEW f, Growing(n, f)
  PROVE  LET new == NewResponses(n, f)
         IN /\ TypeOK /\ HasTree /\ ShapeOK /\ TokensOK /\ ResponsesOK /\ ChosenOK /\ CountOK /\ BranchedOnce
            /\ n \in DOMAIN launched /\ n \in DOMAIN chosen /\ f \in Answers(n)
            /\ n \in Leaves /\ n \in Tree /\ n \in DOMAIN nodes /\ nodes[n].children = {} /\ nodes[n].leaf
            /\ new \in Seq(ResponseType) /\ Len(new) \in Nat /\ DOMAIN new = 1..Len(new)
            /\ Len(new) = Len(f) /\ DOMAIN f = 1..Len(new) /\ Branched(n, f) = 1..Len(new)
            /\ n # Root => nodes[n].parent \in Tree /\ nodes[n].parent \in DOMAIN nodes
                           /\ nodes[n].parent # n /\ n \in nodes[nodes[n].parent].children
<1>1. TypeOK /\ HasTree /\ ShapeOK /\ TokensOK /\ ResponsesOK /\ ChosenOK /\ CountOK /\ BranchedOnce
  BY DEF Growing, GrowthOK
<1>2. n \in DOMAIN launched /\ f \in Answers(n)
  BY DEF Growing
<1>3. n \in DOMAIN chosen /\ n \in Leaves
  BY <1>1, <1>2 DEF ChosenOK
<1>4. n \in Tree /\ n \in DOMAIN nodes /\ nodes[n].children = {} /\ nodes[n].leaf
  BY <1>1, <1>3, TreeFacts DEF Leaves, IsLeaf
<1>5. /\ NewResponses(n, f) \in Seq(ResponseType) /\ Len(NewResponses(n, f)) = Len(f) 
      /\ DOMAIN NewResponses(n, f) = 1..Len(f)
  BY <1>1, <1>2, NewFacts
<1>6. Len(f) \in Nat /\ DOMAIN f = 1..Len(f)
  BY <1>1, <1>2, ForkFacts
<1>7. n # Root => nodes[n].parent \in Tree /\ nodes[n].parent \in DOMAIN nodes
                  /\ nodes[n].parent # n /\ n \in nodes[nodes[n].parent].children
  <2>1. n \in Nat
    BY <1>1, <1>4, NodeFacts
  <2> QED BY <1>1, <1>4, <2>1, TreeFacts
<1>8. Branched(n, f) = 1..Len(NewResponses(n, f))
  BY DEF Branched
<1> QED BY <1>1, <1>2, <1>3, <1>4, <1>5, <1>6, <1>7, <1>8

\* The objects after Grow, field by field.
PieceFields(n, new, i, m) ==
  /\ m \in DOMAIN nodes'
  /\ nodes'[m].segment = PieceText(n, i)
  /\ nodes'[m].parent = IF i = 1 THEN nodes[n].parent ELSE PieceAt(n, i - 1)
  /\ nodes'[m].finish = IF i = Places(n) + 1 THEN nodes[n].finish ELSE "none"
  /\ nodes'[m].leaf <=> i = Places(n) + 1
  /\ nodes'[m].children = IF i = Places(n) + 1 THEN {} ELSE {PieceAt(n, i + 1)} \cup BranchesAt(n, new, i)

LEMMA GrownFields ==
  ASSUME NEW n, NEW f, Growing(n, f)
  PROVE  LET new == NewResponses(n, f)
         IN /\ DOMAIN nodes' = Objects(n, new)
            /\ \A m \in DOMAIN nodes : ~(n = Root /\ m = Root) =>
                 /\ nodes'[m].segment = nodes[m].segment /\ nodes'[m].parent = nodes[m].parent
                 /\ nodes'[m].finish = nodes[m].finish /\ nodes'[m].leaf = nodes[m].leaf
                 /\ nodes'[m].children = IF n # Root /\ m = nodes[n].parent
                                         THEN Swapped(nodes[m].children, n, PieceAt(n, 1)) ELSE nodes[m].children
                 /\ nodes'[m] \in NodeType
            /\ \A i \in 1..(Places(n) + 1) : PieceFields(n, new, i, PieceAt(n, i)) /\ PieceFields(n, new, i, Len(nodes) + i)
            /\ \A b \in Branched(n, f) :
                 /\ BranchAt(n, b) \in DOMAIN nodes'
                 /\ nodes'[BranchAt(n, b)].segment = new[b].tokens
                 /\ nodes'[BranchAt(n, b)].parent = PieceAt(n, ForkOf(n, b))
                 /\ nodes'[BranchAt(n, b)].finish = new[b].finish
                 /\ nodes'[BranchAt(n, b)].leaf
                 /\ nodes'[BranchAt(n, b)].children = {}
<1> DEFINE new == NewResponses(n, f)
           K == Places(n)
<1>1. /\ TypeOK /\ HasTree /\ ShapeOK /\ ChosenOK /\ n \in DOMAIN chosen /\ n \in DOMAIN nodes
      /\ Len(new) \in Nat /\ DOMAIN new = 1..Len(new) /\ Branched(n, f) = 1..Len(new)
  BY GrowingFacts
<1>2. nodes' = [m \in Objects(n, new) |-> Regrown(n, new, m)]
  <2>1. nodes' = Replace(nodes \o Pieces(n, new), n, Len(nodes) + 1)
    BY DEF Growing
  <2> HIDE DEF new
  <2> QED BY <1>1, <2>1, GrownNodes
<1>3. /\ \A m \in DOMAIN nodes : m \in Objects(n, new)
      /\ \A i \in 1..(K + 1) : /\ Len(nodes) + i \in Objects(n, new)
                               /\ PieceAt(n, i) \in Objects(n, new)
                               /\ Regrown(n, new, Len(nodes) + i) = Piece(n, new, i)
                               /\ Regrown(n, new, PieceAt(n, i)) = Piece(n, new, i)
      /\ \A b \in 1..Len(new) : /\ BranchAt(n, b) \in Objects(n, new)
                                /\ Regrown(n, new, BranchAt(n, b)) = Branch(n, new, b)
  <2> HIDE DEF new, K
  <2> QED BY <1>1, ObjectFacts DEF K
<1> HIDE DEF new
<1>4. ASSUME NEW m \in DOMAIN nodes, ~(n = Root /\ m = Root)
      PROVE  /\ nodes'[m].segment = nodes[m].segment /\ nodes'[m].parent = nodes[m].parent
             /\ nodes'[m].finish = nodes[m].finish /\ nodes'[m].leaf = nodes[m].leaf
             /\ nodes'[m].children = IF n # Root /\ m = nodes[n].parent
                                     THEN Swapped(nodes[m].children, n, PieceAt(n, 1)) ELSE nodes[m].children
             /\ nodes'[m] \in NodeType
  <2>1. nodes'[m] = Kept(n, m)
    BY <1>2, <1>3, <1>4 DEF Regrown
  <2>2. nodes[m] \in NodeType
    BY <1>1, NodeFacts
  <2>3. CASE n # Root /\ m = nodes[n].parent
    <3> DEFINE cs == Swapped(nodes[m].children, n, PieceAt(n, 1))
    <3>1. nodes'[m] = [nodes[m] EXCEPT !.children = cs]
      BY <2>1, <2>3 DEF Kept
    <3>2. cs \in SUBSET Nat
      <4>1. 1 \in 1..(K + 1)
        BY <1>1, CutsFacts
      <4>2. PieceAt(n, 1) \in Nat
        BY <1>1, <4>1, ObjectFacts
      <4>3. nodes[m].children \subseteq Nat
        BY <1>1, NodeFacts
      <4> QED BY <4>2, <4>3 DEF Swapped
    <3> HIDE DEF cs
    <3>3. /\ nodes'[m].segment = nodes[m].segment /\ nodes'[m].parent = nodes[m].parent
          /\ nodes'[m].finish = nodes[m].finish /\ nodes'[m].leaf = nodes[m].leaf
          /\ nodes'[m].children = cs /\ nodes'[m] \in NodeType
      BY <2>2, <3>1, <3>2 DEF NodeType
    <3> QED BY <2>3, <3>3 DEF cs
  <2>4. CASE ~(n # Root /\ m = nodes[n].parent)
    <3>1. nodes'[m] = nodes[m]
      BY <2>1, <2>4 DEF Kept
    <3> QED BY <2>2, <2>4, <3>1
  <2> QED BY <2>3, <2>4
<1>5. ASSUME NEW i \in 1..(K + 1), NEW m, m = PieceAt(n, i) \/ m = Len(nodes) + i
      PROVE  PieceFields(n, new, i, m)
  <2> DEFINE text == PieceText(n, i)
             up == IF i = 1 THEN nodes[n].parent ELSE PieceAt(n, i - 1)
             finish == IF i = K + 1 THEN nodes[n].finish ELSE "none"
             cs == IF i = K + 1 THEN {} ELSE {PieceAt(n, i + 1)} \cup BranchesAt(n, new, i)
  <2>1. m \in DOMAIN nodes' /\ nodes'[m] = Piece(n, new, i)
    BY <1>2, <1>3, <1>5
  <2>2. Piece(n, new, i) = Node(text, up, cs, finish)
    BY DEF Piece
  <2>3. cs = {} <=> i = K + 1
    OBVIOUS
  <2> HIDE DEF text, up, finish, cs
  <2>4. /\ Node(text, up, cs, finish).children = cs /\ Node(text, up, cs, finish).parent = up
        /\ Node(text, up, cs, finish).segment = text /\ Node(text, up, cs, finish).finish = finish
        /\ (Node(text, up, cs, finish).leaf <=> cs = {})
    BY NodeParent
  <2>5. /\ nodes'[m].children = cs /\ nodes'[m].parent = up
        /\ nodes'[m].segment = text /\ nodes'[m].finish = finish
        /\ (nodes'[m].leaf <=> cs = {})
    BY <2>1, <2>2, <2>4, Zenon
  <2> QED BY <2>1, <2>3, <2>5 DEF text, up, finish, cs, PieceFields
<1>6. ASSUME NEW b \in 1..Len(new)
      PROVE  /\ BranchAt(n, b) \in DOMAIN nodes'
             /\ nodes'[BranchAt(n, b)].segment = new[b].tokens
             /\ nodes'[BranchAt(n, b)].parent = PieceAt(n, ForkOf(n, b))
             /\ nodes'[BranchAt(n, b)].finish = new[b].finish
             /\ nodes'[BranchAt(n, b)].leaf
             /\ nodes'[BranchAt(n, b)].children = {}
  <2> DEFINE text == new[b].tokens
             up == PieceAt(n, ForkOf(n, b))
             finish == new[b].finish
  <2>1. BranchAt(n, b) \in DOMAIN nodes' /\ nodes'[BranchAt(n, b)] = Branch(n, new, b)
    BY <1>2, <1>3
  <2>2. Branch(n, new, b) = Node(text, up, {}, finish)
    BY DEF Branch
  <2> HIDE DEF text, up, finish
  <2>4. /\ Node(text, up, {}, finish).children = {} /\ Node(text, up, {}, finish).parent = up
        /\ Node(text, up, {}, finish).segment = text /\ Node(text, up, {}, finish).finish = finish
        /\ Node(text, up, {}, finish).leaf
    BY NodeParent
  <2> QED BY <2>1, <2>2, <2>4, Zenon DEF text, up, finish
<1> QED BY <1>1, <1>2, <1>4, <1>5, <1>6 DEF new
\* The pieces of a leaf's text.
LEMMA PieceTexts ==
  ASSUME TypeOK, HasTree, ShapeOK, ChosenOK, NEW n \in DOMAIN chosen, NEW i \in 1..(Places(n) + 1)
  PROVE  /\ PieceText(n, i) \in Seq(Token) /\ nodes[n].segment \in Seq(Token)
         /\ Cuts(n)[i] \in Nat /\ Cuts(n)[i + 1] \in Nat /\ Cuts(n)[i] <= Cuts(n)[i + 1]
         /\ Cuts(n)[i + 1] <= Len(nodes[n].segment) /\ Len(nodes[n].segment) \in Nat
         /\ Len(PieceText(n, i)) = Cuts(n)[i + 1] - Cuts(n)[i]
         /\ i # Places(n) + 1 => Cuts(n)[i] < Cuts(n)[i + 1] /\ PieceText(n, i) # << >>
         /\ \A k \in 1..(Cuts(n)[i + 1] - Cuts(n)[i]) :
              /\ PieceText(n, i)[k] = nodes[n].segment[Cuts(n)[i] + k]
              /\ Cuts(n)[i] + k \in 1..Len(nodes[n].segment)
<1> DEFINE s == nodes[n].segment
           K == Places(n)
           c == Cuts(n)[i]
           d == Cuts(n)[i + 1]
<1>1. s \in Seq(Token) /\ K \in Nat \ {0} /\ Len(s) \in Nat /\ c \in 0..Len(s) /\ d \in 0..Len(s)
  <2>1. K \in Nat \ {0} /\ Len(s) \in Nat /\ \A j \in 1..(K + 2) : Cuts(n)[j] \in 0..Len(s)
    BY CutsFacts
  <2>2. n \in DOMAIN nodes
    BY DEF TypeOK
  <2>3. s \in Seq(Token)
    BY <2>2, NodeFacts
  <2> HIDE DEF K, s
  <2>4. i \in 1..(K + 2) /\ i + 1 \in 1..(K + 2)
    BY <2>1 DEF K
  <2> QED BY <2>1, <2>3, <2>4
<1>2. c <= d /\ (i # K + 1 => c < d)
  <2>1. /\ \A j, k \in 1..(K + 1) : j < k => Cuts(n)[j] < Cuts(n)[k]
        /\ \A j \in 1..(K + 1) : Cuts(n)[j] <= Cuts(n)[K + 2]
    BY CutsFacts
  <2> HIDE DEF K
  <2>2. CASE i = K + 1
    <3>1. i + 1 = K + 2
      BY <1>1, <2>2
    <3> QED BY <2>1, <2>2, <3>1 DEF K
  <2>3. CASE i # K + 1
    <3>1. i \in 1..(K + 1) /\ i + 1 \in 1..(K + 1) /\ i < i + 1
      BY <1>1, <2>3 DEF K
    <3>2. c < d
      BY <2>1, <3>1
    <3> HIDE DEF c, d
    <3> QED BY <1>1, <3>2
  <2> QED BY <2>2, <2>3
<1>3. PieceText(n, i) = SubSeq(s, c + 1, d)
  BY DEF PieceText
<1> HIDE DEF s, c, d, K
<1>4. c + 1 \in Int /\ d \in Int /\ (c + 1 <= d + 1) /\ \A k \in (c + 1)..d : k \in 1..Len(s)
  BY <1>1, <1>2
<1>5. /\ SubSeq(s, c + 1, d) \in Seq(Token)
      /\ Len(SubSeq(s, c + 1, d)) = d - c
      /\ \A k \in 1..(d - c) : SubSeq(s, c + 1, d)[k] = s[c + k]
  <2>1. c + 1 \in 1..(Len(s) + 1) /\ d \in (c + 1 - 1)..Len(s)
    BY <1>1, <1>2
  <2>2. CASE c = d
    <3>1. SubSeq(s, c + 1, d) = << >>
      BY <1>1, <2>2, SMT
    <3>2. d - c = 0 /\ \A k \in 1..0 : FALSE
      BY <1>1, <2>2
    <3>3. << >> \in Seq(Token) /\ Len(<< >>) = 0
      OBVIOUS
    <3> QED BY <3>1, <3>2, <3>3
  <2>3. CASE c # d
    <3>1. c + 1 \in Nat \ {0} /\ c + 1 <= d /\ d <= Len(s)
      BY <1>1, <1>2, <2>3
    <3>2. \A k \in (c + 1)..d : s[k] \in Token
      BY <1>1, <1>4, ElementOfSeq
    <3>3. /\ SubSeq(s, c + 1, d) \in Seq(Token)
          /\ Len(SubSeq(s, c + 1, d)) = d - (c + 1) + 1
          /\ \A k \in 1..(d - (c + 1) + 1) : SubSeq(s, c + 1, d)[k] = s[(c + 1) + k - 1]
      BY <1>1, <3>1, <3>2, SubSeqProperties
    <3>4. d - (c + 1) + 1 = d - c /\ \A k \in 1..(d - c) : (c + 1) + k - 1 = c + k
      BY <1>1
    <3> QED BY <3>3, <3>4
  <2> QED BY <2>2, <2>3
<1>6. \A k \in 1..(d - c) : c + k \in 1..Len(s)
  BY <1>1
<1>7. i # K + 1 => PieceText(n, i) # << >>
  <2>1. SUFFICES ASSUME i # K + 1 PROVE Len(PieceText(n, i)) # 0
    BY <1>3, <1>5, EmptySeq
  <2>2. d - c # 0
    BY <1>1, <1>2, <2>1
  <2> QED BY <1>3, <1>5, <2>2
<1>8. d <= Len(s) /\ c \in Nat /\ d \in Nat
  BY <1>1
<1> QED BY <1>1, <1>2, <1>3, <1>5, <1>6, <1>7, <1>8 DEF s, c, d, K

\* The tree and its leaves after Grow.
LEMMA GrownTree ==
  ASSUME NEW n, NEW f, Growing(n, f)
  PROVE  /\ \A m \in DOMAIN nodes : m # n => (m \in Tree' <=> m \in Tree)
         /\ n \in Tree' => n = Root
         /\ \A i \in 1..(Places(n) + 1) : PieceAt(n, i) \in Tree'
         /\ \A b \in Branched(n, f) : BranchAt(n, b) \in Tree'
         /\ \A m \in Tree' : \/ m \in Tree /\ m # n
                             \/ \E i \in 1..(Places(n) + 1) : m = PieceAt(n, i)
                             \/ \E b \in Branched(n, f) : m = BranchAt(n, b)
         /\ \A m \in DOMAIN nodes : m # n => (m \in Leaves' <=> m \in Leaves)
         /\ \A i \in 1..(Places(n) + 1) : PieceAt(n, i) \in Leaves' <=> i = Places(n) + 1
         /\ \A b \in Branched(n, f) : BranchAt(n, b) \in Leaves'
         /\ \A m \in Leaves' : \/ m \in Leaves /\ m # n
                               \/ m = PieceAt(n, Places(n) + 1)
                               \/ \E b \in Branched(n, f) : m = BranchAt(n, b)
<1> DEFINE new == NewResponses(n, f)
           K == Places(n)
           L == Len(nodes)
           T1 == Tree'
<1>1. /\ TypeOK /\ HasTree /\ ShapeOK /\ ChosenOK /\ n \in DOMAIN chosen /\ n \in DOMAIN nodes /\ n \in Leaves
      /\ Len(new) \in Nat /\ DOMAIN new = 1..Len(new) /\ Branched(n, f) = 1..Len(new)
      /\ n \in Tree /\ nodes[n].children = {} /\ nodes[n].leaf
      /\ n # Root => nodes[n].parent \in Tree /\ nodes[n].parent \in DOMAIN nodes
                     /\ nodes[n].parent # n /\ n \in nodes[nodes[n].parent].children
  BY GrowingFacts
<1>2. /\ K \in Nat \ {0} /\ 1 \in 1..(K + 1) /\ K + 1 \in 1..(K + 1) /\ None = 0 /\ Root = 1
      /\ \A i \in 1..K : i \in 1..(K + 1) /\ i # K + 1 /\ i + 1 \in 1..(K + 1)
      /\ \A i \in 1..(K + 1) : i # 1 => i - 1 \in 1..K /\ (i - 1) + 1 = i
  <2>1. K \in Nat \ {0}
    BY <1>1, CutsFacts
  <2> HIDE DEF K
  <2> QED BY <2>1 DEF None, Root
<1>3. /\ \A i \in 1..(K + 1) : PieceAt(n, i) \in Nat \ {0} /\ (PieceAt(n, i) \in DOMAIN nodes => n = Root /\ PieceAt(n, i) = Root)
      /\ \A i \in 1..(K + 1) : L + i \notin DOMAIN nodes
      /\ \A m \in Objects(n, new) \ DOMAIN nodes :
              \/ \E i \in 1..(K + 1) : m = L + i
              \/ \E b \in 1..Len(new) : m = BranchAt(n, b)
      /\ \A b \in 1..Len(new) : BranchAt(n, b) \notin DOMAIN nodes
  <2> HIDE DEF new, K, L
  <2> QED BY <1>1, ObjectFacts DEF K, L
<1>4. /\ DOMAIN nodes' = Objects(n, new) /\ \A m \in DOMAIN nodes : m \in Objects(n, new)
      /\ \A m \in DOMAIN nodes : ~(n = Root /\ m = Root) =>
           /\ nodes'[m].parent = nodes[m].parent /\ nodes'[m].leaf = nodes[m].leaf
           /\ nodes'[m].children = IF n # Root /\ m = nodes[n].parent
                                   THEN Swapped(nodes[m].children, n, PieceAt(n, 1)) ELSE nodes[m].children
      /\ \A i \in 1..(K + 1) : \A m : (m = PieceAt(n, i) \/ m = L + i) =>
           /\ m \in DOMAIN nodes'
           /\ nodes'[m].parent = IF i = 1 THEN nodes[n].parent ELSE PieceAt(n, i - 1)
           /\ nodes'[m].leaf <=> i = K + 1
           /\ nodes'[m].children = IF i = K + 1 THEN {} ELSE {PieceAt(n, i + 1)} \cup BranchesAt(n, new, i)
      /\ \A b \in 1..Len(new) :
           /\ BranchAt(n, b) \in DOMAIN nodes'
           /\ nodes'[BranchAt(n, b)].parent = PieceAt(n, ForkOf(n, b))
           /\ nodes'[BranchAt(n, b)].leaf
           /\ nodes'[BranchAt(n, b)].children = {}
  <2>1. \A m \in DOMAIN nodes : m \in Objects(n, new)
    <3> HIDE DEF new
    <3> QED BY <1>1, ObjectFacts
  <2>2. DOMAIN nodes' = Objects(n, new)
    BY GrownFields
  <2>3. \A m \in DOMAIN nodes : ~(n = Root /\ m = Root) =>
           /\ nodes'[m].parent = nodes[m].parent /\ nodes'[m].leaf = nodes[m].leaf
           /\ nodes'[m].children = IF n # Root /\ m = nodes[n].parent
                                   THEN Swapped(nodes[m].children, n, PieceAt(n, 1)) ELSE nodes[m].children
    BY GrownFields
  <2>4. ASSUME NEW i \in 1..(K + 1), NEW m, m = PieceAt(n, i) \/ m = L + i
        PROVE  /\ m \in DOMAIN nodes'
               /\ nodes'[m].parent = IF i = 1 THEN nodes[n].parent ELSE PieceAt(n, i - 1)
               /\ nodes'[m].leaf <=> i = K + 1
               /\ nodes'[m].children = IF i = K + 1 THEN {} ELSE {PieceAt(n, i + 1)} \cup BranchesAt(n, new, i)
    <3>1. PieceFields(n, new, i, PieceAt(n, i)) /\ PieceFields(n, new, i, L + i)
      BY GrownFields
    <3>2. PieceFields(n, new, i, m)
      BY <2>4, <3>1
    <3> HIDE DEF new
    <3> QED BY <3>2 DEF PieceFields
  <2>5. \A b \in Branched(n, f) :
           /\ BranchAt(n, b) \in DOMAIN nodes'
           /\ nodes'[BranchAt(n, b)].parent = PieceAt(n, ForkOf(n, b))
           /\ nodes'[BranchAt(n, b)].leaf
           /\ nodes'[BranchAt(n, b)].children = {}
    BY GrownFields
  <2> HIDE DEF new, K, L
  <2> QED BY <1>1, <2>1, <2>2, <2>3, <2>4, <2>5
<1>4a. n # Root => \A m \in Nat : /\ m \in nodes'[nodes[n].parent].children <=>
                                       (m \in nodes[nodes[n].parent].children /\ m # n) \/ m = PieceAt(n, 1)
                                 /\ \A q \in DOMAIN nodes : q # nodes[n].parent => nodes'[q].children = nodes[q].children
  <2>1. SUFFICES ASSUME n # Root
                 PROVE  /\ \A m : m \in nodes'[nodes[n].parent].children <=>
                                       (m \in nodes[nodes[n].parent].children /\ m # n) \/ m = PieceAt(n, 1)
                        /\ \A q \in DOMAIN nodes : q # nodes[n].parent => nodes'[q].children = nodes[q].children
    BY Zenon
  <2>2. nodes[n].parent \in DOMAIN nodes
    BY <1>1, <2>1
  <2>3. nodes'[nodes[n].parent].children = Swapped(nodes[nodes[n].parent].children, n, PieceAt(n, 1))
    BY <1>4, <2>1, <2>2
  <2>4. \A m : m \in Swapped(nodes[nodes[n].parent].children, n, PieceAt(n, 1)) <=>
              (m \in nodes[nodes[n].parent].children /\ m # n) \/ m = PieceAt(n, 1)
    BY DEF Swapped
  <2>5. \A q \in DOMAIN nodes : q # nodes[n].parent => nodes'[q].children = nodes[q].children
    BY <1>4, <2>1
  <2> QED BY <2>3, <2>4, <2>5
<1>4b. ASSUME NEW i \in 1..(K + 1)
       PROVE  /\ PieceAt(n, i) \in DOMAIN nodes'
              /\ nodes'[PieceAt(n, i)].parent = IF i = 1 THEN nodes[n].parent ELSE PieceAt(n, i - 1)
              /\ nodes'[PieceAt(n, i)].leaf <=> i = K + 1
              /\ nodes'[PieceAt(n, i)].children = IF i = K + 1 THEN {} ELSE {PieceAt(n, i + 1)} \cup BranchesAt(n, new, i)
  <2>1. PieceFields(n, new, i, PieceAt(n, i))
    BY GrownFields
  <2> HIDE DEF new
  <2> QED BY <2>1 DEF PieceFields
<1>5. n = Root => Tree = {Root} /\ \A m \in DOMAIN nodes : nodes[m].parent = None
  BY <1>1, RootAlone
<1>6. n = Root => PieceAt(n, 1) = Root
  BY DEF PieceAt
<1>7. n # Root => \A i \in 1..(K + 1) : PieceAt(n, i) = L + i
  BY DEF PieceAt
<1>8. \A b \in 1..Len(new) : ForkOf(n, b) \in 1..K
  <2>1. DOMAIN f = 1..Len(new)
    BY GrowingFacts
  <2> QED BY <1>1, <2>1, ForkFacts, GrowingFacts
<1>9. \A m : m \in Tree' <=> \/ m = Root
                             \/ /\ m \in DOMAIN nodes' /\ nodes'[m].parent # None
                                /\ m \in nodes'[nodes'[m].parent].children
  BY DEF Tree
<1>10. \A m : m \in Tree <=> \/ m = Root
                             \/ /\ m \in DOMAIN nodes /\ nodes[m].parent # None
                                /\ m \in nodes[nodes[m].parent].children
  BY DEF Tree
<1>11. \A m \in DOMAIN nodes : nodes[m].parent # None => nodes[m].parent \in Tree /\ nodes[m].parent \in DOMAIN nodes
                                                         /\ nodes[m].parent # n
  BY <1>1, TreeFacts DEF ShapeOK, Leaves
<1> HIDE DEF new, K, L
<1>12. ASSUME NEW m \in DOMAIN nodes, m # n
       PROVE  m \in Tree' <=> m \in Tree
  <2>1. CASE m = Root
    BY <1>9, <1>10, <2>1
  <2>2. CASE m # Root
    <3>1. nodes'[m].parent = nodes[m].parent /\ m \in DOMAIN nodes'
      BY <1>4, <2>2
    <3>2. CASE nodes[m].parent = None
      BY <1>9, <1>10, <2>2, <3>1, <3>2
    <3>3. CASE nodes[m].parent # None
      <4> DEFINE q == nodes[m].parent
      <4>1. n # Root /\ q \in DOMAIN nodes
        BY <1>5, <1>11, <3>3
      <4>2. m # PieceAt(n, 1)
        BY <1>2, <1>3, <4>1
      <4>3. m \in nodes'[q].children <=> m \in nodes[q].children
        <5>1. m \in Nat
          BY <1>1, NodeFacts
        <5> HIDE DEF q
        <5> QED BY <1>4a, <1>12, <4>1, <4>2, <5>1
      <4> QED BY <1>9, <1>10, <2>2, <3>1, <3>3, <4>3
    <3> QED BY <3>2, <3>3
  <2> QED BY <2>1, <2>2
<1>13. ASSUME n \in Tree', n # Root
       PROVE  FALSE
  <2> DEFINE p == nodes[n].parent
  <2>1. n # PieceAt(n, 1)
    BY <1>1, <1>2, <1>3, <1>13
  <2>2. nodes'[n].parent = p /\ p \in DOMAIN nodes
    BY <1>1, <1>4, <1>13
  <2>3. n \notin nodes'[p].children
    <3>1. n \in Nat
      BY <1>1, NodeFacts
    <3> QED BY <1>4a, <1>13, <2>1, <3>1
  <2> QED BY <1>9, <1>13, <2>2, <2>3
<1>14. ASSUME NEW i \in 1..(K + 1)
       PROVE  PieceAt(n, i) \in Tree'
  <2>1. CASE i = 1 /\ n = Root
    BY <1>6, <1>9, <2>1
  <2>2. CASE i = 1 /\ n # Root
    <3> DEFINE p == nodes[n].parent
    <3>1. p # None /\ p \in DOMAIN nodes
      BY <1>1, <1>10, <2>2
    <3>2. PieceAt(n, 1) \in nodes'[p].children
      <4>1. PieceAt(n, 1) \in Nat
        BY <1>2, <1>3
      <4> QED BY <1>4a, <2>2, <4>1
    <3>3. PieceAt(n, 1) \in DOMAIN nodes' /\ nodes'[PieceAt(n, 1)].parent = p
      BY <1>2, <1>4
    <3> QED BY <1>9, <2>2, <3>1, <3>2, <3>3
  <2>3. CASE i # 1
    <3> DEFINE j == i - 1
    <3>1. j \in 1..(K + 1) /\ j # K + 1 /\ j + 1 = i
      BY <1>2, <2>3
    <3> HIDE DEF j
    <3>2. nodes'[PieceAt(n, i)].parent = PieceAt(n, j) /\ PieceAt(n, i) \in DOMAIN nodes'
      BY <1>4b, <2>3 DEF j
    <3>3. PieceAt(n, j) # None
      <4>1. PieceAt(n, j) \in Nat \ {0}
        BY <1>3, <3>1
      <4> QED BY <1>2, <4>1
    <3>4. PieceAt(n, i) \in nodes'[PieceAt(n, j)].children
      <4>1. nodes'[PieceAt(n, j)].children = {PieceAt(n, j + 1)} \cup BranchesAt(n, new, j)
        BY <1>4b, <3>1
      <4> QED BY <3>1, <4>1
    <3> QED BY <1>9, <3>2, <3>3, <3>4
  <2> QED BY <2>1, <2>2, <2>3
<1>15. ASSUME NEW b \in 1..Len(new)
       PROVE  BranchAt(n, b) \in Tree'
  <2> DEFINE i == ForkOf(n, b)
  <2>1. i \in 1..(K + 1) /\ i # K + 1
    BY <1>2, <1>8
  <2>2. nodes'[BranchAt(n, b)].parent = PieceAt(n, i) /\ BranchAt(n, b) \in DOMAIN nodes'
    BY <1>4
  <2>3. PieceAt(n, i) # None
    <3>1. PieceAt(n, i) \in Nat \ {0}
      BY <1>3, <2>1
    <3> QED BY <1>2, <3>1
  <2>4. BranchAt(n, b) \in BranchesAt(n, new, i)
    BY <1>1 DEF BranchesAt, new
  <2> HIDE DEF i
  <2>5. BranchAt(n, b) \in nodes'[PieceAt(n, i)].children
    <3>1. nodes'[PieceAt(n, i)].children = {PieceAt(n, i + 1)} \cup BranchesAt(n, new, i)
      BY <1>4, <2>1
    <3> QED BY <2>4, <3>1
  <2> QED BY <1>9, <2>2, <2>3, <2>5
<1>16. ASSUME NEW m \in Tree'
       PROVE  \/ m \in Tree /\ m # n
              \/ \E i \in 1..(K + 1) : m = PieceAt(n, i)
              \/ \E b \in 1..Len(new) : m = BranchAt(n, b)
  <2>1. CASE m \in DOMAIN nodes
    <3>1. CASE m = n
      <4>1. n = Root
        BY <1>13, <3>1
      <4> QED BY <1>2, <1>6, <3>1, <4>1
    <3> QED BY <1>12, <2>1, <3>1
  <2>2. CASE m \notin DOMAIN nodes
    <3>1. m \in Objects(n, new)
      <4>1. Root \in DOMAIN nodes
        BY <1>1, NodeFacts
      <4> QED BY <1>4, <1>9, <2>2, <4>1
    <3>2. ASSUME NEW i \in 1..(K + 1), m = L + i PROVE m = PieceAt(n, i)
      <4>1. CASE n # Root
        BY <1>7, <3>2, <4>1
      <4>2. CASE n = Root /\ i # 1
        BY <3>2, <4>2 DEF PieceAt, L
      <4>3. CASE n = Root /\ i = 1
        <5>1. nodes'[m].parent = nodes[n].parent /\ nodes[n].parent = None
          BY <1>1, <1>4, <1>5, <3>2, <4>3
        <5>2. m # Root
          BY <1>1, <2>2, <4>3
        <5> QED BY <1>9, <5>1, <5>2
      <4> QED BY <4>1, <4>2, <4>3
    <3> QED BY <1>3, <2>2, <3>1, <3>2
  <2> QED BY <2>1, <2>2
<1>17. /\ \A m : m \in Leaves' <=> m \in Tree' /\ nodes'[m].leaf /\ nodes'[m].children = {}
       /\ \A m : m \in Leaves <=> m \in Tree /\ nodes[m].leaf /\ nodes[m].children = {}
  BY DEF Leaves, IsLeaf
<1>18. ASSUME NEW m \in DOMAIN nodes, m # n
       PROVE  m \in Leaves' <=> m \in Leaves
  <2>1. ~(n = Root /\ m = Root)
    BY <1>18
  <2>2. CASE n # Root /\ m = nodes[n].parent
    <3>1. nodes'[m].children # {} /\ nodes[m].children # {}
      <4>1. m \in Nat
        BY <1>1, NodeFacts
      <4>2. PieceAt(n, 1) \in Nat
        BY <1>2, <1>3
      <4>3. PieceAt(n, 1) \in nodes'[m].children /\ n \in nodes[m].children
        BY <1>1, <1>4a, <2>2, <4>2
      <4> QED BY <4>3
    <3> QED BY <1>17, <3>1
  <2>3. CASE ~(n # Root /\ m = nodes[n].parent)
    <3>1. nodes'[m].children = nodes[m].children /\ nodes'[m].leaf = nodes[m].leaf
      BY <1>4, <2>1, <2>3
    <3> QED BY <1>12, <1>17, <1>18, <3>1
  <2> QED BY <2>2, <2>3
<1>19. ASSUME NEW i \in 1..(K + 1)
       PROVE  PieceAt(n, i) \in Leaves' <=> i = K + 1
  <2>1. CASE i = K + 1
    BY <1>4b, <1>14, <1>17, <2>1
  <2>2. CASE i # K + 1
    <3>1. nodes'[PieceAt(n, i)].children # {}
      <4>1. nodes'[PieceAt(n, i)].children = {PieceAt(n, i + 1)} \cup BranchesAt(n, new, i)
        BY <1>4b, <2>2
      <4> QED BY <4>1
    <3> QED BY <1>17, <2>2, <3>1
  <2> QED BY <2>1, <2>2
<1>20. \A b \in 1..Len(new) : BranchAt(n, b) \in Leaves'
  BY <1>4, <1>15, <1>17
<1>21. ASSUME NEW m \in Leaves'
       PROVE  \/ m \in Leaves /\ m # n
              \/ m = PieceAt(n, K + 1)
              \/ \E b \in 1..Len(new) : m = BranchAt(n, b)
  <2>1. m \in Tree'
    BY <1>17
  <2>2. m \in Tree => m \in DOMAIN nodes
    BY <1>1, TreeFacts
  <2> QED BY <1>16, <1>18, <1>19, <2>1, <2>2
<1> QED BY <1>1, <1>12, <1>13, <1>14, <1>15, <1>16, <1>18, <1>19, <1>20, <1>21 DEF K
\* Where an object comes from, and what Grow left alone.
Old(n, m) == m \in DOMAIN nodes /\ ~(n = Root /\ m = Root)

LEMMA GrownObjects ==
  ASSUME NEW n, NEW f, Growing(n, f)
  PROVE  /\ \A m \in DOMAIN nodes' : \/ Old(n, m)
                                     \/ \E i \in 1..(Places(n) + 1) : m = PieceAt(n, i) \/ m = Len(nodes) + i
                                     \/ \E b \in Branched(n, f) : m = BranchAt(n, b)
         /\ \A m \in Tree' : \/ Old(n, m) /\ m \in Tree /\ m # n
                             \/ \E i \in 1..(Places(n) + 1) : m = PieceAt(n, i)
                             \/ \E b \in Branched(n, f) : m = BranchAt(n, b)
         /\ \A m \in DOMAIN nodes : m \in Tree /\ m # n => Old(n, m)
         /\ \A b \in Branched(n, f) : ForkOf(n, b) \in 1..Places(n) /\ ForkOf(n, b) \in 1..(Places(n) + 1) /\ ForkOf(n, b) # Places(n) + 1
         /\ \A m \in Tree' : m \in DOMAIN nodes'
<1> DEFINE new == NewResponses(n, f)
           K == Places(n)
<1>1. /\ TypeOK /\ HasTree /\ ShapeOK /\ ChosenOK /\ n \in DOMAIN chosen /\ n \in DOMAIN nodes /\ n \in Leaves
      /\ Len(new) \in Nat /\ DOMAIN new = 1..Len(new) /\ Branched(n, f) = 1..Len(new)
      /\ DOMAIN f = 1..Len(new) /\ n \in DOMAIN launched /\ f \in Answers(n)
  BY GrowingFacts
<1>2. /\ \A m \in DOMAIN nodes : m \in Objects(n, new)
      /\ \A m \in Objects(n, new) \ DOMAIN nodes :
              \/ \E i \in 1..(K + 1) : m = Len(nodes) + i
              \/ \E b \in 1..Len(new) : m = BranchAt(n, b)
  <2> HIDE DEF new
  <2> QED BY <1>1, ObjectFacts
<1>3. DOMAIN nodes' = Objects(n, new)
  BY GrownFields
<1>4. K \in Nat \ {0} /\ 1 \in 1..(K + 1)
  <2>1. K \in Nat \ {0}
    BY <1>1, CutsFacts
  <2> HIDE DEF K
  <2> QED BY <2>1
<1>5. PieceAt(Root, 1) = Root
  BY DEF PieceAt
<1>6. \A b \in Branched(n, f) : ForkOf(n, b) \in 1..K /\ ForkOf(n, b) \in 1..(K + 1) /\ ForkOf(n, b) # K + 1
  <2>1. \A b \in Branched(n, f) : ForkOf(n, b) \in 1..K
    BY <1>1, ForkFacts
  <2> HIDE DEF K
  <2>2. \A i \in 1..K : i \in 1..(K + 1) /\ i # K + 1
    BY <1>4
  <2> QED BY <2>1, <2>2
<1> HIDE DEF new, K
<1>7. ASSUME NEW m \in DOMAIN nodes'
      PROVE  \/ Old(n, m)
             \/ \E i \in 1..(K + 1) : m = PieceAt(n, i) \/ m = Len(nodes) + i
             \/ \E b \in Branched(n, f) : m = BranchAt(n, b)
  <2>1. CASE m \in DOMAIN nodes /\ n = Root /\ m = Root
    BY <1>4, <1>5, <2>1
  <2>2. CASE m \in DOMAIN nodes /\ ~(n = Root /\ m = Root)
    BY <2>2 DEF Old
  <2>3. CASE m \notin DOMAIN nodes
    BY <1>1, <1>2, <1>3, <2>3
  <2> QED BY <2>1, <2>2, <2>3
<1>8. \A m \in DOMAIN nodes : m \in Tree /\ m # n => Old(n, m)
  BY DEF Old
<1>9. ASSUME NEW m \in Tree'
      PROVE  /\ \/ Old(n, m) /\ m \in Tree /\ m # n
                \/ \E i \in 1..(K + 1) : m = PieceAt(n, i)
                \/ \E b \in Branched(n, f) : m = BranchAt(n, b)
             /\ m \in DOMAIN nodes'
  <2>1. \A k \in Tree : k \in DOMAIN nodes
    BY <1>1, TreeFacts
  <2>2. m = Root \/ m \in DOMAIN nodes'
    BY DEF Tree
  <2>3. m = Root => m \in DOMAIN nodes'
    BY <1>1, <1>2, <1>3, NodeFacts
  <2>4. \/ m \in Tree /\ m # n
        \/ \E i \in 1..(K + 1) : m = PieceAt(n, i)
        \/ \E b \in Branched(n, f) : m = BranchAt(n, b)
    BY GrownTree DEF K
  <2> QED BY <1>8, <2>1, <2>2, <2>3, <2>4
<1> QED BY <1>6, <1>7, <1>8, <1>9 DEF K

LEMMA GrownShape ==
  ASSUME NEW n, NEW f, Growing(n, f)
  PROVE  ShapeOK'
<1> DEFINE new == NewResponses(n, f)
           K == Places(n)
           L == Len(nodes)
           p == nodes[n].parent
<1>1. /\ TypeOK /\ HasTree /\ ShapeOK /\ ChosenOK /\ n \in DOMAIN chosen /\ n \in DOMAIN nodes /\ n \in Leaves
      /\ Len(new) \in Nat /\ DOMAIN new = 1..Len(new) /\ Branched(n, f) = 1..Len(new)
      /\ n \in Tree /\ nodes[n].children = {} /\ nodes[n].leaf
      /\ n # Root => p \in Tree /\ p \in DOMAIN nodes /\ p # n /\ n \in nodes[p].children
  BY GrowingFacts
<1>2. /\ K \in Nat \ {0} /\ 1 \in 1..(K + 1) /\ 1 # K + 1 /\ K + 1 \in 1..(K + 1) /\ None = 0 /\ Root = 1
      /\ \A i \in 1..(K + 1) : i # 1 => i - 1 \in 1..(K + 1) /\ i - 1 < i /\ i - 1 # K + 1
      /\ \A i \in 1..(K + 1) : i # K + 1 => i + 1 \in 1..(K + 1) /\ i + 1 \in 2..(K + 1) /\ i + 1 # 1 /\ (i + 1) - 1 = i
      /\ L \in Nat \ {0} /\ DOMAIN nodes = 1..L
  <2>1. K \in Nat \ {0}
    BY <1>1, CutsFacts
  <2>2. L \in Nat \ {0} /\ DOMAIN nodes = 1..L
    BY <1>1, NodeFacts
  <2> HIDE DEF K, L
  <2> QED BY <2>1, <2>2 DEF None, Root
<1>3. /\ \A i \in 1..(K + 1) : PieceAt(n, i) \in Nat \ {0} /\ PieceAt(n, i) <= L + i
      /\ \A i \in 2..(K + 1) : PieceAt(n, i) = L + i
      /\ \A i, j \in 1..(K + 1) : i < j => PieceAt(n, i) < PieceAt(n, j)
      /\ \A i \in 1..(K + 1), b \in 1..Len(new) : L + i < BranchAt(n, b) /\ PieceAt(n, i) < BranchAt(n, b)
      /\ DOMAIN nodes' = Objects(n, new) /\ \A m \in DOMAIN nodes : m \in DOMAIN nodes'
      /\ \A i \in 1..(K + 1) : PieceAt(n, i) \in DOMAIN nodes => n = Root /\ PieceAt(n, i) = Root
      /\ \A b \in 1..Len(new) : BranchAt(n, b) \notin DOMAIN nodes
  <2>1. DOMAIN nodes' = Objects(n, new)
    BY GrownFields
  <2> HIDE DEF new
  <2> QED BY <1>1, <2>1, ObjectFacts
<1>4. ASSUME NEW m, Old(n, m)
      PROVE  /\ nodes'[m].segment = nodes[m].segment /\ nodes'[m].parent = nodes[m].parent
             /\ nodes'[m].leaf = nodes[m].leaf
             /\ nodes'[m].children = IF n # Root /\ m = p
                                     THEN Swapped(nodes[m].children, n, PieceAt(n, 1)) ELSE nodes[m].children
  BY <1>4, GrownFields DEF Old
<1>5. ASSUME NEW i \in 1..(K + 1)
      PROVE  PieceFields(n, new, i, PieceAt(n, i)) /\ PieceFields(n, new, i, L + i)
  BY GrownFields
<1>6. ASSUME NEW b \in 1..Len(new)
      PROVE  /\ BranchAt(n, b) \in DOMAIN nodes'
             /\ nodes'[BranchAt(n, b)].parent = PieceAt(n, ForkOf(n, b))
             /\ nodes'[BranchAt(n, b)].leaf
             /\ nodes'[BranchAt(n, b)].children = {}
  BY <1>1, GrownFields
<1>7. /\ \A m \in DOMAIN nodes' : \/ Old(n, m)
                                  \/ \E i \in 1..(K + 1) : m = PieceAt(n, i) \/ m = L + i
                                  \/ \E b \in 1..Len(new) : m = BranchAt(n, b)
      /\ \A m \in Tree' : \/ Old(n, m) /\ m \in Tree /\ m # n
                          \/ \E i \in 1..(K + 1) : m = PieceAt(n, i)
                          \/ \E b \in 1..Len(new) : m = BranchAt(n, b)
      /\ \A m \in DOMAIN nodes : m \in Tree /\ m # n => Old(n, m)
      /\ \A b \in 1..Len(new) : ForkOf(n, b) \in 1..K /\ ForkOf(n, b) \in 1..(K + 1) /\ ForkOf(n, b) # K + 1
  BY <1>1, GrownObjects
<1>8. /\ \A m \in DOMAIN nodes : m # n => (m \in Tree' <=> m \in Tree)
      /\ \A i \in 1..(K + 1) : PieceAt(n, i) \in Tree'
      /\ \A b \in 1..Len(new) : BranchAt(n, b) \in Tree'
      /\ \A m \in DOMAIN nodes : m # n => (m \in Leaves' <=> m \in Leaves)
      /\ \A i \in 1..(K + 1) : PieceAt(n, i) \in Leaves' <=> i = K + 1
      /\ \A b \in 1..Len(new) : BranchAt(n, b) \in Leaves'
  BY <1>1, GrownTree
<1>9. /\ \A m \in Tree' : m \in Leaves' <=> IsLeaf(m)'
      /\ \A m \in Tree : m \in Leaves <=> IsLeaf(m)
  BY DEF Leaves
<1>10. \A q \in DOMAIN nodes : q \in Tree /\ q \notin Leaves => q # n /\ q \in Tree' /\ q \notin Leaves'
  BY <1>1, <1>8
<1> HIDE DEF K, L, new, p
<1>12. ASSUME NEW m, Old(n, m)
       PROVE  /\ nodes'[m].leaf <=> nodes'[m].children = {}
              /\ nodes'[m].parent # None =>
                   nodes'[m].parent \in Tree' /\ nodes'[m].parent < m /\ nodes'[m].parent \notin Leaves'
              /\ \A c \in nodes'[m].children : c \in DOMAIN nodes' /\ m < c
  <2>1. m \in DOMAIN nodes
    BY <1>12 DEF Old
  <2>2. /\ nodes[m].leaf <=> nodes[m].children = {}
        /\ nodes[m].parent # None =>
             nodes[m].parent \in Tree /\ nodes[m].parent < m /\ nodes[m].parent \notin Leaves
        /\ \A c \in nodes[m].children : c \in DOMAIN nodes /\ m < c
    BY <1>1, <2>1 DEF ShapeOK
  <2>3. nodes[m].parent # None => nodes[m].parent \in DOMAIN nodes
    BY <1>1, <2>2, TreeFacts
  <2>4. nodes'[m].parent = nodes[m].parent /\ nodes'[m].leaf = nodes[m].leaf
    BY <1>4, <1>12
  <2>5. nodes'[m].parent # None =>
             nodes'[m].parent \in Tree' /\ nodes'[m].parent < m /\ nodes'[m].parent \notin Leaves'
    <3> DEFINE q == nodes[m].parent
    <3>1. SUFFICES ASSUME q # None PROVE q \in Tree' /\ q < m /\ q \notin Leaves'
      BY <2>4, Zenon
    <3>2. q \in Tree /\ q \in DOMAIN nodes /\ q < m /\ q \notin Leaves
      BY <2>2, <2>3, <3>1, Zenon
    <3> HIDE DEF q
    <3> QED BY <1>10, <3>2
  <2>6. CASE n # Root /\ m = p
    <3>1. nodes'[m].children = Swapped(nodes[m].children, n, PieceAt(n, 1))
      BY <1>4, <1>12, <2>6
    <3>2. n \in nodes[m].children
      BY <1>1, <2>6
    <3>3. \A c : c \in nodes'[m].children <=> (c \in nodes[m].children /\ c # n) \/ c = PieceAt(n, 1)
      BY <3>1 DEF Swapped
    <3>4. m < PieceAt(n, 1) /\ PieceAt(n, 1) \in DOMAIN nodes'
      <4>1. PieceAt(n, 1) = L + 1
        BY <2>6 DEF PieceAt, L
      <4>2. m < PieceAt(n, 1)
        BY <1>2, <2>1, <4>1
      <4>3. PieceFields(n, new, 1, PieceAt(n, 1))
        BY <1>2, <1>5
      <4> QED BY <4>2, <4>3 DEF PieceFields
    <3>5. \A c \in nodes[m].children : c \in DOMAIN nodes' /\ m < c
      BY <1>3, <2>2
    <3>6. nodes'[m].leaf <=> nodes'[m].children = {}
      BY <2>2, <2>4, <3>2, <3>3
    <3> QED BY <2>5, <3>3, <3>4, <3>5, <3>6
  <2>7. CASE ~(n # Root /\ m = p)
    <3>1. nodes'[m].children = nodes[m].children
      BY <1>4, <1>12, <2>7
    <3>2. nodes'[m].leaf <=> nodes'[m].children = {}
      BY <2>2, <2>4, <3>1
    <3> QED BY <1>3, <2>2, <2>5, <3>1, <3>2
  <2> QED BY <2>6, <2>7
<1>13. ASSUME NEW i \in 1..(K + 1), NEW m, m = PieceAt(n, i) \/ m = L + i
       PROVE  /\ nodes'[m].leaf <=> nodes'[m].children = {}
              /\ nodes'[m].parent # None =>
                   nodes'[m].parent \in Tree' /\ nodes'[m].parent < m /\ nodes'[m].parent \notin Leaves'
              /\ \A c \in nodes'[m].children : c \in DOMAIN nodes' /\ m < c
  <2>1. PieceFields(n, new, i, m)
    BY <1>5, <1>13
  <2>2. /\ nodes'[m].parent = IF i = 1 THEN p ELSE PieceAt(n, i - 1)
        /\ nodes'[m].leaf <=> i = K + 1
        /\ nodes'[m].children = IF i = K + 1 THEN {} ELSE {PieceAt(n, i + 1)} \cup BranchesAt(n, new, i)
    BY <2>1 DEF PieceFields, p, K
  <2>3. m \in Nat /\ PieceAt(n, i) <= m /\ m <= L + i /\ (i # 1 => m = PieceAt(n, i))
    <3>1. i # 1 => i \in 2..(K + 1)
      BY <1>2
    <3>2. PieceAt(n, i) \in Nat /\ PieceAt(n, i) <= L + i /\ (i # 1 => PieceAt(n, i) = L + i) /\ L + i \in Nat
      BY <1>2, <1>3, <3>1
    <3> QED BY <1>13, <3>2
  <2>4. CASE i = 1
    <3>1. SUFFICES ASSUME p # None
                   PROVE  p \in Tree' /\ p < m /\ p \notin Leaves' /\ 1 = 1
      <4>1. nodes'[m].parent = p
        BY <2>2, <2>4
      <4>2. nodes'[m].leaf <=> nodes'[m].children = {}
        BY <1>2, <2>2, <2>4
      <4>3. \A c \in nodes'[m].children : c \in DOMAIN nodes' /\ m < c
        <5>1. ASSUME NEW b \in 1..Len(new) PROVE BranchAt(n, b) \in DOMAIN nodes' /\ m < BranchAt(n, b)
          <6>1. BranchAt(n, b) \in DOMAIN nodes' /\ L + i < BranchAt(n, b)
            BY <1>3, <1>6
          <6>2. m \in Int /\ L + i \in Int /\ BranchAt(n, b) \in Int
            BY <1>1, <1>2, <2>3, CutsFacts DEF BranchAt, L, K
          <6> QED BY <2>3, <6>1, <6>2
        <5>2. PieceAt(n, 2) \in DOMAIN nodes' /\ m < PieceAt(n, 2)
          <6>1. 2 \in 2..(K + 1) /\ 2 \in 1..(K + 1)
            BY <1>2
          <6>2. PieceFields(n, new, 2, PieceAt(n, 2)) /\ PieceAt(n, 2) = L + 2
            BY <1>3, <1>5, <6>1
          <6>3. m < L + 2
            BY <1>2, <2>3, <2>4
          <6> QED BY <6>2, <6>3 DEF PieceFields
        <5>3. nodes'[m].children = {PieceAt(n, 2)} \cup BranchesAt(n, new, 1)
          BY <1>2, <2>2, <2>4
        <5> QED BY <1>1, <5>1, <5>2, <5>3 DEF BranchesAt
      <4> QED BY <4>1, <4>2, <4>3
    <3>2. n # Root
      BY <1>1, <3>1 DEF ShapeOK, p
    <3>3. p \in DOMAIN nodes /\ p \in Tree /\ p \notin Leaves
      BY <1>1, <3>1, <3>2 DEF ShapeOK, p
    <3>4. p < m
      <4>1. PieceAt(n, 1) = L + 1
        BY <3>2 DEF PieceAt, L
      <4> QED BY <1>2, <2>3, <2>4, <3>3, <4>1
    <3> QED BY <1>10, <3>3, <3>4
  <2>5. CASE i # 1
    <3>1. i - 1 \in 1..(K + 1) /\ i - 1 < i /\ i - 1 # K + 1
      BY <1>2, <2>5
    <3>2. m = PieceAt(n, i) /\ nodes'[m].parent = PieceAt(n, i - 1)
      BY <2>2, <2>3, <2>5
    <3>3. PieceAt(n, i - 1) \in Tree' /\ PieceAt(n, i - 1) \notin Leaves'
      BY <1>8, <1>9, <3>1
    <3>4. PieceAt(n, i - 1) < m
      BY <1>3, <3>1, <3>2
    <3>5. ASSUME NEW c \in nodes'[m].children PROVE c \in DOMAIN nodes' /\ m < c
      <4>1. i # K + 1 /\ c \in {PieceAt(n, i + 1)} \cup BranchesAt(n, new, i)
        BY <2>2, <3>5
      <4>2. CASE c = PieceAt(n, i + 1)
        <5>1. i + 1 \in 1..(K + 1) /\ i < i + 1
          BY <1>2, <4>1
        <5>2. PieceFields(n, new, i + 1, c)
          BY <1>5, <4>2, <5>1
        <5> QED BY <1>3, <3>2, <4>2, <5>1, <5>2 DEF PieceFields
      <4>3. CASE c \in BranchesAt(n, new, i)
        <5>1. PICK b \in 1..Len(new) : c = BranchAt(n, b)
          BY <1>1, <4>3 DEF BranchesAt
        <5> QED BY <1>3, <1>6, <3>2, <5>1
      <4> QED BY <4>1, <4>2, <4>3
    <3>6. nodes'[m].leaf <=> nodes'[m].children = {}
      BY <2>2
    <3> QED BY <3>2, <3>3, <3>4, <3>5, <3>6
  <2> QED BY <2>4, <2>5
<1>14. ASSUME NEW b \in 1..Len(new), NEW m, m = BranchAt(n, b)
       PROVE  /\ nodes'[m].leaf <=> nodes'[m].children = {}
              /\ nodes'[m].parent # None =>
                   nodes'[m].parent \in Tree' /\ nodes'[m].parent < m /\ nodes'[m].parent \notin Leaves'
              /\ \A c \in nodes'[m].children : c \in DOMAIN nodes' /\ m < c
  <2> DEFINE i == ForkOf(n, b)
  <2>1. i \in 1..(K + 1) /\ i # K + 1
    BY <1>7
  <2>2. nodes'[m].parent = PieceAt(n, i) /\ nodes'[m].leaf /\ nodes'[m].children = {}
    BY <1>6, <1>14
  <2> HIDE DEF i
  <2>3. PieceAt(n, i) \in Tree' /\ PieceAt(n, i) \notin Leaves' /\ PieceAt(n, i) < m
    BY <1>3, <1>8, <1>9, <1>14, <2>1
  <2> QED BY <2>2, <2>3
<1>15. nodes'[Root].parent = None
  <2>1. CASE n = Root
    <3>1. PieceFields(n, new, 1, PieceAt(n, 1)) /\ PieceAt(n, 1) = Root /\ nodes[n].parent = None
      BY <1>1, <1>2, <1>5, <2>1 DEF PieceAt, ShapeOK
    <3> QED BY <3>1 DEF PieceFields
  <2>2. CASE n # Root
    <3>1. Old(n, Root) /\ nodes[Root].parent = None
      BY <1>1, <1>2, <2>2, NodeFacts DEF Old, ShapeOK
    <3> QED BY <1>4, <3>1
  <2> QED BY <2>1, <2>2
<1>16. ASSUME NEW m \in Tree'
       PROVE  /\ \A c \in nodes'[m].children : nodes'[c].parent = m
              /\ ~IsLeaf(m)' \/ m = Root => nodes'[m].segment # << >>
  <2>1. CASE Old(n, m) /\ m \in Tree /\ m # n
    <3>1. m \in DOMAIN nodes
      BY <2>1 DEF Old
    <3>2. /\ \A c \in nodes[m].children : c \in Tree /\ c # Root /\ nodes[c].parent = m
          /\ ~IsLeaf(m) \/ m = Root => nodes[m].segment # << >>
      BY <1>1, <2>1, TreeFacts DEF ShapeOK
    <3>3. nodes'[m].segment = nodes[m].segment
      BY <1>4, <2>1
    <3>4. ~IsLeaf(m)' \/ m = Root => nodes'[m].segment # << >>
      BY <1>8, <1>9, <2>1, <3>1, <3>2, <3>3
    <3>5. ASSUME NEW c \in nodes'[m].children PROVE nodes'[c].parent = m
      <4>1. CASE c \in nodes[m].children
        <5>1. c \in Tree /\ c # Root /\ nodes[c].parent = m /\ c \in DOMAIN nodes
          BY <1>1, <3>2, <4>1, TreeFacts
        <5>2. Old(n, c)
          BY <5>1 DEF Old
        <5> QED BY <1>4, <5>1, <5>2
      <4>2. CASE c \notin nodes[m].children
        <5>1. n # Root /\ m = p /\ c \in Swapped(nodes[m].children, n, PieceAt(n, 1))
          BY <1>4, <2>1, <3>5, <4>2
        <5>2. c = PieceAt(n, 1)
          BY <4>2, <5>1 DEF Swapped
        <5>3. PieceFields(n, new, 1, c)
          BY <1>2, <1>5, <5>2
        <5> QED BY <5>1, <5>3 DEF PieceFields, p
      <4> QED BY <4>1, <4>2
    <3> QED BY <3>4, <3>5
  <2>2. ASSUME NEW i \in 1..(K + 1), m = PieceAt(n, i)
        PROVE  /\ \A c \in nodes'[m].children : nodes'[c].parent = m
               /\ ~IsLeaf(m)' \/ m = Root => nodes'[m].segment # << >>
    <3>1. PieceFields(n, new, i, m)
      BY <1>5, <2>2
    <3>2. /\ nodes'[m].segment = PieceText(n, i)
          /\ nodes'[m].children = IF i = K + 1 THEN {} ELSE {PieceAt(n, i + 1)} \cup BranchesAt(n, new, i)
      BY <3>1 DEF PieceFields, K
    <3>3. i # K + 1 => PieceText(n, i) # << >>
      BY <1>1, PieceTexts DEF K
    <3>4. i = K + 1 => IsLeaf(m)' /\ m # Root
      <4>1. SUFFICES ASSUME i = K + 1 PROVE IsLeaf(m)' /\ m # Root
        OBVIOUS
      <4>2. m \in Leaves'
        BY <1>8, <2>2, <4>1
      <4>3. i \in 2..(K + 1)
        BY <1>2, <4>1
      <4>4. m = L + i
        BY <1>3, <2>2, <4>3
      <4>5. m # Root
        BY <1>2, <4>3, <4>4
      <4> QED BY <1>9, <4>2, <4>5
    <3>5. ASSUME NEW c \in nodes'[m].children PROVE nodes'[c].parent = m
      <4>1. i # K + 1 /\ c \in {PieceAt(n, i + 1)} \cup BranchesAt(n, new, i)
        BY <3>2, <3>5
      <4>2. CASE c = PieceAt(n, i + 1)
        <5>1. i + 1 \in 1..(K + 1) /\ i + 1 # 1 /\ (i + 1) - 1 = i
          BY <1>2, <4>1
        <5>2. PieceFields(n, new, i + 1, c)
          BY <1>5, <4>2, <5>1
        <5>3. nodes'[c].parent = PieceAt(n, (i + 1) - 1)
          BY <5>1, <5>2 DEF PieceFields
        <5> QED BY <2>2, <5>1, <5>3
      <4>3. CASE c \in BranchesAt(n, new, i)
        <5>1. PICK b \in 1..Len(new) : c = BranchAt(n, b) /\ ForkOf(n, b) = i
          BY <1>1, <4>3 DEF BranchesAt
        <5> QED BY <1>6, <2>2, <5>1
      <4> QED BY <4>1, <4>2, <4>3
    <3> QED BY <3>2, <3>3, <3>4, <3>5
  <2>3. ASSUME NEW b \in 1..Len(new), m = BranchAt(n, b)
        PROVE  /\ \A c \in nodes'[m].children : nodes'[c].parent = m
               /\ ~IsLeaf(m)' \/ m = Root => nodes'[m].segment # << >>
    <3>1. nodes'[m].children = {}
      BY <1>6, <2>3
    <3>2. IsLeaf(m)'
      BY <1>8, <1>9, <2>3
    <3>3. m # Root
      <4>1. Root \in DOMAIN nodes
        BY <1>1, NodeFacts
      <4> QED BY <1>3, <2>3, <4>1
    <3> QED BY <3>1, <3>2, <3>3
  <2> QED BY <1>7, <2>1, <2>2, <2>3
<1>17. \A m \in DOMAIN nodes' : /\ nodes'[m].leaf <=> nodes'[m].children = {}
                                /\ nodes'[m].parent # None =>
                                     nodes'[m].parent \in Tree' /\ nodes'[m].parent < m /\ nodes'[m].parent \notin Leaves'
                                /\ \A c \in nodes'[m].children : c \in DOMAIN nodes' /\ m < c
  BY <1>7, <1>12, <1>13, <1>14
<1> QED BY <1>15, <1>16, <1>17 DEF ShapeOK
LEMMA NodeTyped ==
  ASSUME NEW s \in Seq(Token), NEW p \in Nat, NEW c \in SUBSET Nat, NEW x \in FinishReasons
  PROVE  Node(s, p, c, x) \in NodeType
<1> DEFINE leaf == c = {}
<1>1. Node(s, p, c, x) = [segment |-> s, parent |-> p, children |-> c, leaf |-> leaf, finish |-> x]
  BY DEF Node
<1>2. leaf \in BOOLEAN
  OBVIOUS
<1> HIDE DEF leaf
<1> QED BY <1>1, <1>2 DEF NodeType

\* The histories after Grow.
LEMMA GrownResponses ==
  ASSUME NEW n, NEW f, Growing(n, f)
  PROVE  LET new == NewResponses(n, f)
         IN /\ responses' \in Seq(ResponseType) /\ Len(responses') = Len(responses) + Len(new)
            /\ DOMAIN responses' = 1..(Len(responses) + Len(new))
            /\ Len(responses) \in Nat /\ Len(new) \in Nat /\ DOMAIN responses = 1..Len(responses)
            /\ \A r \in DOMAIN responses : r \in DOMAIN responses' /\ responses'[r] = responses[r]
            /\ \A b \in Branched(n, f) : Len(responses) + b \in DOMAIN responses' /\ responses'[Len(responses) + b] = new[b]
                                         /\ Len(responses) + b \notin DOMAIN responses
            /\ \A r \in DOMAIN responses' : r \in DOMAIN responses \/ \E b \in Branched(n, f) : r = Len(responses) + b
<1> DEFINE new == NewResponses(n, f)
           R == Len(responses)
           M == Len(new)
<1>1. TypeOK /\ new \in Seq(ResponseType) /\ M \in Nat /\ Branched(n, f) = 1..M
  BY GrowingFacts
<1>2. responses \in Seq(ResponseType) /\ R \in Nat /\ DOMAIN responses = 1..R
  BY <1>1, ResponseFacts DEF TypeOK
<1>3. responses' = responses \o new
  BY DEF Growing
<1> HIDE DEF new
<1>4. /\ responses' \in Seq(ResponseType) /\ Len(responses') = R + M
      /\ \A r \in 1..(R + M) : responses'[r] = IF r <= R THEN responses[r] ELSE new[r - R]
  BY <1>1, <1>2, <1>3, ConcatFacts
<1>5. DOMAIN responses' = 1..(R + M)
  BY <1>4
<1> HIDE DEF R, M
<1>6. \A r \in 1..R : r \in 1..(R + M) /\ responses'[r] = responses[r]
  BY <1>1, <1>2, <1>4
<1>7. ASSUME NEW b \in 1..M
      PROVE  R + b \in 1..(R + M) /\ responses'[R + b] = new[b] /\ R + b \notin 1..R
  <2>1. R + b \in 1..(R + M) /\ ~(R + b <= R) /\ (R + b) - R = b /\ R + b \notin 1..R
    BY <1>1, <1>2
  <2> QED BY <1>4, <2>1
<1>8. ASSUME NEW r \in 1..(R + M)
      PROVE  r \in 1..R \/ \E b \in 1..M : r = R + b
  <2>1. r \notin 1..R => r - R \in 1..M /\ r = R + (r - R)
    BY <1>1, <1>2
  <2> QED BY <2>1
<1> QED BY <1>1, <1>2, <1>4, <1>5, <1>6, <1>7, <1>8 DEF new, R, M

LEMMA GrownTypes ==
  ASSUME NEW n, NEW f, Growing(n, f)
  PROVE  nodes' \in Seq(NodeType) /\ nodes' # << >>
<1> DEFINE new == NewResponses(n, f)
           K == Places(n)
           L == Len(nodes)
           N == L + (K + 1) + Len(new)
<1>1. /\ TypeOK /\ HasTree /\ ShapeOK /\ ChosenOK /\ n \in DOMAIN chosen /\ n \in DOMAIN nodes /\ n \in DOMAIN launched
      /\ Len(new) \in Nat /\ DOMAIN new = 1..Len(new) /\ Branched(n, f) = 1..Len(new) /\ f \in Answers(n)
      /\ new \in Seq(ResponseType) /\ Len(f) = Len(new)
  BY GrowingFacts
<1>2. nodes' = [m \in Objects(n, new) |-> Regrown(n, new, m)]
  <2>1. nodes' = Replace(nodes \o Pieces(n, new), n, Len(nodes) + 1)
    BY DEF Growing
  <2> HIDE DEF new
  <2> QED BY <1>1, <2>1, GrownNodes
<1>3. DOMAIN nodes' = Objects(n, new) /\ Objects(n, new) = 1..N
  BY GrownFields DEF Objects
<1>4. K \in Nat /\ L \in Nat \ {0} /\ N \in Nat \ {0}
  <2>1. K \in Nat /\ L \in Nat \ {0} /\ Len(new) \in Nat
    BY <1>1, CutsFacts, NodeFacts
  <2> HIDE DEF K, L, new
  <2> QED BY <2>1
<1>5. ASSUME NEW m, Old(n, m)
      PROVE  nodes'[m] \in NodeType
  BY <1>5, GrownFields DEF Old
<1>6. /\ \A i \in 1..(K + 1) : /\ PieceAt(n, i) \in Objects(n, new) /\ PieceAt(n, i) \in Nat
                               /\ Len(nodes) + i \in Objects(n, new)
                               /\ Regrown(n, new, Len(nodes) + i) = Piece(n, new, i)
                               /\ Regrown(n, new, PieceAt(n, i)) = Piece(n, new, i)
      /\ \A b \in 1..Len(new) : /\ BranchAt(n, b) \in Objects(n, new)
                                /\ Regrown(n, new, BranchAt(n, b)) = Branch(n, new, b)
  <2> HIDE DEF new
  <2> QED BY <1>1, ObjectFacts
<1>7. \A b \in 1..Len(new) : BranchAt(n, b) \in Nat
  <2> HIDE DEF N
  <2> QED BY <1>3, <1>4, <1>6
<1>8. nodes[n].parent \in Nat /\ nodes[n].finish \in FinishReasons
  <2>1. nodes[n] \in NodeType
    BY <1>1, NodeFacts
  <2> QED BY <2>1 DEF NodeType
<1>9. ASSUME NEW i \in 1..(K + 1)
      PROVE  Piece(n, new, i) \in NodeType
  <2> DEFINE text == PieceText(n, i)
             up == IF i = 1 THEN nodes[n].parent ELSE PieceAt(n, i - 1)
             finish == IF i = K + 1 THEN nodes[n].finish ELSE "none"
             cs == IF i = K + 1 THEN {} ELSE {PieceAt(n, i + 1)} \cup BranchesAt(n, new, i)
  <2>1. Piece(n, new, i) = Node(text, up, cs, finish)
    BY DEF Piece
  <2>2. text \in Seq(Token)
    BY <1>1, PieceTexts
  <2>3. up \in Nat
    <3> HIDE DEF K
    <3>1. i # 1 => i - 1 \in 1..(K + 1)
      BY <1>4
    <3> QED BY <1>6, <1>8, <3>1
  <2>4. finish \in FinishReasons
    BY <1>8 DEF FinishReasons
  <2>5. cs \in SUBSET Nat
    <3>1. BranchesAt(n, new, i) \subseteq Nat
      BY <1>1, <1>7 DEF BranchesAt
    <3> HIDE DEF K, new
    <3>2. i # K + 1 => i + 1 \in 1..(K + 1)
      BY <1>4
    <3> QED BY <1>6, <3>1, <3>2
  <2> HIDE DEF text, up, finish, cs
  <2> QED BY <2>1, <2>2, <2>3, <2>4, <2>5, NodeTyped
<1>10. ASSUME NEW b \in 1..Len(new)
       PROVE  Branch(n, new, b) \in NodeType
  <2>1. Branch(n, new, b) = Node(new[b].tokens, PieceAt(n, ForkOf(n, b)), {}, new[b].finish)
    BY DEF Branch
  <2>2. new[b].tokens \in Seq(Token) /\ new[b].finish \in FinishReasons
    BY <1>1, NewFacts
  <2>3. PieceAt(n, ForkOf(n, b)) \in Nat
    <3>1. ForkOf(n, b) \in 1..(K + 1)
      BY <1>1, GrownObjects
    <3> QED BY <1>6, <3>1
  <2> HIDE DEF new
  <2> QED BY <2>1, <2>2, <2>3, NodeTyped
<1>11. \A m \in 1..N : nodes'[m] \in NodeType
  <2>1. ASSUME NEW m \in 1..N PROVE nodes'[m] \in NodeType
    <3>1. \/ Old(n, m)
          \/ \E i \in 1..(K + 1) : m = PieceAt(n, i) \/ m = L + i
          \/ \E b \in 1..Len(new) : m = BranchAt(n, b)
      <4>1. m \in DOMAIN nodes'
        BY <1>3
      <4> QED BY <1>1, <4>1, GrownObjects
    <3>2. nodes'[m] = Regrown(n, new, m)
      BY <1>2, <1>3
    <3> HIDE DEF new, K, N
    <3> QED BY <1>5, <1>6, <1>9, <1>10, <3>1, <3>2 DEF L
  <2> QED BY <2>1
<1>12. nodes' \in Seq(NodeType)
  <2>1. nodes' \in [1..N -> NodeType]
    <3> HIDE DEF N, new
    <3>1. nodes' = [m \in 1..N |-> Regrown(n, new, m)]
      BY <1>2, <1>3
    <3>2. nodes' = [m \in 1..N |-> nodes'[m]]
      BY <3>1
    <3> QED BY <1>11, <3>2
  <2> HIDE DEF N
  <2> QED BY <1>4, <2>1, IsASeq
<1>13. 1 \in DOMAIN nodes'
  <2> HIDE DEF N
  <2> QED BY <1>3, <1>4
<1> QED BY <1>12, <1>13
\* Where a token of the grown tree comes from.
LEMMA TokenHome ==
  ASSUME NEW n, NEW f, Growing(n, f), NEW m \in Tree', NEW x \in Range(nodes'[m].segment)
  PROVE  \/ \E b \in Branched(n, f) : m = BranchAt(n, b) /\ x[1] = Len(responses) + b
         \/ /\ x[1] \in DOMAIN responses
            /\ \/ Old(n, m) /\ m \in Tree /\ m # n /\ x \in Range(nodes[m].segment)
               \/ \E i \in 1..(Places(n) + 1) : \E k \in DOMAIN nodes[n].segment :
                    m = PieceAt(n, i) /\ Cuts(n)[i] < k /\ k <= Cuts(n)[i + 1] /\ x = nodes[n].segment[k]
<1> DEFINE new == NewResponses(n, f)
<1>1. /\ TypeOK /\ HasTree /\ ShapeOK /\ ChosenOK /\ n \in DOMAIN chosen /\ n \in DOMAIN nodes /\ n \in DOMAIN launched
      /\ Branched(n, f) = 1..Len(new) /\ f \in Answers(n) /\ Len(f) = Len(new) /\ n \in Tree
  BY GrowingFacts
<1>2. \A k \in Tree : \A j \in DOMAIN nodes[k].segment : nodes[k].segment[j][1] \in DOMAIN responses
  BY GrowingFacts DEF TokensOK
<1>3. \/ Old(n, m) /\ m \in Tree /\ m # n
      \/ \E i \in 1..(Places(n) + 1) : m = PieceAt(n, i)
      \/ \E b \in Branched(n, f) : m = BranchAt(n, b)
  BY GrownObjects
<1>4. CASE Old(n, m) /\ m \in Tree /\ m # n
  <2>1. nodes'[m].segment = nodes[m].segment
    BY <1>4, GrownFields DEF Old
  <2>2. x \in Range(nodes[m].segment)
    BY <2>1
  <2>3. x[1] \in DOMAIN responses
    BY <1>2, <1>4, <2>2 DEF Range
  <2> QED BY <1>4, <2>2, <2>3
<1>5. ASSUME NEW i \in 1..(Places(n) + 1), m = PieceAt(n, i)
      PROVE  /\ x[1] \in DOMAIN responses
             /\ \E k \in DOMAIN nodes[n].segment :
                  Cuts(n)[i] < k /\ k <= Cuts(n)[i + 1] /\ x = nodes[n].segment[k]
  <2> DEFINE s == nodes[n].segment
             c == Cuts(n)[i]
             d == Cuts(n)[i + 1]
             t == PieceText(n, i)
  <2>1. PieceFields(n, new, i, m)
    BY <1>5, GrownFields
  <2>2. nodes'[m].segment = t
    BY <2>1 DEF PieceFields
  <2>3. /\ t \in Seq(Token) /\ s \in Seq(Token) /\ c \in Nat /\ d \in Nat /\ c <= d /\ Len(t) = d - c /\ d <= Len(s)
        /\ \A k \in 1..(d - c) : t[k] = s[c + k] /\ c + k \in 1..Len(s)
    BY <1>1, PieceTexts
  <2> HIDE DEF s, c, d, t
  <2>4. PICK j \in DOMAIN t : x = t[j]
    BY <2>2 DEF Range
  <2>5. j \in 1..(d - c) /\ c + j \in DOMAIN s
    BY <2>3
  <2>6. c < c + j /\ c + j <= d /\ x = s[c + j]
    BY <2>3, <2>4, <2>5
  <2>7. x[1] \in DOMAIN responses
    BY <1>1, <1>2, <2>5, <2>6 DEF s
  <2> QED BY <2>5, <2>6, <2>7 DEF s, c, d
<1>6. ASSUME NEW b \in Branched(n, f), m = BranchAt(n, b)
      PROVE  x[1] = Len(responses) + b
  <2>1. nodes'[m].segment = new[b].tokens
    BY <1>6, GrownFields
  <2>2. new[b].tokens = [j \in 1..f[b] |-> <<Len(responses) + b, j>>]
    BY <1>1, NewFacts
  <2> HIDE DEF new
  <2>3. PICK j \in 1..f[b] : x = <<Len(responses) + b, j>>
    BY <2>1, <2>2 DEF Range
  <2> QED BY <2>3
<1> QED BY <1>3, <1>4, <1>5, <1>6

LEMMA GrownTokens ==
  ASSUME NEW n, NEW f, Growing(n, f)
  PROVE  TokensOK'
<1> DEFINE new == NewResponses(n, f)
           s == nodes[n].segment
<1>1. /\ TypeOK /\ HasTree /\ ShapeOK /\ ChosenOK /\ n \in DOMAIN chosen /\ n \in DOMAIN nodes /\ n \in DOMAIN launched
      /\ Branched(n, f) = 1..Len(new) /\ f \in Answers(n) /\ Len(f) = Len(new) /\ n \in Tree
  BY GrowingFacts
<1>2. /\ \A k \in Tree : /\ IsInjective(nodes[k].segment)
                         /\ \A j \in DOMAIN nodes[k].segment : nodes[k].segment[j][1] \in DOMAIN responses
      /\ \A k, m \in Tree : m # k => Range(nodes[m].segment) \cap Range(nodes[k].segment) = {}
  BY GrowingFacts DEF TokensOK
<1>3. /\ \A r \in DOMAIN responses : r \in DOMAIN responses'
      /\ \A b \in Branched(n, f) : Len(responses) + b \in DOMAIN responses' /\ Len(responses) + b \notin DOMAIN responses
      /\ Len(responses) \in Nat
  BY GrownResponses
<1>4. \A j, k \in DOMAIN s : s[j] = s[k] => j = k
  BY <1>1, <1>2 DEF IsInjective
<1>5. ASSUME NEW m \in Tree'
      PROVE  /\ IsInjective(nodes'[m].segment)
             /\ \A j \in DOMAIN nodes'[m].segment : nodes'[m].segment[j][1] \in DOMAIN responses'
  <2>1. \/ Old(n, m) /\ m \in Tree /\ m # n
        \/ \E i \in 1..(Places(n) + 1) : m = PieceAt(n, i)
        \/ \E b \in Branched(n, f) : m = BranchAt(n, b)
    BY GrownObjects
  <2>2. \A j \in DOMAIN nodes'[m].segment : nodes'[m].segment[j][1] \in DOMAIN responses'
    <3>1. SUFFICES ASSUME NEW j \in DOMAIN nodes'[m].segment
                   PROVE  nodes'[m].segment[j][1] \in DOMAIN responses'
      OBVIOUS
    <3> DEFINE x == nodes'[m].segment[j]
    <3>2. x \in Range(nodes'[m].segment)
      BY DEF Range
    <3>3. x[1] \in DOMAIN responses \/ \E b \in Branched(n, f) : x[1] = Len(responses) + b
      <4> HIDE DEF x
      <4> QED BY <3>2, TokenHome
    <3> QED BY <1>3, <3>3
  <2>3. CASE Old(n, m) /\ m \in Tree /\ m # n
    <3>1. nodes'[m].segment = nodes[m].segment
      BY <2>3, GrownFields DEF Old
    <3> QED BY <1>2, <2>2, <2>3, <3>1
  <2>4. ASSUME NEW i \in 1..(Places(n) + 1), m = PieceAt(n, i)
        PROVE  IsInjective(nodes'[m].segment)
    <3> DEFINE c == Cuts(n)[i]
               d == Cuts(n)[i + 1]
               t == PieceText(n, i)
    <3>1. PieceFields(n, new, i, m)
      BY <2>4, GrownFields
    <3>2. nodes'[m].segment = t
      BY <3>1 DEF PieceFields
    <3>3. /\ t \in Seq(Token) /\ s \in Seq(Token) /\ c \in Nat /\ d \in Nat /\ c <= d /\ Len(t) = d - c /\ d <= Len(s)
          /\ \A k \in 1..(d - c) : t[k] = s[c + k] /\ c + k \in 1..Len(s)
      BY <1>1, PieceTexts
    <3> HIDE DEF s, c, d, t
    <3>4. ASSUME NEW j \in DOMAIN t, NEW k \in DOMAIN t, t[j] = t[k] PROVE j = k
      <4>1. j \in 1..(d - c) /\ k \in 1..(d - c)
        BY <3>3
      <4>2. s[c + j] = s[c + k] /\ c + j \in DOMAIN s /\ c + k \in DOMAIN s
        BY <3>3, <3>4, <4>1
      <4>3. c + j = c + k
        BY <1>4, <4>2
      <4> QED BY <3>3, <4>1, <4>3
    <3> QED BY <3>2, <3>4 DEF IsInjective
  <2>5. ASSUME NEW b \in Branched(n, f), m = BranchAt(n, b)
        PROVE  IsInjective(nodes'[m].segment)
    <3>1. nodes'[m].segment = new[b].tokens
      BY <2>5, GrownFields
    <3>2. new[b].tokens = [j \in 1..f[b] |-> <<Len(responses) + b, j>>]
      BY <1>1, NewFacts
    <3> HIDE DEF new
    <3> QED BY <3>1, <3>2 DEF IsInjective
  <2> QED BY <2>1, <2>2, <2>3, <2>4, <2>5
<1>6. ASSUME NEW m \in Tree', NEW k \in Tree', NEW x, x \in Range(nodes'[m].segment), x \in Range(nodes'[k].segment)
      PROVE  m = k
  <2> DEFINE R == Len(responses)
             FromBranch(q) == \E b \in Branched(n, f) : q = BranchAt(n, b) /\ x[1] = R + b
             FromOld(q) == Old(n, q) /\ q \in Tree /\ q # n /\ x \in Range(nodes[q].segment)
             FromPiece(q) == \E i \in 1..(Places(n) + 1) : \E j \in DOMAIN s :
                    q = PieceAt(n, i) /\ Cuts(n)[i] < j /\ j <= Cuts(n)[i + 1] /\ x = s[j]
  <2>1. /\ FromBranch(m) \/ (x[1] \in DOMAIN responses /\ (FromOld(m) \/ FromPiece(m)))
        /\ FromBranch(k) \/ (x[1] \in DOMAIN responses /\ (FromOld(k) \/ FromPiece(k)))
    <3> HIDE DEF R
    <3> QED BY <1>6, TokenHome DEF R
  <2>2. CASE x[1] \notin DOMAIN responses
    <3>1. PICK a \in Branched(n, f) : m = BranchAt(n, a) /\ x[1] = R + a
      BY <2>1, <2>2
    <3>2. PICK b \in Branched(n, f) : k = BranchAt(n, b) /\ x[1] = R + b
      BY <2>1, <2>2
    <3>3. a = b
      <4>1. a \in Int /\ b \in Int /\ R \in Int
        BY <1>1, <1>3
      <4> HIDE DEF R
      <4> QED BY <3>1, <3>2, <4>1
    <3> QED BY <3>1, <3>2, <3>3
  <2>3. CASE x[1] \in DOMAIN responses
    <3>1. ~FromBranch(m) /\ ~FromBranch(k)
      BY <1>3, <2>3
    <3> HIDE DEF FromBranch, FromOld, FromPiece
    <3>2. (FromOld(m) \/ FromPiece(m)) /\ (FromOld(k) \/ FromPiece(k))
      BY <2>1, <3>1
    <3>3. ASSUME NEW p, NEW q, FromOld(p), FromOld(q) PROVE p = q
      BY <1>2, <3>3 DEF FromOld
    <3>4. ASSUME NEW p, NEW q, FromOld(p), FromPiece(q) PROVE FALSE
      <4>1. x \in Range(s)
        BY <3>4 DEF FromPiece, Range
      <4>2. x \in Range(nodes[p].segment) /\ p \in Tree /\ p # n
        BY <3>4 DEF FromOld
      <4> QED BY <1>1, <1>2, <4>1, <4>2
    <3>5. ASSUME NEW p, NEW q, FromPiece(p), FromPiece(q) PROVE p = q
      <4>1. PICK i1 \in 1..(Places(n) + 1), j1 \in DOMAIN s :
              p = PieceAt(n, i1) /\ Cuts(n)[i1] < j1 /\ j1 <= Cuts(n)[i1 + 1] /\ x = s[j1]
        BY <3>5 DEF FromPiece
      <4>2. PICK i2 \in 1..(Places(n) + 1), j2 \in DOMAIN s :
              q = PieceAt(n, i2) /\ Cuts(n)[i2] < j2 /\ j2 <= Cuts(n)[i2 + 1] /\ x = s[j2]
        BY <3>5 DEF FromPiece
      <4>3. j1 = j2
        BY <1>4, <4>1, <4>2
      <4>4. ASSUME NEW i \in 1..(Places(n) + 1), NEW j \in 1..(Places(n) + 1), i < j,
                   j1 <= Cuts(n)[i + 1], Cuts(n)[j] < j1
            PROVE  FALSE
        <5>1. Cuts(n)[i + 1] \in Nat /\ Cuts(n)[j] \in Nat /\ j1 \in Int
          <6>1. s \in Seq(Token)
            BY <1>1, NodeFacts
          <6>2. j1 \in Int
            <7> HIDE DEF s
            <7> QED BY <6>1
          <6> QED BY <1>1, <6>2, PieceTexts
        <5>2. Cuts(n)[i + 1] <= Cuts(n)[j]
          <6>1. Places(n) \in Nat
            BY <1>1, CutsFacts
          <6>2. i + 1 = j \/ (i + 1 \in 1..(Places(n) + 1) /\ i + 1 < j)
            BY <4>4, <6>1
          <6>3. i + 1 \in 1..(Places(n) + 1) /\ i + 1 < j => Cuts(n)[i + 1] < Cuts(n)[j]
            BY <1>1, CutsFacts
          <6> QED BY <5>1, <6>2, <6>3
        <5> QED BY <4>4, <5>1, <5>2
      <4>5. i1 \in Int /\ i2 \in Int
        OBVIOUS
      <4>6. ~(i1 < i2) /\ ~(i2 < i1)
        BY <4>1, <4>2, <4>3, <4>4
      <4>7. i1 = i2
        BY <4>5, <4>6
      <4> QED BY <4>1, <4>2, <4>7
    <3> QED BY <3>2, <3>3, <3>4, <3>5
  <2> QED BY <2>2, <2>3
<1>7. \A m, k \in Tree' : m # k => Range(nodes'[m].segment) \cap Range(nodes'[k].segment) = {}
  BY <1>6
<1> QED BY <1>5, <1>7 DEF TokensOK
\* The first tokens of a text.
LEMMA FirstTokens ==
  ASSUME NEW S, NEW s \in Seq(S), NEW c \in 0..Len(s)
  PROVE  /\ SubSeq(s, 1, c) \in Seq(S) /\ Len(SubSeq(s, 1, c)) = c /\ c \in Nat
         /\ \A k \in 1..c : SubSeq(s, 1, c)[k] = s[k] /\ k \in 1..Len(s)
<1>1. Len(s) \in Nat /\ \A k \in 1..Len(s) : s[k] \in S
  BY ElementOfSeq
<1>2. c \in Nat /\ \A k \in 1..c : k \in 1..Len(s)
  BY <1>1
<1>3. /\ SubSeq(s, 1, c) \in Seq(S) /\ Len(SubSeq(s, 1, c)) = (IF 1 <= c THEN c - 1 + 1 ELSE 0)
      /\ \A k \in 1..(c - 1 + 1) : SubSeq(s, 1, c)[k] = s[1 + k - 1]
  BY <1>1, <1>2, SubSeqProperties
<1>4. c - 1 + 1 = c /\ (~(1 <= c) => c = 0) /\ \A k \in 1..c : 1 + k - 1 = k
  BY <1>2
<1> QED BY <1>2, <1>3, <1>4

\* The tokens before the i-th piece of a leaf.
Ahead(above, n, i) == above[n] \o SubSeq(nodes[n].segment, 1, Cuts(n)[i])

LEMMA AheadFacts ==
  ASSUME TypeOK, HasTree, ShapeOK, ChosenOK, NEW n \in DOMAIN chosen, NEW above \in [DOMAIN nodes -> Seq(Token)]
  PROVE  /\ above[n] \in Seq(Token) /\ Ahead(above, n, 1) = above[n]
         /\ Ahead(above, n, Places(n) + 2) = above[n] \o nodes[n].segment
         /\ \A i \in 1..(Places(n) + 2) : /\ Ahead(above, n, i) \in Seq(Token)
                                          /\ Len(Ahead(above, n, i)) = Len(above[n]) + Cuts(n)[i]
         /\ \A i \in 1..(Places(n) + 1) : Ahead(above, n, i) \o PieceText(n, i) = Ahead(above, n, i + 1)
<1> DEFINE s == nodes[n].segment
           K == Places(n)
<1>1. n \in DOMAIN nodes /\ s \in Seq(Token) /\ above[n] \in Seq(Token)
  BY NodeFacts DEF TypeOK
<1>2. /\ K \in Nat \ {0} /\ Len(s) \in Nat /\ Cuts(n)[1] = 0 /\ Cuts(n)[K + 2] = Len(s)
      /\ \A i \in 1..(K + 2) : Cuts(n)[i] \in 0..Len(s)
  BY CutsFacts
<1>3. \A i \in 1..(K + 1) : Cuts(n)[i] <= Cuts(n)[i + 1] /\ Cuts(n)[i] \in Nat
  BY PieceTexts
<1>4. \A i : Ahead(above, n, i) = above[n] \o SubSeq(s, 1, Cuts(n)[i])
  BY DEF Ahead
<1>5. \A i : PieceText(n, i) = SubSeq(s, Cuts(n)[i] + 1, Cuts(n)[i + 1])
  BY DEF PieceText
<1> HIDE DEF s, K
<1>6. Ahead(above, n, 1) = above[n]
  <2>1. SubSeq(s, 1, 0) = << >>
    BY SubSeqEmpty
  <2>2. Ahead(above, n, 1) = above[n] \o << >>
    BY <1>2, <1>4, <2>1
  <2>3. above[n] \o << >> = above[n]
    BY <1>1, ConcatEmptySeq
  <2> QED BY <2>2, <2>3
<1>7. Ahead(above, n, K + 2) = above[n] \o s
  BY <1>1, <1>2, <1>4, SubSeqFull
<1>8. ASSUME NEW i \in 1..(K + 2)
      PROVE  /\ Ahead(above, n, i) \in Seq(Token)
             /\ Len(Ahead(above, n, i)) = Len(above[n]) + Cuts(n)[i]
  <2>1. SubSeq(s, 1, Cuts(n)[i]) \in Seq(Token) /\ Len(SubSeq(s, 1, Cuts(n)[i])) = Cuts(n)[i]
    BY <1>1, <1>2, FirstTokens
  <2> DEFINE a == above[n]
             t == SubSeq(s, 1, Cuts(n)[i])
  <2>2. a \in Seq(Token) /\ t \in Seq(Token) /\ Len(t) = Cuts(n)[i] /\ Ahead(above, n, i) = a \o t
    BY <1>1, <1>4, <2>1
  <2> HIDE DEF a, t
  <2>3. a \o t \in Seq(Token) /\ Len(a \o t) = Len(a) + Len(t)
    BY <2>2, ConcatProperties
  <2> QED BY <2>2, <2>3 DEF a
<1>9. ASSUME NEW i \in 1..(K + 1)
      PROVE  Ahead(above, n, i) \o PieceText(n, i) = Ahead(above, n, i + 1)
  <2> DEFINE c == Cuts(n)[i]
             d == Cuts(n)[i + 1]
  <2>1. c \in 0..Len(s) /\ d \in 0..Len(s) /\ c <= d
    <3>1. i \in 1..(K + 2) /\ i + 1 \in 1..(K + 2)
      BY <1>2
    <3> QED BY <1>2, <1>3, <3>1
  <2> HIDE DEF c, d
  <2>2. 1 \in 1..(Len(s) + 1) /\ c \in (1 - 1)..Len(s) /\ d \in c..Len(s)
    BY <1>2, <2>1
  <2>3. SubSeq(s, 1, c) \o SubSeq(s, c + 1, d) = SubSeq(s, 1, d)
    BY <1>1, <2>2, ConcatAdjacentSubSeq
  <2>4. SubSeq(s, 1, c) \in Seq(Token)
    BY <1>1, <2>1, FirstTokens
  <2>5. SubSeq(s, c + 1, d) \in Seq(Token)
    <3>1. PieceText(n, i) \in Seq(Token)
      BY PieceTexts DEF K
    <3> QED BY <1>5, <3>1 DEF c, d
  <2>6. (above[n] \o SubSeq(s, 1, c)) \o SubSeq(s, c + 1, d) = above[n] \o (SubSeq(s, 1, c) \o SubSeq(s, c + 1, d))
    <3> DEFINE a == above[n]
               t == SubSeq(s, 1, c)
               u == SubSeq(s, c + 1, d)
    <3>1. a \in Seq(Token) /\ t \in Seq(Token) /\ u \in Seq(Token)
      BY <1>1, <2>4, <2>5
    <3> HIDE DEF a, t, u
    <3>2. (a \o t) \o u = a \o (t \o u)
      BY <3>1, ConcatAssociative
    <3> QED BY <3>2 DEF a, t, u
  <2> QED BY <1>4, <1>5, <2>3, <2>6 DEF c, d
<1> QED BY <1>1, <1>6, <1>7, <1>8, <1>9 DEF s, K

LEMMA GrownLinks ==
  ASSUME NEW n, NEW f, Growing(n, f)
  PROVE  \E above, own : Links(above, own)'
<1> DEFINE new == NewResponses(n, f)
           K == Places(n)
           L == Len(nodes)
           R == Len(responses)
           p == nodes[n].parent
<1>1. /\ TypeOK /\ HasTree /\ ShapeOK /\ ChosenOK /\ n \in DOMAIN chosen /\ n \in DOMAIN nodes /\ n \in DOMAIN launched
      /\ n \in Leaves /\ Len(new) \in Nat /\ DOMAIN new = 1..Len(new) /\ Branched(n, f) = 1..Len(new) /\ f \in Answers(n)
      /\ Len(f) = Len(new) /\ n \in Tree /\ ResponsesOK
      /\ n # Root => p \in Tree /\ p \in DOMAIN nodes /\ p # n /\ n \in nodes[p].children
  BY GrowingFacts
<1>2. PICK above, own : Links(above, own)
  BY DEF Growing, GrowthOK
<1>3. /\ above \in [DOMAIN nodes -> Seq(Token)] /\ own \in [Leaves -> DOMAIN responses]
      /\ IsAbove(above) /\ IsLaunched(above) /\ Owns(above, own)
      /\ \A m, k \in Leaves : own[m] = own[k] => m = k
      /\ \A r \in DOMAIN responses : \E k \in Leaves : own[k] = r
  BY <1>2 DEF Links
<1>4. /\ K \in Nat \ {0} /\ L \in Nat \ {0} /\ DOMAIN nodes = 1..L /\ None = 0 /\ Root = 1
      /\ 1 \in 1..(K + 1) /\ K + 1 \in 1..(K + 1) /\ 1 \in 1..(K + 2)
      /\ \A i \in 1..(K + 1) : i \in 1..(K + 2) /\ (i # 1 => i - 1 \in 1..(K + 1) /\ (i - 1) + 1 = i)
      /\ (K + 1) + 1 = K + 2 /\ \A i \in 1..K : i \in 1..(K + 1) /\ i + 1 \in 1..(K + 2)
  <2>1. K \in Nat \ {0} /\ L \in Nat \ {0} /\ DOMAIN nodes = 1..L
    BY <1>1, CutsFacts, NodeFacts
  <2> HIDE DEF K, L
  <2> QED BY <2>1 DEF None, Root
<1>5. /\ \A i \in 1..(K + 1) : /\ PieceAt(n, i) \in Nat \ {0} /\ L + i \notin DOMAIN nodes
                               /\ PieceAt(n, i) \in DOMAIN nodes => n = Root /\ PieceAt(n, i) = Root
      /\ \A b \in 1..Len(new) : BranchAt(n, b) \notin DOMAIN nodes
      /\ \A i \in 1..(K + 1), b \in 1..Len(new) : PieceAt(n, i) < BranchAt(n, b)
  <2> HIDE DEF new
  <2> QED BY <1>1, ObjectFacts
<1>6. /\ \A m \in DOMAIN nodes' : \/ Old(n, m)
                                  \/ \E i \in 1..(K + 1) : m = PieceAt(n, i) \/ m = L + i
                                  \/ \E b \in 1..Len(new) : m = BranchAt(n, b)
      /\ \A m \in DOMAIN nodes : m \in Tree /\ m # n => Old(n, m)
      /\ \A b \in 1..Len(new) : ForkOf(n, b) \in 1..K
      /\ \A m \in Tree' : m \in DOMAIN nodes'
  BY <1>1, GrownObjects
<1>7. /\ \A m \in DOMAIN nodes : m # n => (m \in Leaves' <=> m \in Leaves)
      /\ PieceAt(n, K + 1) \in Leaves'
      /\ \A b \in 1..Len(new) : BranchAt(n, b) \in Leaves'
      /\ \A m \in Leaves' : \/ m \in Leaves /\ m # n
                            \/ m = PieceAt(n, K + 1)
                            \/ \E b \in 1..Len(new) : m = BranchAt(n, b)
  BY <1>1, <1>4, GrownTree
<1>8. /\ R \in Nat /\ DOMAIN responses = 1..R
      /\ \A r \in DOMAIN responses : r \in DOMAIN responses' /\ responses'[r] = responses[r]
      /\ \A b \in 1..Len(new) : R + b \in DOMAIN responses' /\ responses'[R + b] = new[b] /\ R + b \notin DOMAIN responses
      /\ \A r \in DOMAIN responses' : r \in DOMAIN responses \/ \E b \in 1..Len(new) : r = R + b
  BY <1>1, GrownResponses
<1>9. \A m : Old(n, m) => /\ m \in DOMAIN nodes'
                          /\ nodes'[m].segment = nodes[m].segment /\ nodes'[m].parent = nodes[m].parent
                          /\ nodes'[m].finish = nodes[m].finish
  <2>1. ASSUME NEW m, Old(n, m) PROVE m \in DOMAIN nodes'
    <3>1. m \in DOMAIN nodes /\ DOMAIN nodes' = Objects(n, new)
      BY <2>1, GrownFields DEF Old
    <3> HIDE DEF new
    <3> QED BY <1>1, <3>1, ObjectFacts
  <2> QED BY <2>1, GrownFields DEF Old
<1>10. \A i \in 1..(K + 1) : PieceFields(n, new, i, PieceAt(n, i)) /\ PieceFields(n, new, i, L + i)
  BY GrownFields
<1>11. \A b \in 1..Len(new) :
         /\ BranchAt(n, b) \in DOMAIN nodes'
         /\ nodes'[BranchAt(n, b)].segment = new[b].tokens
         /\ nodes'[BranchAt(n, b)].parent = PieceAt(n, ForkOf(n, b))
         /\ nodes'[BranchAt(n, b)].finish = new[b].finish
  BY <1>1, GrownFields
<1>12. \A b \in 1..Len(new) : new[b].context = launched[n][ForkOf(n, b)] /\ new[b].context \in Seq(Token)
  <2>1. \A b \in 1..Len(f) : new[b].context = launched[n][ForkOf(n, b)] /\ new[b].context \in Seq(Token)
    BY <1>1, NewFacts
  <2>2. Len(f) = Len(new)
    BY <1>1
  <2> HIDE DEF new
  <2> QED BY <2>1, <2>2
<1>13. /\ above[n] \in Seq(Token) /\ Ahead(above, n, 1) = above[n]
       /\ Ahead(above, n, K + 2) = above[n] \o nodes[n].segment
       /\ \A i \in 1..(K + 2) : Ahead(above, n, i) \in Seq(Token)
       /\ \A i \in 1..(K + 1) : Ahead(above, n, i) \o PieceText(n, i) = Ahead(above, n, i + 1)
  BY <1>1, <1>3, AheadFacts
<1>14. \A i \in 1..K : launched[n][i] = Ahead(above, n, i + 1)
  <2>1. DOMAIN chosen[n] = 1..K /\ \A i \in 1..K : Cuts(n)[i + 1] = chosen[n][i]
    BY <1>1, CutsFacts
  <2>2. launched[n] = [i \in DOMAIN chosen[n] |-> above[n] \o SubSeq(nodes[n].segment, 1, chosen[n][i])]
    BY <1>1, <1>3 DEF IsLaunched
  <2> HIDE DEF K
  <2>3. ASSUME NEW i \in 1..K PROVE launched[n][i] = Ahead(above, n, i + 1)
    <3>1. launched[n][i] = above[n] \o SubSeq(nodes[n].segment, 1, chosen[n][i])
      BY <2>1, <2>2
    <3>2. Cuts(n)[i + 1] = chosen[n][i]
      BY <2>1
    <3> QED BY <3>1, <3>2 DEF Ahead
  <2> QED BY <2>3
<1>15. n \in Root..Root => nodes[n].parent = None
  BY <1>1, <1>4 DEF ShapeOK
<1>16. \A m : m \in DOMAIN nodes => (nodes[m].parent # None => Old(n, nodes[m].parent) /\ nodes[m].parent \in DOMAIN nodes)
  <2>1. ASSUME NEW m \in DOMAIN nodes, nodes[m].parent # None
        PROVE  Old(n, nodes[m].parent) /\ nodes[m].parent \in DOMAIN nodes
    <3>1. nodes[m].parent \in Tree /\ nodes[m].parent \notin Leaves
      BY <1>1, <2>1 DEF ShapeOK
    <3>2. nodes[m].parent \in DOMAIN nodes /\ nodes[m].parent # n
      BY <1>1, <3>1, TreeFacts
    <3> QED BY <1>6, <3>1, <3>2
  <2> QED BY <2>1
<1> DEFINE above2 == [m \in DOMAIN nodes' |->
                        IF Old(n, m) THEN above[m]
                        ELSE IF m \in DOMAIN nodes THEN Ahead(above, n, 1)
                        ELSE IF m <= L + (K + 1) THEN Ahead(above, n, m - L)
                        ELSE launched[n][ForkOf(n, m - (L + (K + 1)))]]
           own2 == [m \in Leaves' |-> IF m \in DOMAIN nodes /\ m # n THEN own[m]
                                      ELSE IF m = PieceAt(n, K + 1) THEN own[n]
                                      ELSE R + (m - (L + (K + 1)))]
<1> HIDE DEF K, L, R, p, new
<1>17. \A m : Old(n, m) => m \in DOMAIN nodes /\ above2[m] = above[m]
  BY <1>9 DEF Old
<1>18. ASSUME NEW i \in 1..(K + 1), NEW m, m = PieceAt(n, i) \/ m = L + i
       PROVE  above2[m] = Ahead(above, n, i) /\ m \in DOMAIN nodes'
  <2>1. m \in DOMAIN nodes'
    <3>1. PieceFields(n, new, i, m)
      BY <1>10, <1>18
    <3> QED BY <3>1 DEF PieceFields
  <2>2. CASE i = 1 /\ n = Root /\ m = Root
    <3>1. ~Old(n, m) /\ m \in DOMAIN nodes
      BY <1>1, <2>2 DEF Old
    <3> QED BY <2>1, <2>2, <3>1
  <2>3. CASE m = L + i
    <3>1. m \notin DOMAIN nodes /\ ~Old(n, m)
      BY <1>5, <2>3 DEF Old
    <3>2. m <= L + (K + 1) /\ m - L = i
      BY <1>4, <2>3
    <3>3. above2[m] = Ahead(above, n, m - L)
      BY <2>1, <3>1, <3>2
    <3> HIDE DEF above2
    <3> QED BY <2>1, <3>2, <3>3
  <2> QED BY <1>18, <2>2, <2>3 DEF PieceAt, L
<1>19. ASSUME NEW b \in 1..Len(new)
       PROVE  above2[BranchAt(n, b)] = Ahead(above, n, ForkOf(n, b) + 1) /\ BranchAt(n, b) \in DOMAIN nodes'
              /\ launched[n][ForkOf(n, b)] = Ahead(above, n, ForkOf(n, b) + 1)
              /\ BranchAt(n, b) - (L + (K + 1)) = b
  <2> DEFINE m == BranchAt(n, b)
  <2>1. m \in DOMAIN nodes' /\ m \notin DOMAIN nodes /\ ~Old(n, m)
    BY <1>5, <1>11 DEF Old
  <2>2. m = L + (K + 1) + b
    BY DEF BranchAt, L, K
  <2>3. launched[n][ForkOf(n, b)] = Ahead(above, n, ForkOf(n, b) + 1)
    BY <1>6, <1>14
  <2> HIDE DEF m
  <2>4. ~(m <= L + (K + 1)) /\ m - (L + (K + 1)) = b
    BY <1>1, <1>4, <2>2
  <2>5. above2[m] = launched[n][ForkOf(n, m - (L + (K + 1)))]
    BY <2>1, <2>4
  <2> HIDE DEF above2
  <2> QED BY <2>1, <2>3, <2>4, <2>5 DEF m
<1>20. /\ \A m \in Leaves' : m \in DOMAIN nodes'
       /\ \A m \in Leaves : m \in DOMAIN nodes /\ (m # n => Old(n, m) /\ m \in Leaves' /\ own2[m] = own[m])
       /\ own2[PieceAt(n, K + 1)] = own[n]
       /\ \A b \in 1..Len(new) : own2[BranchAt(n, b)] = R + b
  <2>1. \A m \in Leaves' : m \in Tree'
    BY DEF Leaves
  <2>2. \A m \in Leaves : m \in DOMAIN nodes /\ m \in Tree
    BY <1>1, TreeFacts
  <2>3. \A m \in Leaves : m # n => Old(n, m) /\ m \in Leaves' /\ own2[m] = own[m]
    BY <1>6, <1>7, <2>2
  <2>4. PieceAt(n, K + 1) \in Leaves' /\ ~(PieceAt(n, K + 1) \in DOMAIN nodes /\ PieceAt(n, K + 1) # n)
    BY <1>4, <1>5, <1>7
  <2>5. ASSUME NEW b \in 1..Len(new) PROVE own2[BranchAt(n, b)] = R + b
    <3> DEFINE m == BranchAt(n, b)
    <3>1. m \in Leaves' /\ m \notin DOMAIN nodes /\ m # PieceAt(n, K + 1) /\ m - (L + (K + 1)) = b
      <4>1. PieceAt(n, K + 1) < m /\ PieceAt(n, K + 1) \in Int
        BY <1>4, <1>5
      <4>2. m # PieceAt(n, K + 1)
        <5> HIDE DEF m
        <5> QED BY <4>1
      <4> QED BY <1>5, <1>7, <1>19, <4>2
    <3> HIDE DEF m
    <3>2. own2[m] = R + (m - (L + (K + 1)))
      BY <3>1
    <3> HIDE DEF own2
    <3> QED BY <3>1, <3>2 DEF m
  <2> QED BY <1>6, <2>1, <2>2, <2>3, <2>4, <2>5
<1>21. DOMAIN above2 = DOMAIN nodes' /\ DOMAIN own2 = Leaves' /\ above2 = [m \in DOMAIN nodes' |-> above2[m]]
       /\ own2 = [m \in Leaves' |-> own2[m]]
  OBVIOUS
<1> HIDE DEF above2, own2
<1>22. above2 \in [DOMAIN nodes' -> Seq(Token)]
  <2>1. ASSUME NEW m \in DOMAIN nodes' PROVE above2[m] \in Seq(Token)
    <3>1. CASE Old(n, m)
      BY <1>3, <1>17, <3>1
    <3>2. ASSUME NEW i \in 1..(K + 1), m = PieceAt(n, i) \/ m = L + i PROVE above2[m] \in Seq(Token)
      BY <1>4, <1>13, <1>18, <3>2
    <3>3. ASSUME NEW b \in 1..Len(new), m = BranchAt(n, b) PROVE above2[m] \in Seq(Token)
      <4>1. ForkOf(n, b) + 1 \in 1..(K + 2)
        BY <1>4, <1>6
      <4> QED BY <1>13, <1>19, <3>3, <4>1
    <3> QED BY <1>6, <3>1, <3>2, <3>3
  <2> QED BY <1>21, <2>1
<1>23. ASSUME NEW m \in DOMAIN nodes'
       PROVE  above2[m] = IF nodes'[m].parent = None THEN << >>
                          ELSE above2[nodes'[m].parent] \o nodes'[nodes'[m].parent].segment
  <2>0. \A k \in DOMAIN nodes : above[k] = IF nodes[k].parent = None THEN << >>
                                           ELSE above[nodes[k].parent] \o nodes[nodes[k].parent].segment
    BY <1>3 DEF IsAbove
  <2>1. CASE Old(n, m)
    <3>1. m \in DOMAIN nodes /\ nodes'[m].parent = nodes[m].parent /\ above2[m] = above[m]
      BY <1>9, <1>17, <2>1
    <3>2. CASE nodes[m].parent = None
      BY <2>0, <3>1, <3>2
    <3>3. CASE nodes[m].parent # None
      <4> DEFINE q == nodes[m].parent
      <4>1. Old(n, q)
        BY <1>16, <3>1, <3>3
      <4>2. above2[q] = above[q] /\ nodes'[q].segment = nodes[q].segment
        BY <1>9, <1>17, <4>1
      <4> QED BY <2>0, <3>1, <3>3, <4>2
    <3> QED BY <3>2, <3>3
  <2>2. ASSUME NEW i \in 1..(K + 1), m = PieceAt(n, i) \/ m = L + i
        PROVE  above2[m] = IF nodes'[m].parent = None THEN << >>
                           ELSE above2[nodes'[m].parent] \o nodes'[nodes'[m].parent].segment
    <3>1. PieceFields(n, new, i, m)
      BY <1>10, <2>2
    <3>2. nodes'[m].parent = IF i = 1 THEN nodes[n].parent ELSE PieceAt(n, i - 1)
      BY <3>1 DEF PieceFields
    <3>3. above2[m] = Ahead(above, n, i)
      BY <1>18, <2>2
    <3>4. CASE i = 1
      <4>1. above2[m] = above[n] /\ nodes'[m].parent = nodes[n].parent
        BY <1>13, <3>2, <3>3, <3>4
      <4>2. CASE nodes[n].parent = None
        BY <1>1, <2>0, <4>1, <4>2
      <4>3. CASE nodes[n].parent # None
        <5> DEFINE q == nodes[n].parent
        <5>1. Old(n, q)
          BY <1>1, <1>16, <4>3
        <5>2. above2[q] = above[q] /\ nodes'[q].segment = nodes[q].segment
          BY <1>9, <1>17, <5>1
        <5> QED BY <1>1, <2>0, <4>1, <4>3, <5>2
      <4> QED BY <4>2, <4>3
    <3>5. CASE i # 1
      <4> DEFINE j == i - 1
      <4>1. j \in 1..(K + 1) /\ j + 1 = i
        BY <1>4, <3>5
      <4>2. nodes'[m].parent = PieceAt(n, j)
        BY <3>2, <3>5
      <4> HIDE DEF j
      <4>3. PieceAt(n, j) # None
        <5>1. PieceAt(n, j) \in Nat \ {0}
          BY <1>5, <4>1
        <5> QED BY <1>4, <5>1
      <4>4. nodes'[PieceAt(n, j)].segment = PieceText(n, j)
        <5>1. PieceFields(n, new, j, PieceAt(n, j))
          BY <1>10, <4>1
        <5> QED BY <5>1 DEF PieceFields
      <4>5. above2[PieceAt(n, j)] = Ahead(above, n, j)
        BY <1>18, <4>1
      <4>6. Ahead(above, n, j) \o PieceText(n, j) = Ahead(above, n, i)
        BY <1>13, <4>1
      <4> QED BY <3>3, <4>2, <4>3, <4>4, <4>5, <4>6
    <3> QED BY <3>4, <3>5
  <2>3. ASSUME NEW b \in 1..Len(new), m = BranchAt(n, b)
        PROVE  above2[m] = IF nodes'[m].parent = None THEN << >>
                           ELSE above2[nodes'[m].parent] \o nodes'[nodes'[m].parent].segment
    <3> DEFINE j == ForkOf(n, b)
    <3>1. j \in 1..(K + 1)
      BY <1>4, <1>6
    <3>2. nodes'[m].parent = PieceAt(n, j) /\ above2[m] = Ahead(above, n, j + 1)
      BY <1>11, <1>19, <2>3
    <3> HIDE DEF j
    <3>3. PieceAt(n, j) # None
      <4>1. PieceAt(n, j) \in Nat \ {0}
        BY <1>5, <3>1
      <4> QED BY <1>4, <4>1
    <3>4. nodes'[PieceAt(n, j)].segment = PieceText(n, j)
      <4>1. PieceFields(n, new, j, PieceAt(n, j))
        BY <1>10, <3>1
      <4> QED BY <4>1 DEF PieceFields
    <3>5. above2[PieceAt(n, j)] = Ahead(above, n, j) /\ Ahead(above, n, j) \o PieceText(n, j) = Ahead(above, n, j + 1)
      BY <1>13, <1>18, <3>1
    <3> QED BY <3>2, <3>3, <3>4, <3>5
  <2> QED BY <1>6, <2>1, <2>2, <2>3
<1>24. own2 \in [Leaves' -> DOMAIN responses']
  <2>1. ASSUME NEW m \in Leaves' PROVE own2[m] \in DOMAIN responses'
    <3>1. CASE m \in Leaves /\ m # n
      BY <1>3, <1>8, <1>20, <3>1
    <3>2. CASE m = PieceAt(n, K + 1)
      BY <1>1, <1>3, <1>8, <1>20, <3>2
    <3>3. ASSUME NEW b \in 1..Len(new), m = BranchAt(n, b) PROVE own2[m] \in DOMAIN responses'
      BY <1>8, <1>20, <3>3
    <3> QED BY <1>7, <3>1, <3>2, <3>3
  <2> QED BY <1>21, <2>1
<1>25. ASSUME NEW m \in Leaves'
       PROVE  /\ above2[m] \o nodes'[m].segment = responses'[own2[m]].context \o responses'[own2[m]].tokens
              /\ nodes'[m].finish = responses'[own2[m]].finish
  <2>1. \A k \in Leaves : /\ above[k] \o nodes[k].segment = responses[own[k]].context \o responses[own[k]].tokens
                          /\ nodes[k].finish = responses[own[k]].finish
    BY <1>3 DEF Owns, Full
  <2>2. CASE m \in Leaves /\ m # n
    <3>1. Old(n, m) /\ own2[m] = own[m] /\ own[m] \in DOMAIN responses
      BY <1>3, <1>20, <2>2
    <3>2. responses'[own[m]] = responses[own[m]]
      BY <1>8, <3>1
    <3> QED BY <1>9, <1>17, <2>1, <2>2, <3>1, <3>2
  <2>3. CASE m = PieceAt(n, K + 1)
    <3>1. own2[m] = own[n] /\ own[n] \in DOMAIN responses
      BY <1>1, <1>3, <1>20, <2>3
    <3>2. responses'[own[n]] = responses[own[n]]
      BY <1>8, <3>1
    <3>3. PieceFields(n, new, K + 1, m)
      BY <1>4, <1>10, <2>3
    <3>4. nodes'[m].segment = PieceText(n, K + 1) /\ nodes'[m].finish = nodes[n].finish
      BY <3>3 DEF PieceFields, K
    <3>5. above2[m] = Ahead(above, n, K + 1)
      BY <1>4, <1>18, <2>3
    <3>6. Ahead(above, n, K + 1) \o PieceText(n, K + 1) = above[n] \o nodes[n].segment
      BY <1>4, <1>13
    <3> QED BY <1>1, <2>1, <3>1, <3>2, <3>4, <3>5, <3>6
  <2>4. ASSUME NEW b \in 1..Len(new), m = BranchAt(n, b)
        PROVE  /\ above2[m] \o nodes'[m].segment = responses'[own2[m]].context \o responses'[own2[m]].tokens
               /\ nodes'[m].finish = responses'[own2[m]].finish
    <3>1. own2[m] = R + b /\ responses'[R + b] = new[b]
      BY <1>8, <1>20, <2>4
    <3>2. new[b].context = above2[m]
      BY <1>12, <1>19, <2>4
    <3> QED BY <1>11, <2>4, <3>1, <3>2
  <2> QED BY <1>7, <2>2, <2>3, <2>4
<1>26. ASSUME NEW m \in Leaves', NEW k \in Leaves', own2[m] = own2[k]
       PROVE  m = k
  <2> DEFINE Prior(q) == \E j \in Leaves : own2[q] = own[j] /\ q = IF j = n THEN PieceAt(n, K + 1) ELSE j
             Fresh(q) == \E b \in 1..Len(new) : own2[q] = R + b /\ q = BranchAt(n, b)
  <2>1. ASSUME NEW q \in Leaves' PROVE Prior(q) \/ Fresh(q)
    BY <1>1, <1>7, <1>20
  <2>2. ASSUME NEW q, NEW u, Prior(q), Prior(u), own2[q] = own2[u] PROVE q = u
    BY <1>3, <2>2
  <2>3. ASSUME NEW q, NEW u, Prior(q), Fresh(u), own2[q] = own2[u] PROVE FALSE
    <3>1. own2[q] \in DOMAIN responses
      BY <1>3, <2>3
    <3> QED BY <1>8, <2>3, <3>1
  <2>4. ASSUME NEW q, NEW u, Fresh(q), Fresh(u), own2[q] = own2[u] PROVE q = u
    <3>1. PICK a \in 1..Len(new) : own2[q] = R + a /\ q = BranchAt(n, a)
      BY <2>4
    <3>2. PICK b \in 1..Len(new) : own2[u] = R + b /\ u = BranchAt(n, b)
      BY <2>4
    <3>3. R + a = R + b /\ a \in Int /\ b \in Int
      BY <1>1, <2>4, <3>1, <3>2
    <3>4. a = b
      BY <1>8, <3>3
    <3> QED BY <3>1, <3>2, <3>4
  <2> HIDE DEF Prior, Fresh
  <2> QED BY <1>26, <2>1, <2>2, <2>3, <2>4
<1>27. ASSUME NEW r \in DOMAIN responses'
       PROVE  \E m \in Leaves' : own2[m] = r
  <2>1. CASE r \in DOMAIN responses
    <3>1. PICK k \in Leaves : own[k] = r
      BY <1>3, <2>1
    <3> QED BY <1>7, <1>20, <3>1
  <2>2. ASSUME NEW b \in 1..Len(new), r = R + b PROVE \E m \in Leaves' : own2[m] = r
    BY <1>7, <1>20, <2>2
  <2> QED BY <1>8, <2>1, <2>2
<1>28. ASSUME NEW m \in DOMAIN launched'
       PROVE  launched'[m] = [i \in DOMAIN chosen'[m] |-> above2[m] \o SubSeq(nodes'[m].segment, 1, chosen'[m][i])]
  <2>1. m \in DOMAIN launched /\ m # n /\ launched'[m] = launched[m]
    BY DEF Growing, Restrict
  <2>2. m \in DOMAIN chosen /\ m \in Leaves
    BY <1>1, <2>1 DEF ChosenOK
  <2>3. chosen'[m] = chosen[m]
    BY <2>1, <2>2 DEF Growing, Restrict
  <2>4. above2[m] = above[m] /\ nodes'[m].segment = nodes[m].segment
    BY <1>9, <1>17, <1>20, <2>1, <2>2
  <2>5. launched[m] = [i \in DOMAIN chosen[m] |-> above[m] \o SubSeq(nodes[m].segment, 1, chosen[m][i])]
    BY <1>3, <2>1 DEF IsLaunched
  <2> QED BY <2>1, <2>3, <2>4, <2>5
<1>29. PICK a : a = above2
  OBVIOUS
<1>30. PICK o : o = own2
  OBVIOUS
<1>31. IsAbove(a)'
  BY <1>23, <1>29 DEF IsAbove
<1>32. IsLaunched(a)'
  BY <1>28, <1>29 DEF IsLaunched
<1>33. Owns(a, o)'
  BY <1>25, <1>29, <1>30 DEF Owns, Full
<1>34. Links(a, o)'
  BY <1>22, <1>24, <1>26, <1>27, <1>29, <1>30, <1>31, <1>32, <1>33 DEF Links
<1> QED BY <1>34
\* The last token of a text, and a text that begins another one.
LEMMA EndFacts ==
  ASSUME NEW S, NEW u \in Seq(S), NEW v \in Seq(S)
  PROVE  /\ v # << >> => EndOf(u \o v) = EndOf(v) /\ EndOf(v) \in Range(v) /\ u \o v # << >>
         /\ IsPrefix(u, u \o v)
<1>1. /\ u \o v \in Seq(S) /\ Len(u \o v) = Len(u) + Len(v) /\ Len(u) \in Nat /\ Len(v) \in Nat
      /\ \A i \in 1..(Len(u) + Len(v)) : (u \o v)[i] = IF i <= Len(u) THEN u[i] ELSE v[i - Len(u)]
  BY ConcatProperties
<1>2. ASSUME v # << >>
      PROVE  EndOf(u \o v) = EndOf(v) /\ EndOf(v) \in Range(v) /\ u \o v # << >>
  <2>1. Len(v) # 0
    BY <1>2, EmptySeq
  <2>2. Len(u) + Len(v) \in 1..(Len(u) + Len(v)) /\ ~(Len(u) + Len(v) <= Len(u)) /\ (Len(u) + Len(v)) - Len(u) = Len(v)
        /\ Len(v) \in DOMAIN v
    BY <1>1, <2>1
  <2>3. (u \o v)[Len(u) + Len(v)] = v[Len(v)]
    BY <1>1, <2>2
  <2>4. u \o v # << >>
    <3>1. Len(u \o v) # 0
      BY <1>1, <2>1
    <3> QED BY <3>1, EmptySeq
  <2> QED BY <1>1, <2>2, <2>3, <2>4 DEF EndOf, Range
<1>3. IsPrefix(u, u \o v)
  <2> DEFINE w == u \o v
  <2>1. Len(u) <= Len(w)
    BY <1>1
  <2>2. w \in Seq(S) /\ Len(u) \in 0..Len(w) /\ \A i \in 1..Len(u) : w[i] = u[i]
    BY <1>1
  <2> HIDE DEF w
  <2>3. SubSeq(w, 1, Len(u)) \in Seq(S) /\ Len(SubSeq(w, 1, Len(u))) = Len(u)
        /\ \A i \in 1..Len(u) : SubSeq(w, 1, Len(u))[i] = u[i]
    BY <2>2, FirstTokens
  <2>4. SubSeq(w, 1, Len(u)) = u
    BY <2>3, SeqEqual
  <2>5. SubSeq(u, 1, Len(u)) = u
    BY SubSeqFull
  <2> QED BY <2>1, <2>4, <2>5 DEF IsPrefix, w
<1> QED BY <1>2, <1>3

LEMMA GrownChosen ==
  ASSUME NEW n, NEW f, Growing(n, f)
  PROVE  /\ ChosenOK'
         /\ DOMAIN chosen' = DOMAIN chosen \ {n} /\ DOMAIN launched' = DOMAIN launched \ {n}
         /\ \A m \in DOMAIN chosen' : chosen'[m] = chosen[m] /\ m \in DOMAIN nodes /\ nodes'[m].segment = nodes[m].segment
         /\ \A m \in DOMAIN launched' : launched'[m] = launched[m]
<1>1. /\ TypeOK /\ HasTree /\ ShapeOK /\ ChosenOK
  BY GrowingFacts
<1>2. DOMAIN chosen' = DOMAIN chosen \ {n} /\ \A m \in DOMAIN chosen' : chosen'[m] = chosen[m]
  BY DEF Growing, Restrict
<1>3. DOMAIN launched' = DOMAIN launched \ {n} /\ \A m \in DOMAIN launched' : launched'[m] = launched[m]
  BY DEF Growing, Restrict
<1>4. ASSUME NEW m \in DOMAIN chosen'
      PROVE  m \in DOMAIN chosen /\ m \in DOMAIN nodes /\ m \in Leaves' /\ nodes'[m].segment = nodes[m].segment
  <2>1. m \in DOMAIN chosen /\ m # n
    BY <1>2
  <2>2. m \in Leaves /\ m \in Tree /\ m \in DOMAIN nodes
    BY <1>1, <2>1, TreeFacts DEF ChosenOK
  <2>3. Old(n, m)
    BY <2>1, <2>2, GrownObjects
  <2> QED BY <2>1, <2>2, <2>3, GrownTree, GrownFields DEF Old
<1>5. ASSUME NEW m \in DOMAIN chosen'
      PROVE  /\ chosen'[m] \in Seq(Nat) /\ chosen'[m] # << >>
             /\ \A i \in DOMAIN chosen'[m] : chosen'[m][i] >= 1 /\ chosen'[m][i] + MinSuffix <= Len(nodes'[m].segment)
             /\ \A i, j \in DOMAIN chosen'[m] : i < j => chosen'[m][i] < chosen'[m][j]
  <2>1. m \in DOMAIN chosen /\ nodes'[m].segment = nodes[m].segment /\ chosen'[m] = chosen[m]
    BY <1>2, <1>4
  <2> QED BY <1>1, <2>1 DEF ChosenOK
<1>6. DOMAIN launched' \subseteq DOMAIN chosen' /\ DOMAIN chosen' \subseteq Leaves'
  BY <1>1, <1>2, <1>3, <1>4 DEF ChosenOK
<1> QED BY <1>2, <1>3, <1>4, <1>5, <1>6 DEF ChosenOK
LEMMA GrownCount ==
  ASSUME NEW n, NEW f, Growing(n, f)
  PROVE  CountOK'
<1> DEFINE new == NewResponses(n, f)
           K == Places(n)
           t == setting.t
           R == Len(responses)
           M == Len(new)
           bound == (setting.n * setting.t) * round
<1>1. /\ TypeOK /\ HasTree /\ ShapeOK /\ ChosenOK /\ CountOK /\ n \in DOMAIN chosen /\ n \in DOMAIN launched
      /\ f \in Answers(n) /\ Len(f) = M
  BY GrowingFacts
<1>2. M \in Nat /\ M <= K * t /\ K \in Nat \ {0} /\ DOMAIN chosen[n] = 1..K /\ t \in Nat \ {0} /\ R \in Nat
      /\ bound \in Nat
  <2>1. M \in Nat /\ M <= K * t
    BY <1>1, ForkFacts
  <2>2. K \in Nat \ {0} /\ DOMAIN chosen[n] = 1..K
    BY <1>1, CutsFacts
  <2>3. t \in Nat \ {0} /\ setting.n \in Nat /\ round \in Nat
    BY <1>1, SettingFacts DEF TypeOK
  <2>4. R \in Nat
    BY <1>1, ResponseFacts
  <2>5. bound \in Nat
    BY <2>3
  <2> QED BY <2>1, <2>2, <2>3, <2>4, <2>5
<1>3. Len(responses') = R + M /\ setting' = setting /\ round' = round
  BY GrownResponses DEF Growing
<1>4. Pending' = Pending \ ({n} \X (1..K))
  <2>1. DOMAIN chosen' = DOMAIN chosen \ {n} /\ \A m \in DOMAIN chosen' : chosen'[m] = chosen[m]
    BY GrownChosen
  <2>2. Pending = UNION {{m} \X DOMAIN chosen[m] : m \in DOMAIN chosen}
    BY DEF Pending
  <2>3. Pending' = UNION {{m} \X DOMAIN chosen[m] : m \in DOMAIN chosen \ {n}}
    BY <2>1 DEF Pending
  <2> HIDE DEF K
  <2> QED BY <1>1, <1>2, <2>2, <2>3
<1>5. {n} \X (1..K) \subseteq Pending
  BY <1>1, <1>2 DEF Pending
<1>6. IsFiniteSet({n} \X (1..K)) /\ Cardinality({n} \X (1..K)) = K
  <2> HIDE DEF K
  <2>1. IsFiniteSet({n}) /\ Cardinality({n}) = 1 /\ IsFiniteSet(1..K) /\ Cardinality(1..K) = K
    <3>1. IsFiniteSet({n}) /\ Cardinality({n}) = 1
      BY FS_Singleton
    <3>2. IsFiniteSet(1..K) /\ Cardinality(1..K) = IF 1 > K THEN 0 ELSE K - 1 + 1
      BY <1>2, FS_Interval
    <3>3. ~(1 > K) /\ K - 1 + 1 = K
      BY <1>2
    <3> QED BY <3>1, <3>2, <3>3
  <2>2. IsFiniteSet({n} \X (1..K)) /\ Cardinality({n} \X (1..K)) = Cardinality({n}) * Cardinality(1..K)
    BY <2>1, FS_Product
  <2> QED BY <1>2, <2>1, <2>2
<1>7. IsFiniteSet(Pending) /\ Cardinality(Pending) \in Nat /\ R + (t * Cardinality(Pending)) <= 1 + bound
  <2>1. IsFiniteSet(Pending) /\ R + (t * Cardinality(Pending)) <= 1 + bound
    BY <1>1 DEF CountOK
  <2> QED BY <2>1, FS_CardinalityType
<1>8. IsFiniteSet(Pending') /\ Cardinality(Pending') = Cardinality(Pending) - K /\ Cardinality(Pending') \in Nat
  <2> HIDE DEF K
  <2> DEFINE A == Pending
             B == {n} \X (1..K)
  <2>1. IsFiniteSet(A) /\ A \cap B = B /\ IsFiniteSet(B) /\ Cardinality(B) = K /\ Pending' = A \ B
    BY <1>4, <1>5, <1>6, <1>7
  <2> HIDE DEF A, B
  <2>2. IsFiniteSet(A \ B) /\ Cardinality(A \ B) = Cardinality(A) - Cardinality(A \cap B)
    BY <2>1, FS_Difference
  <2>3. Cardinality(A \ B) \in Nat
    BY <2>2, FS_CardinalityType
  <2> QED BY <2>1, <2>2, <2>3 DEF A
<1>9. (R + M) + (t * Cardinality(Pending')) <= 1 + bound
  <2> DEFINE P == Cardinality(Pending)
             Q == Cardinality(Pending')
  <2>1. P \in Nat /\ Q \in Nat /\ P = Q + K
    <3> HIDE DEF K
    <3> QED BY <1>2, <1>7, <1>8
  <2>2. R + (t * P) <= 1 + bound
    BY <1>7
  <2> HIDE DEF P, Q, K, t, R, M, bound
  <2>3. t * P = (t * Q) + (K * t) /\ t * Q \in Nat /\ K * t \in Nat
    BY <1>2, <2>1
  <2>4. (R + M) + (t * Q) <= 1 + bound
    BY <1>2, <2>2, <2>3
  <2> QED BY <2>4 DEF Q
<1> QED BY <1>3, <1>8, <1>9 DEF CountOK

\* The context of a new response: the leaf's tokens before a chosen place.
LEMMA NewContexts ==
  ASSUME NEW n, NEW f, Growing(n, f), NEW b \in Branched(n, f), NEW above, NEW own, Links(above, own)
  PROVE  LET c == NewResponses(n, f)[b].context
             i == ForkOf(n, b)
         IN /\ i \in 1..Places(n) /\ i \in 1..(Places(n) + 1) /\ i # Places(n) + 1 /\ i + 1 \in 1..(Places(n) + 1)
            /\ c = Ahead(above, n, i + 1) /\ c \in Seq(Token)
            /\ Cuts(n)[i + 1] \in Nat /\ Len(c) = Len(above[n]) + Cuts(n)[i + 1]
            /\ c # << >> /\ EndOf(c) = EndOf(PieceText(n, i)) /\ EndOf(c) \in Range(nodes[n].segment)
            /\ ~IsSkipped(c) /\ f[b] \in ResponseLengths(setting.prompt + Len(c))
            /\ above[n] \in Seq(Token) /\ nodes[n].segment \in Seq(Token)
            /\ IsPrefix(c, above[n] \o nodes[n].segment)
            /\ Len(above[n] \o nodes[n].segment) >= Len(c) + MinSuffix
<1> DEFINE new == NewResponses(n, f)
           c == new[b].context
           i == ForkOf(n, b)
           s == nodes[n].segment
           K == Places(n)
<1>1. /\ TypeOK /\ HasTree /\ ShapeOK /\ ChosenOK /\ n \in DOMAIN chosen /\ n \in DOMAIN launched /\ n \in DOMAIN nodes
      /\ f \in Answers(n) /\ Len(f) = Len(new) /\ Branched(n, f) = 1..Len(new) /\ DOMAIN f = 1..Len(new)
  BY GrowingFacts
<1>2. above \in [DOMAIN nodes -> Seq(Token)] /\ IsLaunched(above)
  BY DEF Links
<1>3. i \in 1..K /\ i \in 1..(K + 1) /\ i # K + 1 /\ K \in Nat
  BY <1>1, GrownObjects, CutsFacts
<1>4. c = launched[n][i] /\ c \in Seq(Token)
  <2>1. b \in 1..Len(f)
    BY <1>1
  <2> QED BY <1>1, <2>1, NewFacts
<1>5. ~IsSkipped(c) /\ f[b] \in ResponseLengths(setting.prompt + Len(c))
  BY <1>1, <1>4, ForkFacts
<1> HIDE DEF c, i, K, new
<1>6. i + 1 \in 1..(K + 1) /\ i + 1 \in 1..(K + 2)
  BY <1>3
<1>7. c = Ahead(above, n, i + 1) /\ Cuts(n)[i + 1] = chosen[n][i] /\ i \in DOMAIN chosen[n]
  <2>1. DOMAIN chosen[n] = 1..K /\ Cuts(n)[i + 1] = chosen[n][i]
    BY <1>1, <1>3, CutsFacts DEF K
  <2>2. launched[n] = [j \in DOMAIN chosen[n] |-> above[n] \o SubSeq(nodes[n].segment, 1, chosen[n][j])]
    BY <1>1, <1>2 DEF IsLaunched
  <2>3. launched[n][i] = above[n] \o SubSeq(nodes[n].segment, 1, chosen[n][i])
    BY <1>3, <2>1, <2>2
  <2> QED BY <1>3, <1>4, <2>1, <2>3 DEF Ahead
<1>8. /\ above[n] \in Seq(Token) /\ Len(c) = Len(above[n]) + Cuts(n)[i + 1]
      /\ Ahead(above, n, i) \in Seq(Token)
      /\ Ahead(above, n, i) \o PieceText(n, i) = c
  <2>1. /\ above[n] \in Seq(Token)
        /\ \A j \in 1..(K + 2) : /\ Ahead(above, n, j) \in Seq(Token)
                                 /\ Len(Ahead(above, n, j)) = Len(above[n]) + Cuts(n)[j]
        /\ \A j \in 1..(K + 1) : Ahead(above, n, j) \o PieceText(n, j) = Ahead(above, n, j + 1)
    BY <1>1, <1>2, AheadFacts DEF K
  <2>2. i \in 1..(K + 2)
    BY <1>3
  <2> QED BY <1>3, <1>6, <1>7, <2>1, <2>2
<1>9. /\ PieceText(n, i) \in Seq(Token) /\ PieceText(n, i) # << >> /\ s \in Seq(Token)
      /\ Cuts(n)[i + 1] \in Nat /\ Cuts(n)[i + 1] <= Len(s) /\ Range(PieceText(n, i)) \subseteq Range(s)
  <2> DEFINE a == Cuts(n)[i]
             d == Cuts(n)[i + 1]
             t == PieceText(n, i)
  <2>1. /\ t \in Seq(Token) /\ t # << >> /\ s \in Seq(Token) /\ a \in Nat /\ d \in Nat /\ d <= Len(s) /\ Len(t) = d - a
        /\ \A k \in 1..(d - a) : t[k] = s[a + k] /\ a + k \in 1..Len(s)
    BY <1>1, <1>3, PieceTexts DEF K
  <2> HIDE DEF a, d, t, s
  <2>2. ASSUME NEW x \in Range(t) PROVE x \in Range(s)
    <3>1. PICK k \in DOMAIN t : x = t[k]
      BY DEF Range
    <3>2. k \in 1..(d - a)
      BY <2>1
    <3>3. x = s[a + k] /\ a + k \in DOMAIN s
      BY <2>1, <3>1, <3>2
    <3> QED BY <3>3 DEF Range
  <2> QED BY <2>1, <2>2 DEF d, t, s
<1>10. c # << >> /\ EndOf(c) = EndOf(PieceText(n, i)) /\ EndOf(c) \in Range(s)
  <2>1. /\ EndOf(PieceText(n, i)) \in Range(PieceText(n, i))
        /\ EndOf(Ahead(above, n, i) \o PieceText(n, i)) = EndOf(PieceText(n, i))
        /\ Ahead(above, n, i) \o PieceText(n, i) # << >>
    BY <1>8, <1>9, EndFacts
  <2> QED BY <1>8, <1>9, <2>1
<1>11. IsPrefix(c, above[n] \o s) /\ Len(above[n] \o s) >= Len(c) + MinSuffix
  <2> DEFINE d == Cuts(n)[i + 1]
             u == SubSeq(s, 1, d)
             v == SubSeq(s, d + 1, Len(s))
             a == above[n]
  <2>1. d \in Nat /\ d <= Len(s) /\ s \in Seq(Token) /\ a \in Seq(Token) /\ c = a \o u /\ Len(c) = Len(a) + d
    BY <1>7, <1>8, <1>9 DEF Ahead
  <2>2. d + MinSuffix <= Len(s) /\ MinSuffix \in Nat
    BY <1>1, <1>7, TreeAssumption DEF ChosenOK
  <2> HIDE DEF a, s, d
  <2>3. Len(a \o s) = Len(a) + Len(s) /\ Len(a) \in Nat /\ Len(s) \in Nat
    BY <2>1, ConcatProperties
  <2>4. Len(a \o s) >= Len(c) + MinSuffix
    BY <2>1, <2>2, <2>3
  <2>5. u \in Seq(Token) /\ v \in Seq(Token) /\ u \o v = s
    <3>1. 1 \in 1..(Len(s) + 1) /\ d \in (1 - 1)..Len(s) /\ Len(s) \in d..Len(s) /\ d \in 0..Len(s)
      BY <2>1, <2>3
    <3>2. u \o v = SubSeq(s, 1, Len(s))
      BY <2>1, <3>1, ConcatAdjacentSubSeq
    <3>3. SubSeq(s, 1, Len(s)) = s
      BY <2>1, SubSeqFull
    <3>4. u \in Seq(Token)
      BY <2>1, <3>1, FirstTokens
    <3>5. v \in Seq(Token)
      <4>1. \A k \in (d + 1)..Len(s) : s[k] \in Token
        <5>1. \A k \in (d + 1)..Len(s) : k \in 1..Len(s)
          BY <2>1, <2>3
        <5> QED BY <2>1, <5>1, ElementOfSeq
      <4>2. d + 1 \in Int /\ Len(s) \in Int
        BY <2>1, <2>3
      <4> QED BY <4>1, <4>2, SubSeqProperties
    <3> QED BY <3>2, <3>3, <3>4, <3>5
  <2> HIDE DEF u, v
  <2>6. a \o u \in Seq(Token) /\ (a \o u) \o v = a \o (u \o v)
    <3>0. a \in Seq(Token) /\ u \in Seq(Token) /\ v \in Seq(Token)
      BY <2>1, <2>5
    <3>1. (a \o u) \o v = a \o (u \o v)
      BY <3>0, ConcatAssociative
    <3>2. a \o u \in Seq(Token)
      BY <2>1, <2>5, ConcatProperties
    <3> QED BY <3>1, <3>2
  <2>7. IsPrefix(a \o u, (a \o u) \o v)
    <3> DEFINE w == a \o u
    <3>1. w \in Seq(Token)
      BY <2>6
    <3> HIDE DEF w
    <3>2. IsPrefix(w, w \o v)
      BY <2>5, <3>1, EndFacts
    <3> QED BY <3>2 DEF w
  <2>8. IsPrefix(c, a \o s)
    BY <2>1, <2>5, <2>6, <2>7
  <2> QED BY <2>4, <2>8 DEF a, s
<1>12. i + 1 \in 1..(K + 1)
  BY <1>6
<1> QED BY <1>3, <1>4, <1>5, <1>7, <1>8, <1>9, <1>10, <1>11, <1>12 DEF c, i, K, s, new
LEMMA GrownResponsesOK ==
  ASSUME NEW n, NEW f, Growing(n, f)
  PROVE  ResponsesOK'
<1> DEFINE new == NewResponses(n, f)
           R == Len(responses)
<1>1. /\ TypeOK /\ HasTree /\ ShapeOK /\ ChosenOK /\ ResponsesOK /\ n \in DOMAIN chosen /\ n \in DOMAIN launched
      /\ f \in Answers(n) /\ Len(f) = Len(new) /\ Branched(n, f) = 1..Len(new) /\ DOMAIN f = 1..Len(new)
  BY GrowingFacts
<1>2. PICK above, own : Links(above, own)
  BY DEF Growing, GrowthOK
<1>3. /\ \A r \in DOMAIN responses : r \in DOMAIN responses' /\ responses'[r] = responses[r]
      /\ \A b \in Branched(n, f) : R + b \in DOMAIN responses' /\ responses'[R + b] = new[b]
      /\ \A r \in DOMAIN responses' : r \in DOMAIN responses \/ \E b \in Branched(n, f) : r = R + b
      /\ R \in Nat /\ DOMAIN responses = 1..R
  BY GrownResponses
<1>4. 1 \in DOMAIN responses /\ R # 0
  <2>1. R # 0
    BY <1>1, EmptySeq DEF ResponsesOK, TypeOK
  <2> HIDE DEF R
  <2> QED BY <1>3, <2>1
<1>5. responses' # << >> /\ responses'[1].context = << >> /\ setting' = setting
  <2>1. 1 \in DOMAIN responses' /\ responses'[1] = responses[1]
    BY <1>3, <1>4
  <2> QED BY <1>1, <2>1 DEF ResponsesOK, Growing
<1>6. ASSUME NEW r \in DOMAIN responses
      PROVE  /\ setting.prompt + Len(Full(responses'[r])) <= MaxModelLen
             /\ responses'[r].tokens = [j \in 1..Len(responses'[r].tokens) |-> <<r, j>>]
             /\ r # 1 => /\ responses'[r].context # << >>
                         /\ \E m \in Tree' : ~IsLeaf(m)' /\ EndOf(responses'[r].context) = EndOf(nodes'[m].segment)
  <2>1. responses'[r] = responses[r]
    BY <1>3
  <2>2. /\ setting.prompt + Len(Full(responses[r])) <= MaxModelLen
        /\ responses[r].tokens = [j \in 1..Len(responses[r].tokens) |-> <<r, j>>]
        /\ r # 1 => /\ responses[r].context # << >>
                    /\ \E m \in Tree : ~IsLeaf(m) /\ EndOf(responses[r].context) = EndOf(nodes[m].segment)
    BY <1>1 DEF ResponsesOK
  <2>3. ASSUME NEW m \in Tree, ~IsLeaf(m)
        PROVE  m \in Tree' /\ ~IsLeaf(m)' /\ nodes'[m].segment = nodes[m].segment
    <3>1. m # n /\ m \in DOMAIN nodes /\ m \notin Leaves
      BY <1>1, <2>3, TreeFacts DEF ChosenOK, Leaves
    <3>2. Old(n, m)
      BY <3>1, GrownObjects
    <3>3. m \in Tree' /\ m \notin Leaves'
      BY <3>1, GrownTree
    <3>4. nodes'[m].segment = nodes[m].segment
      BY <3>1, <3>2, GrownFields DEF Old
    <3> QED BY <3>3, <3>4 DEF Leaves
  <2> QED BY <2>1, <2>2, <2>3
<1>7. ASSUME NEW b \in Branched(n, f), NEW r, r = R + b
      PROVE  /\ setting.prompt + Len(Full(responses'[r])) <= MaxModelLen
             /\ responses'[r].tokens = [j \in 1..Len(responses'[r].tokens) |-> <<r, j>>]
             /\ responses'[r].context # << >>
             /\ \E m \in Tree' : ~IsLeaf(m)' /\ EndOf(responses'[r].context) = EndOf(nodes'[m].segment)
  <2> DEFINE c == new[b].context
             t == new[b].tokens
             i == ForkOf(n, b)
  <2>1. responses'[r] = new[b]
    BY <1>3, <1>7
  <2>2. /\ i \in 1..(Places(n) + 1) /\ i # Places(n) + 1 /\ c \in Seq(Token) /\ c # << >>
        /\ EndOf(c) = EndOf(PieceText(n, i)) /\ ~IsSkipped(c) /\ f[b] \in ResponseLengths(setting.prompt + Len(c))
    BY <1>2, NewContexts
  <2>3. t = [j \in 1..f[b] |-> <<R + b, j>>] /\ t \in Seq(Token) /\ Len(t) = f[b]
    <3>1. b \in 1..Len(f)
      BY <1>1
    <3> QED BY <1>1, <3>1, NewFacts
  <2>4. \E m \in Tree' : ~IsLeaf(m)' /\ EndOf(c) = EndOf(nodes'[m].segment)
    <3>1. PieceAt(n, i) \in Tree' /\ PieceAt(n, i) \notin Leaves'
      BY <2>2, GrownTree
    <3>2. PieceFields(n, new, i, PieceAt(n, i))
      BY <2>2, GrownFields
    <3>3. nodes'[PieceAt(n, i)].segment = PieceText(n, i)
      BY <3>2 DEF PieceFields
    <3> QED BY <2>2, <3>1, <3>3 DEF Leaves
  <2> HIDE DEF c, t, i, new
  <2>5. setting.prompt + Len(c \o t) <= MaxModelLen
    <3> DEFINE q == setting.prompt + Len(c)
    <3>1. Len(c \o t) = Len(c) + f[b] /\ Len(c) \in Nat /\ f[b] \in Nat /\ setting.prompt \in Nat
      <4>1. Len(c) \in Nat /\ Len(t) \in Nat /\ Len(c \o t) = Len(c) + Len(t)
        BY <2>2, <2>3, ConcatProperties, LenProperties
      <4>2. setting.prompt \in Nat
        BY <1>1, SettingFacts DEF TypeOK
      <4> QED BY <2>3, <4>1, <4>2
    <3>2. q < MaxModelLen /\ MaxModelLen \in Nat /\ q \in Nat
      <4>1. ~(q >= MaxModelLen - Margin) /\ Margin \in Nat /\ MaxModelLen \in Nat
        BY <2>2, TreeAssumption DEF IsSkipped
      <4> QED BY <3>1, <4>1
    <3>3. q + f[b] <= MaxModelLen
      <4> HIDE DEF q
      <4>1. ~(q >= MaxModelLen)
        BY <3>2
      <4>2. f[b] \in {k \in Lengths : q + k < MaxModelLen} \cup {MaxModelLen - q}
        BY <2>2, <4>1 DEF ResponseLengths, q
      <4>3. q + f[b] < MaxModelLen \/ f[b] = MaxModelLen - q
        BY <4>2
      <4> QED BY <3>1, <3>2, <4>3
    <3> QED BY <3>1, <3>3
  <2>6. c = responses'[r].context /\ t = responses'[r].tokens /\ Full(responses'[r]) = c \o t
    BY <2>1 DEF c, t, new, Full
  <2> QED BY <1>7, <2>2, <2>3, <2>4, <2>5, <2>6
<1>8. ASSUME NEW r \in DOMAIN responses'
      PROVE  /\ setting'.prompt + Len(Full(responses'[r])) <= MaxModelLen
             /\ responses'[r].tokens = [j \in 1..Len(responses'[r].tokens) |-> <<r, j>>]
             /\ r # 1 => /\ responses'[r].context # << >>
                         /\ \E m \in Tree' : ~IsLeaf(m)' /\ EndOf(responses'[r].context) = EndOf(nodes'[m].segment)
  BY <1>3, <1>5, <1>6, <1>7
<1> QED BY <1>5, <1>8 DEF ResponsesOK, Full

\* Old contexts end inside the tree, new ones inside the leaf.
LEMMA FreshContexts ==
  ASSUME NEW n, NEW f, Growing(n, f), NEW b \in Branched(n, f), NEW r \in DOMAIN responses
  PROVE  responses[r].context # NewResponses(n, f)[b].context
<1> DEFINE c == NewResponses(n, f)[b].context
<1>1. /\ TypeOK /\ HasTree /\ ShapeOK /\ TokensOK /\ ResponsesOK /\ ChosenOK /\ n \in Tree /\ n \in Leaves
  BY GrowingFacts
<1>2. PICK above, own : Links(above, own)
  BY DEF Growing, GrowthOK
<1>3. c # << >> /\ EndOf(c) \in Range(nodes[n].segment)
  BY <1>2, NewContexts
<1>4. CASE r = 1
  BY <1>1, <1>3, <1>4 DEF ResponsesOK
<1>5. CASE r # 1
  <2>1. PICK m \in Tree : ~IsLeaf(m) /\ EndOf(responses[r].context) = EndOf(nodes[m].segment)
    BY <1>1, <1>5 DEF ResponsesOK
  <2>2. m # n /\ m \in DOMAIN nodes
    BY <1>1, <2>1, TreeFacts DEF Leaves
  <2>3. nodes[m].segment \in Seq(Token) /\ nodes[m].segment # << >>
    BY <1>1, <2>1, <2>2, NodeFacts DEF ShapeOK
  <2>4. EndOf(nodes[m].segment) \in Range(nodes[m].segment)
    BY <2>3, EndFacts
  <2>5. Range(nodes[m].segment) \cap Range(nodes[n].segment) = {}
    BY <1>1, <2>2 DEF TokensOK
  <2> QED BY <1>3, <2>1, <2>4, <2>5
<1> QED BY <1>4, <1>5

LEMMA GrownBranched ==
  ASSUME NEW n, NEW f, Growing(n, f)
  PROVE  BranchedOnce'
<1> DEFINE new == NewResponses(n, f)
           R == Len(responses)
           t == setting.t
           With(c) == {j \in DOMAIN responses' : responses'[j].context = c}
<1>1. /\ TypeOK /\ HasTree /\ ShapeOK /\ ChosenOK /\ ResponsesOK /\ BranchedOnce /\ n \in DOMAIN chosen /\ n \in DOMAIN launched
      /\ f \in Answers(n) /\ Len(f) = Len(new) /\ Branched(n, f) = 1..Len(new) /\ DOMAIN f = 1..Len(new) /\ n \in Leaves
      /\ Len(new) \in Nat
  BY GrowingFacts
<1>2. PICK above, own : Links(above, own)
  BY DEF Growing, GrowthOK
<1>3. /\ \A r \in DOMAIN responses : r \in DOMAIN responses' /\ responses'[r] = responses[r]
      /\ \A b \in Branched(n, f) : R + b \in DOMAIN responses' /\ responses'[R + b] = new[b] /\ R + b \notin DOMAIN responses
      /\ \A r \in DOMAIN responses' : r \in DOMAIN responses \/ \E b \in Branched(n, f) : r = R + b
      /\ R \in Nat /\ DOMAIN responses = 1..R
  BY GrownResponses
<1>4. setting' = setting /\ t \in Nat \ {0}
  BY <1>1, SettingFacts DEF Growing, TypeOK
<1>5. /\ responses'[1].context = << >>
      /\ \A r \in DOMAIN responses' : r # 1 => responses'[r].context # << >>
  BY GrownResponsesOK DEF ResponsesOK
<1>6. Cardinality(With(<< >>)) <= 1
  <2>1. With(<< >>) \in SUBSET {1}
    BY <1>5
  <2>2. IsFiniteSet({1}) /\ Cardinality({1}) = 1
    BY FS_Singleton
  <2> HIDE DEF With
  <2> QED BY <2>1, <2>2, FS_Subset
<1>7. ASSUME NEW r \in DOMAIN responses, responses[r].context # << >>
      PROVE  /\ Cardinality(With(responses[r].context)) <= t
             /\ \E j \in 1..(r - 1) :
                  LET text == responses'[j].context \o responses'[j].tokens
                  IN IsPrefix(responses[r].context, text) /\ Len(text) >= Len(responses[r].context) + MinSuffix
  <2> DEFINE c == responses[r].context
             Before == {j \in DOMAIN responses : responses[j].context = c}
  <2>1. /\ Cardinality(Before) <= t
        /\ \E j \in 1..(r - 1) :
             LET text == responses[j].context \o responses[j].tokens
             IN IsPrefix(c, text) /\ Len(text) >= Len(c) + MinSuffix
    BY <1>1, <1>7 DEF BranchedOnce
  <2>2. \A b \in Branched(n, f) : new[b].context # c
    BY FreshContexts
  <2>3. With(c) = Before
    <3> HIDE DEF c, new
    <3> QED BY <1>3, <2>2
  <2>4. PICK j \in 1..(r - 1) :
             LET text == responses[j].context \o responses[j].tokens
             IN IsPrefix(c, text) /\ Len(text) >= Len(c) + MinSuffix
    BY <2>1
  <2>5. j \in DOMAIN responses
    <3>1. r \in 1..R
      BY <1>3
    <3> HIDE DEF R
    <3> QED BY <1>3, <3>1
  <2>6. responses'[j] = responses[j]
    BY <1>3, <2>5
  <2> HIDE DEF c, Before, With
  <2> QED BY <2>1, <2>3, <2>4, <2>6 DEF c
<1>8. ASSUME NEW b \in Branched(n, f)
      PROVE  /\ Cardinality(With(new[b].context)) <= t
             /\ \E j \in 1..((R + b) - 1) :
                  LET text == responses'[j].context \o responses'[j].tokens
                  IN IsPrefix(new[b].context, text) /\ Len(text) >= Len(new[b].context) + MinSuffix
  <2> DEFINE c == new[b].context
             i == ForkOf(n, b)
             Same == {a \in DOMAIN f : ForkOf(n, a) = i}
             g == [a \in Same |-> R + a]
  <2>1. ASSUME NEW a \in Branched(n, f), new[a].context = c
        PROVE  ForkOf(n, a) = i
    <3> DEFINE k == ForkOf(n, a)
    <3>1. /\ i \in 1..Places(n) /\ i + 1 \in 1..(Places(n) + 1) /\ Cuts(n)[i + 1] \in Nat /\ Len(c) = Len(above[n]) + Cuts(n)[i + 1]
          /\ above[n] \in Seq(Token)
      BY <1>2, NewContexts
    <3>2. /\ k \in 1..Places(n) /\ k + 1 \in 1..(Places(n) + 1) /\ Cuts(n)[k + 1] \in Nat
          /\ Len(new[a].context) = Len(above[n]) + Cuts(n)[k + 1]
      BY <1>2, NewContexts
    <3>3. Cuts(n)[i + 1] = Cuts(n)[k + 1]
      <4>1. Len(above[n]) \in Nat
        BY <3>1
      <4> HIDE DEF c, i, k
      <4> QED BY <2>1, <3>1, <3>2, <4>1
    <3>4. \A x, y \in 1..(Places(n) + 1) : x < y => Cuts(n)[x] < Cuts(n)[y]
      BY <1>1, CutsFacts
    <3> HIDE DEF c, i, k
    <3>5. ~(i + 1 < k + 1) /\ ~(k + 1 < i + 1)
      BY <3>1, <3>2, <3>3, <3>4
    <3>6. i = k
      BY <3>1, <3>2, <3>5
    <3> QED BY <3>6 DEF k
  <2>2. IsFiniteSet(Same) /\ Cardinality(Same) <= t
    BY <1>1, ForkFacts
  <2>3. With(c) \in SUBSET {R + a : a \in Same}
    <3>1. ASSUME NEW j \in With(c) PROVE \E a \in Same : j = R + a
      <4>1. j \notin DOMAIN responses
        <5>1. j \in DOMAIN responses => responses[j].context = c
          BY <1>3
        <5> QED BY <5>1, FreshContexts
      <4>2. PICK a \in Branched(n, f) : j = R + a
        BY <1>3, <4>1
      <4>3. new[a].context = c
        BY <1>3, <4>2
      <4> QED BY <1>1, <2>1, <4>2, <4>3
    <3> QED BY <3>1
  <2>4. IsFiniteSet({R + a : a \in Same}) /\ Cardinality({R + a : a \in Same}) <= Cardinality(Same)
    <3> DEFINE T == {R + a : a \in Same}
    <3>1. g \in Surjection(Same, T)
      BY DEF Surjection
    <3> HIDE DEF g, T, Same
    <3> QED BY <2>2, <3>1, FS_Surjection DEF T
  <2>5. Cardinality(With(c)) <= t
    <3> DEFINE T == {R + a : a \in Same}
    <3>1. Cardinality(With(c)) <= Cardinality(T) /\ IsFiniteSet(With(c))
      <4> HIDE DEF T, With, c, Same
      <4> QED BY <2>3, <2>4, FS_Subset DEF T
    <3>2. Cardinality(T) <= Cardinality(Same)
      BY <2>4
    <3>3. Cardinality(With(c)) \in Nat /\ Cardinality(T) \in Nat /\ Cardinality(Same) \in Nat
      <4> HIDE DEF T, With, c, Same
      <4> QED BY <2>2, <2>4, <3>1, FS_CardinalityType DEF T
    <3> HIDE DEF T, With, c, Same
    <3> QED BY <1>4, <2>2, <3>1, <3>2, <3>3
  <2>6. own[n] \in DOMAIN responses /\ responses[own[n]].context \o responses[own[n]].tokens = above[n] \o nodes[n].segment
    BY <1>1, <1>2 DEF Links, Owns, Full
  <2>7. IsPrefix(c, above[n] \o nodes[n].segment) /\ Len(above[n] \o nodes[n].segment) >= Len(c) + MinSuffix
    BY <1>2, NewContexts
  <2>8. own[n] \in 1..((R + b) - 1) /\ responses'[own[n]] = responses[own[n]]
    <3>1. own[n] \in 1..R /\ b \in 1..Len(new) /\ responses'[own[n]] = responses[own[n]]
      BY <1>1, <1>3, <2>6
    <3> HIDE DEF R, new
    <3> QED BY <1>1, <1>3, <3>1
  <2> HIDE DEF c, With
  <2> QED BY <2>5, <2>6, <2>7, <2>8 DEF c
<1>9. ASSUME NEW r \in DOMAIN responses'
      PROVE  LET context == responses'[r].context
             IN /\ Cardinality(With(context)) <= IF context = << >> THEN 1 ELSE t
                /\ context # << >> =>
                     \E j \in 1..(r - 1) :
                       LET text == responses'[j].context \o responses'[j].tokens
                       IN IsPrefix(context, text) /\ Len(text) >= Len(context) + MinSuffix
  <2> HIDE DEF With, t
  <2>1. CASE responses'[r].context = << >>
    BY <1>6, <2>1
  <2>2. CASE responses'[r].context # << >> /\ r \in DOMAIN responses
    <3>1. responses'[r] = responses[r]
      BY <1>3, <2>2
    <3> QED BY <1>7, <2>2, <3>1
  <2>3. ASSUME responses'[r].context # << >>, NEW b \in Branched(n, f), r = R + b
        PROVE  /\ Cardinality(With(responses'[r].context)) <= t
               /\ \E j \in 1..(r - 1) :
                    LET text == responses'[j].context \o responses'[j].tokens
                    IN IsPrefix(responses'[r].context, text) /\ Len(text) >= Len(responses'[r].context) + MinSuffix
    <3>1. responses'[r] = new[b]
      BY <1>3, <2>3
    <3> HIDE DEF new
    <3> QED BY <1>8, <2>3, <3>1
  <2> QED BY <1>3, <2>1, <2>2, <2>3
<1> QED BY <1>4, <1>9 DEF BranchedOnce

-----------------------------------------------------------------------------
(* Ways down the tree.                                                     *)

\* From a node to one of its children, and on.
IsChain(p) ==
  /\ p \in Seq(DOMAIN nodes) /\ p # << >>
  /\ \A i \in 1..(Len(p) - 1) : p[i + 1] \in nodes[p[i]].children

\* The ways from a node to a leaf.
Down(n) == {p \in Seq(DOMAIN nodes) : IsChain(p) /\ p[1] = n /\ IsLeaf(EndOf(p))}

LEMMA ChainFacts ==
  ASSUME TypeOK, HasTree, ShapeOK, NEW p, IsChain(p)
  PROVE  /\ Len(p) \in Nat \ {0} /\ DOMAIN p = 1..Len(p) /\ p[1] \in DOMAIN nodes /\ EndOf(p) \in DOMAIN nodes
         /\ \A i \in 1..Len(p) : p[i] \in DOMAIN nodes
         /\ p[1] \in Tree =>
              \A i \in 1..Len(p) : /\ p[i] \in Tree
                                   /\ i # 1 => /\ i - 1 \in 1..Len(p) /\ p[i - 1] \in Tree
                                               /\ nodes[p[i]].parent = p[i - 1] /\ p[i] # Root
<1>1. Len(p) \in Nat \ {0} /\ DOMAIN p = 1..Len(p)
  BY EmptySeq, LenProperties DEF IsChain
<1>2. \A i \in 1..Len(p) : p[i] \in DOMAIN nodes
  BY ElementOfSeq DEF IsChain
<1>3. \A i \in 1..(Len(p) - 1) : p[i + 1] \in nodes[p[i]].children
  BY DEF IsChain
<1>4. ASSUME p[1] \in Tree
      PROVE  \A i \in 1..Len(p) : p[i] \in Tree
  <2> DEFINE T == {i \in 1..Len(p) : p[i] \notin Tree}
  <2>1. SUFFICES ASSUME T # {} PROVE FALSE
    OBVIOUS
  <2>2. PICK i \in T : \A j \in T : i <= j
    BY <1>1, <2>1, LeastNatural, T \in SUBSET Nat
  <2>3. i # 1 /\ i - 1 \in 1..(Len(p) - 1) /\ i - 1 \in 1..Len(p) /\ (i - 1) + 1 = i /\ ~(i <= i - 1)
    BY <1>1, <1>4, <2>2
  <2>4. p[i - 1] \in Tree
    BY <2>2, <2>3
  <2>5. p[i] \in nodes[p[i - 1]].children
    BY <1>3, <2>3
  <2> QED BY <2>2, <2>4, <2>5, TreeFacts
<1>5. ASSUME p[1] \in Tree, NEW i \in 1..Len(p), i # 1
      PROVE  i - 1 \in 1..Len(p) /\ p[i - 1] \in Tree /\ nodes[p[i]].parent = p[i - 1] /\ p[i] # Root
  <2>1. i - 1 \in 1..(Len(p) - 1) /\ i - 1 \in 1..Len(p) /\ (i - 1) + 1 = i
    BY <1>1, <1>5
  <2>2. p[i] \in nodes[p[i - 1]].children
    BY <1>3, <2>1
  <2>3. p[i - 1] \in Tree
    BY <1>4, <1>5, <2>1
  <2> QED BY <2>1, <2>2, <2>3, TreeFacts
<1>6. 1 \in 1..Len(p) /\ Len(p) \in 1..Len(p)
  BY <1>1
<1> QED BY <1>1, <1>2, <1>4, <1>5, <1>6 DEF EndOf

LEMMA ChainOne ==
  ASSUME NEW n \in DOMAIN nodes
  PROVE  IsChain(<<n>>) /\ <<n>> \in Seq(DOMAIN nodes) /\ Len(<<n>>) = 1 /\ <<n>>[1] = n /\ EndOf(<<n>>) = n
<1>1. <<n>> \in Seq(DOMAIN nodes) /\ Len(<<n>>) = 1 /\ <<n>>[1] = n /\ <<n>> # << >>
  OBVIOUS
<1>2. 1..(1 - 1) = {}
  OBVIOUS
<1> QED BY <1>1, <1>2 DEF IsChain, EndOf

\* A way, and on from a child of its end.
LEMMA ChainJoin ==
  ASSUME TypeOK, HasTree, ShapeOK, NEW p, NEW q, IsChain(p), IsChain(q), q[1] \in nodes[EndOf(p)].children
  PROVE  /\ IsChain(p \o q) /\ (p \o q)[1] = p[1] /\ EndOf(p \o q) = EndOf(q) /\ Len(p \o q) = Len(p) + Len(q)
         /\ Range(p \o q) = Range(p) \cup Range(q)
<1>1. /\ p \in Seq(DOMAIN nodes) /\ q \in Seq(DOMAIN nodes)
      /\ \A i \in 1..(Len(p) - 1) : p[i + 1] \in nodes[p[i]].children
      /\ \A i \in 1..(Len(q) - 1) : q[i + 1] \in nodes[q[i]].children
  BY DEF IsChain
<1>2. Len(p) \in Nat \ {0} /\ Len(q) \in Nat \ {0}
  BY ChainFacts
<1>3. /\ p \o q \in Seq(DOMAIN nodes) /\ Len(p \o q) = Len(p) + Len(q)
      /\ \A i \in 1..(Len(p) + Len(q)) : (p \o q)[i] = IF i <= Len(p) THEN p[i] ELSE q[i - Len(p)]
  BY <1>1, ConcatProperties
<1>4. (p \o q)[1] = p[1] /\ EndOf(p \o q) = EndOf(q)
  <2>1. 1 \in 1..(Len(p) + Len(q)) /\ 1 <= Len(p) /\ Len(p) + Len(q) \in 1..(Len(p) + Len(q))
        /\ ~(Len(p) + Len(q) <= Len(p)) /\ (Len(p) + Len(q)) - Len(p) = Len(q)
    BY <1>2
  <2> QED BY <1>3, <2>1 DEF EndOf
<1>5. p \o q # << >>
  <2>1. Len(p) + Len(q) # 0
    BY <1>2
  <2> QED BY <1>3, <2>1, EmptySeq
<1>6. ASSUME NEW i \in 1..((Len(p) + Len(q)) - 1)
      PROVE  (p \o q)[i + 1] \in nodes[(p \o q)[i]].children
  <2>1. i \in 1..(Len(p) + Len(q)) /\ i + 1 \in 1..(Len(p) + Len(q))
    BY <1>2
  <2>2. CASE i < Len(p)
    <3>1. i <= Len(p) /\ i + 1 <= Len(p) /\ i \in 1..(Len(p) - 1)
      BY <1>2, <2>2
    <3> QED BY <1>1, <1>3, <2>1, <3>1
  <2>3. CASE i = Len(p)
    <3>1. i <= Len(p) /\ ~(i + 1 <= Len(p)) /\ (i + 1) - Len(p) = 1
      BY <1>2, <2>3
    <3>2. (p \o q)[i] = EndOf(p) /\ (p \o q)[i + 1] = q[1]
      BY <1>3, <2>1, <2>3, <3>1 DEF EndOf
    <3> QED BY <3>2
  <2>4. CASE i > Len(p)
    <3> DEFINE j == i - Len(p)
    <3>1. ~(i <= Len(p)) /\ ~(i + 1 <= Len(p)) /\ (i + 1) - Len(p) = j + 1 /\ j \in 1..(Len(q) - 1)
      BY <1>2, <2>4
    <3>2. (p \o q)[i] = q[j] /\ (p \o q)[i + 1] = q[j + 1]
      BY <1>3, <2>1, <3>1
    <3> QED BY <1>1, <3>1, <3>2
  <2> QED BY <1>2, <2>2, <2>3, <2>4
<1>7. Range(p \o q) = Range(p) \cup Range(q)
  BY <1>1, RangeConcatenation
<1> QED BY <1>3, <1>4, <1>5, <1>6, <1>7 DEF IsChain

\* The first and the last part of a way.
LEMMA ChainParts ==
  ASSUME TypeOK, HasTree, ShapeOK, NEW p, IsChain(p), NEW i \in 1..Len(p)
  PROVE  LET head == SubSeq(p, 1, i)
             tail == SubSeq(p, i, Len(p))
         IN /\ IsChain(head) /\ head[1] = p[1] /\ EndOf(head) = p[i] /\ Len(head) = i
            /\ IsChain(tail) /\ tail[1] = p[i] /\ EndOf(tail) = EndOf(p)
            /\ i # 1 => i - 1 \in 1..Len(p) /\ p = SubSeq(p, 1, i - 1) \o tail
<1> DEFINE head == SubSeq(p, 1, i)
           tail == SubSeq(p, i, Len(p))
<1>1. /\ Len(p) \in Nat \ {0} /\ \A j \in 1..Len(p) : p[j] \in DOMAIN nodes
  BY ChainFacts
<1>2. p \in Seq(DOMAIN nodes) /\ \A j \in 1..(Len(p) - 1) : p[j + 1] \in nodes[p[j]].children
  BY DEF IsChain
<1>3. /\ head \in Seq(DOMAIN nodes) /\ Len(head) = i /\ \A j \in 1..i : head[j] = p[j]
  <2>1. i \in 0..Len(p)
    BY <1>1
  <2> QED BY <1>2, <2>1, FirstTokens
<1>4. /\ tail \in Seq(DOMAIN nodes) /\ Len(tail) = (Len(p) - i) + 1
      /\ \A j \in 1..((Len(p) - i) + 1) : tail[j] = p[(i + j) - 1]
  <2>1. i \in Int /\ Len(p) \in Int /\ i <= Len(p) /\ \A j \in i..Len(p) : p[j] \in DOMAIN nodes
    BY <1>1
  <2>2. /\ tail \in Seq(DOMAIN nodes) /\ Len(tail) = IF i <= Len(p) THEN Len(p) - i + 1 ELSE 0
        /\ \A j \in 1..(Len(p) - i + 1) : tail[j] = p[i + j - 1]
    BY <2>1, SubSeqProperties
  <2> QED BY <2>1, <2>2
<1>5. IsChain(head) /\ head[1] = p[1] /\ EndOf(head) = p[i]
  <2>1. head # << >>
    BY <1>3, EmptySeq
  <2>2. ASSUME NEW j \in 1..(i - 1)
        PROVE  head[j + 1] \in nodes[head[j]].children
    <3>1. j \in 1..i /\ j + 1 \in 1..i /\ j \in 1..(Len(p) - 1)
      BY <1>1
    <3> QED BY <1>2, <1>3, <3>1
  <2>3. 1 \in 1..i /\ i \in 1..i
    BY <1>1
  <2> QED BY <1>3, <2>1, <2>2, <2>3 DEF IsChain, EndOf
<1>6. IsChain(tail) /\ tail[1] = p[i] /\ EndOf(tail) = EndOf(p)
  <2> DEFINE k == (Len(p) - i) + 1
  <2>1. k \in Nat \ {0} /\ 1 \in 1..k /\ k \in 1..k /\ (i + 1) - 1 = i /\ (i + k) - 1 = Len(p)
    BY <1>1
  <2>2. tail # << >>
    BY <1>4, <2>1, EmptySeq
  <2>3. ASSUME NEW j \in 1..(k - 1)
        PROVE  tail[j + 1] \in nodes[tail[j]].children
    <3>1. j \in 1..k /\ j + 1 \in 1..k /\ (i + j) - 1 \in 1..(Len(p) - 1) /\ (i + (j + 1)) - 1 = ((i + j) - 1) + 1
      BY <1>1
    <3>2. tail[j] = p[(i + j) - 1] /\ tail[j + 1] = p[((i + j) - 1) + 1]
      BY <1>4, <3>1
    <3> QED BY <1>2, <3>1, <3>2
  <2>4. tail[1] = p[i] /\ tail[k] = p[Len(p)] /\ Len(tail) = k
    BY <1>4, <2>1
  <2> HIDE DEF tail, k
  <2> QED BY <1>4, <2>2, <2>3, <2>4 DEF IsChain, EndOf
<1>7. ASSUME i # 1
      PROVE  i - 1 \in 1..Len(p) /\ p = SubSeq(p, 1, i - 1) \o tail
  <2> DEFINE k == i - 1
  <2>1. 1 \in 1..(Len(p) + 1) /\ k \in (1 - 1)..Len(p) /\ Len(p) \in k..Len(p) /\ k + 1 = i /\ k \in 1..Len(p)
    BY <1>1, <1>7
  <2>2. SubSeq(p, 1, k) \o SubSeq(p, k + 1, Len(p)) = SubSeq(p, 1, Len(p))
    <3> HIDE DEF k
    <3> QED BY <1>2, <2>1, ConcatAdjacentSubSeq
  <2>3. SubSeq(p, 1, Len(p)) = p
    BY <1>2, SubSeqFull
  <2> QED BY <2>1, <2>2, <2>3
<1> QED BY <1>3, <1>5, <1>6, <1>7

LEMMA OneOf ==
  ASSUME NEW S, NEW s \in Seq(S), NEW i \in 1..Len(s)
  PROVE  SubSeq(s, i, i) = <<s[i]>>
<1>1. i \in Nat /\ i \in i..Len(s) /\ i < i + 1 /\ i + 1 \in Int /\ i \in Int
  BY LenProperties
<1>2. SubSeq(s, i, i) = <<s[i]>> \o SubSeq(s, i + 1, i)
  BY <1>1, SubSeqRecursiveFirst
<1>3. SubSeq(s, i + 1, i) = << >>
  BY <1>1, SubSeqEmpty
<1>4. <<s[i]>> \in Seq(S)
  BY ElementOfSeq
<1>5. <<s[i]>> \o << >> = <<s[i]>>
  BY <1>4, ConcatEmptySeq
<1> QED BY <1>2, <1>3, <1>5

\* The end of a way from the root and the node before it.
LEMMA ChainEnd ==
  ASSUME TypeOK, HasTree, ShapeOK, NEW u, IsChain(u), u[1] = Root
  PROVE  /\ Len(u) \in Nat \ {0} /\ Len(u) \in 1..Len(u) /\ EndOf(u) = u[Len(u)] /\ EndOf(u) \in Tree
         /\ Len(u) # 1 => Len(u) - 1 \in 1..Len(u) /\ nodes[EndOf(u)].parent = u[Len(u) - 1] /\ EndOf(u) # Root
<1>1. Root \in Tree
  BY TreeFacts
<1>2. Len(u) \in Nat \ {0}
  BY ChainFacts
<1>3. \A i \in 1..Len(u) : /\ u[i] \in Tree
                           /\ i # 1 => i - 1 \in 1..Len(u) /\ nodes[u[i]].parent = u[i - 1] /\ u[i] # Root
  BY <1>1, ChainFacts
<1>4. Len(u) \in 1..Len(u) /\ EndOf(u) = u[Len(u)]
  BY <1>2 DEF EndOf
<1> QED BY <1>2, <1>3, <1>4

\* There is one way from the root to each node of the tree.
LEMMA WayTo ==
  ASSUME TypeOK, HasTree, ShapeOK, NEW n \in Tree
  PROVE  \E p : IsChain(p) /\ p[1] = Root /\ EndOf(p) = n
<1> DEFINE Way(p, m) == IsChain(p) /\ p[1] = Root /\ EndOf(p) = m
           T == {m \in Tree : \A p : ~Way(p, m)}
<1>1. SUFFICES ASSUME T # {} PROVE FALSE
  OBVIOUS
<1>2. Tree \subseteq Nat
  BY TreeFacts, NodeFacts
<1>3. PICK m \in T : \A k \in T : m <= k
  <2>1. T \in SUBSET Nat
    BY <1>2
  <2> HIDE DEF T
  <2> QED BY <1>1, <2>1, LeastNatural
<1>4. m \in Tree /\ m \in DOMAIN nodes /\ \A p : ~Way(p, m)
  BY <1>3, TreeFacts
<1>5. m # Root
  <2>1. Root \in DOMAIN nodes
    BY NodeFacts
  <2>2. Way(<<Root>>, Root)
    BY <2>1, ChainOne
  <2> QED BY <1>4, <2>2
<1> DEFINE k == nodes[m].parent
<1>6. k \in Tree /\ k < m /\ m \in nodes[k].children
  BY <1>4, <1>5, TreeFacts
<1>7. k \notin T
  <2>1. k \in Nat /\ m \in Nat
    BY <1>2, <1>4, <1>6
  <2>2. ~(m <= k)
    BY <1>6, <2>1
  <2> QED BY <1>3, <2>2
<1>8. PICK p : Way(p, k)
  BY <1>6, <1>7
<1>9. IsChain(<<m>>) /\ <<m>>[1] = m /\ EndOf(<<m>>) = m
  BY <1>4, ChainOne
<1>10. Way(p \o <<m>>, m)
  <2>1. IsChain(p) /\ p[1] = Root /\ EndOf(p) = k /\ <<m>>[1] \in nodes[EndOf(p)].children
    BY <1>6, <1>8, <1>9
  <2> QED BY <1>9, <2>1, ChainJoin
<1> QED BY <1>4, <1>10

LEMMA OneWay ==
  ASSUME TypeOK, HasTree, ShapeOK,
         NEW p, NEW q, IsChain(p), IsChain(q), p[1] = Root, q[1] = Root, EndOf(p) = EndOf(q)
  PROVE  p = q
<1> DEFINE T == {k \in Nat : \E u, v : /\ IsChain(u) /\ IsChain(v) /\ u[1] = Root /\ v[1] = Root
                                       /\ EndOf(u) = EndOf(v) /\ u # v /\ k = Len(u)}
<1>1. SUFFICES ASSUME p # q PROVE FALSE
  OBVIOUS
<1>2. Len(p) \in T
  BY <1>1, ChainFacts
<1>3. PICK k \in T : \A j \in T : k <= j
  <2>1. T \in SUBSET Nat /\ T # {}
    BY <1>2
  <2> HIDE DEF T
  <2> QED BY <2>1, LeastNatural
<1>4. PICK u, v : /\ IsChain(u) /\ IsChain(v) /\ u[1] = Root /\ v[1] = Root
                  /\ EndOf(u) = EndOf(v) /\ u # v /\ k = Len(u)
  BY <1>3
<1>6. /\ Len(u) \in Nat \ {0} /\ Len(u) \in 1..Len(u) /\ EndOf(u) = u[Len(u)]
      /\ Len(u) # 1 => Len(u) - 1 \in 1..Len(u) /\ nodes[EndOf(u)].parent = u[Len(u) - 1] /\ EndOf(u) # Root
  BY <1>4, ChainEnd
<1>7. /\ Len(v) \in Nat \ {0} /\ Len(v) \in 1..Len(v) /\ EndOf(v) = v[Len(v)]
      /\ Len(v) # 1 => Len(v) - 1 \in 1..Len(v) /\ nodes[EndOf(v)].parent = v[Len(v) - 1] /\ EndOf(v) # Root
  BY <1>4, ChainEnd
<1>8. CASE Len(u) = 1 \/ Len(v) = 1
  <2>1. EndOf(u) = Root \/ EndOf(v) = Root
    BY <1>4, <1>8 DEF EndOf
  <2>2. Len(u) = 1 /\ Len(v) = 1
    BY <1>4, <1>6, <1>7, <2>1
  <2>3. u \in Seq(DOMAIN nodes) /\ v \in Seq(DOMAIN nodes)
    BY <1>4 DEF IsChain
  <2>4. \A i \in 1..Len(u) : u[i] = v[i]
    BY <1>4, <2>2
  <2>5. u = v
    BY <2>2, <2>3, <2>4, SeqEqual
  <2> QED BY <1>4, <2>5
<1>9. CASE Len(u) # 1 /\ Len(v) # 1
  <2> DEFINE a == SubSeq(u, 1, Len(u) - 1)
             b == SubSeq(v, 1, Len(v) - 1)
  <2>1. Len(u) - 1 \in 1..Len(u) /\ Len(v) - 1 \in 1..Len(v) /\ u[Len(u) - 1] = v[Len(v) - 1]
    BY <1>4, <1>6, <1>7, <1>9
  <2>2. IsChain(a) /\ a[1] = Root /\ EndOf(a) = u[Len(u) - 1] /\ Len(a) = Len(u) - 1
    BY <1>4, <2>1, ChainParts
  <2>3. IsChain(b) /\ b[1] = Root /\ EndOf(b) = v[Len(v) - 1]
    BY <1>4, <2>1, ChainParts
  <2>4. a = b
    <3>1. SUFFICES ASSUME a # b PROVE FALSE
      OBVIOUS
    <3>2. Len(u) - 1 \in T
      <4>1. Len(u) - 1 \in Nat
        BY <1>6
      <4>2. IsChain(a) /\ IsChain(b) /\ a[1] = Root /\ b[1] = Root /\ EndOf(a) = EndOf(b) /\ Len(u) - 1 = Len(a)
        BY <2>1, <2>2, <2>3
      <4> HIDE DEF a, b
      <4> QED BY <3>1, <4>1, <4>2
    <3> HIDE DEF T
    <3>3. k <= Len(u) - 1
      BY <1>3, <3>2
    <3> QED BY <1>4, <1>6, <3>3
  <2>5. u = a \o <<EndOf(u)>> /\ v = b \o <<EndOf(v)>>
    <3>1. u = a \o SubSeq(u, Len(u), Len(u))
      BY <1>4, <1>6, <1>9, ChainParts
    <3>2. v = b \o SubSeq(v, Len(v), Len(v))
      BY <1>4, <1>7, <1>9, ChainParts
    <3>3. SubSeq(u, Len(u), Len(u)) = <<u[Len(u)]>> /\ SubSeq(v, Len(v), Len(v)) = <<v[Len(v)]>>
      <4>1. u \in Seq(DOMAIN nodes) /\ v \in Seq(DOMAIN nodes)
        BY <1>4 DEF IsChain
      <4> QED BY <1>6, <1>7, <4>1, OneOf
    <3> QED BY <1>6, <1>7, <3>1, <3>2, <3>3
  <2> HIDE DEF a, b
  <2> QED BY <1>4, <2>4, <2>5
<1> QED BY <1>8, <1>9

\* What _enumerate_leaf_paths returns for a node.
PathsOf(f, n) == IF IsLeaf(n) THEN {<<n>>} ELSE UNION {{<<n>> \o p : p \in f[c]} : c \in nodes[n].children}
Ways == [n \in DOMAIN nodes |-> Down(n)]

LEMMA WaysArePaths ==
  ASSUME TypeOK, HasTree, ShapeOK, NEW n \in DOMAIN nodes
  PROVE  Down(n) = PathsOf(Ways, n)
<1>1. IsLeaf(n) <=> nodes[n].children = {}
  BY DEF ShapeOK, IsLeaf
<1>2. \A c \in nodes[n].children : c \in DOMAIN nodes /\ Ways[c] = Down(c)
  BY DEF Ways, ShapeOK
<1>3. IsChain(<<n>>) /\ <<n>> \in Seq(DOMAIN nodes) /\ Len(<<n>>) = 1 /\ <<n>>[1] = n /\ EndOf(<<n>>) = n
  BY ChainOne
<1>4. ASSUME NEW p \in Down(n)
      PROVE  p \in PathsOf(Ways, n)
  <2>1. IsChain(p) /\ p[1] = n /\ IsLeaf(EndOf(p)) /\ p \in Seq(DOMAIN nodes)
    BY <1>4 DEF Down
  <2>2. Len(p) \in Nat \ {0} /\ EndOf(p) = p[Len(p)]
    BY <2>1, ChainFacts DEF EndOf
  <2>3. \A i \in 1..(Len(p) - 1) : p[i + 1] \in nodes[p[i]].children
    BY <2>1 DEF IsChain
  <2>4. CASE Len(p) = 1
    <3>1. \A i \in 1..Len(p) : p[i] = <<n>>[i]
      BY <2>1, <2>4
    <3>2. p = <<n>>
      BY <1>3, <2>1, <2>4, <3>1, SeqEqual
    <3> QED BY <2>1, <2>2, <2>4, <3>2 DEF PathsOf
  <2>5. CASE Len(p) # 1
    <3> DEFINE q == SubSeq(p, 2, Len(p))
    <3>1. 1 \in 1..(Len(p) - 1) /\ 2 \in 1..Len(p) /\ 2 # 1 /\ 2 - 1 = 1 /\ 1 + 1 = 2
      <4> DEFINE k == Len(p)
      <4>1. k \in Nat \ {0} /\ k # 1
        BY <2>2, <2>5
      <4> HIDE DEF k
      <4>2. 1 \in 1..(k - 1) /\ 2 \in 1..k
        BY <4>1
      <4> QED BY <4>2 DEF k
    <3>2. p[2] \in nodes[n].children
      BY <2>1, <2>3, <3>1
    <3>3. IsChain(q) /\ q[1] = p[2] /\ EndOf(q) = EndOf(p) /\ p = SubSeq(p, 1, 1) \o q
      BY <2>1, <3>1, ChainParts
    <3>4. SubSeq(p, 1, 1) = <<n>>
      <4>1. 1 \in 1..Len(p)
        BY <2>2
      <4> QED BY <2>1, <4>1, OneOf
    <3> HIDE DEF q
    <3>5. q \in Down(p[2]) /\ p = <<n>> \o q
      BY <2>1, <3>3, <3>4 DEF Down, IsChain
    <3>6. ~IsLeaf(n)
      BY <1>1, <3>2
    <3>7. p \in {<<n>> \o r : r \in Ways[p[2]]}
      BY <1>2, <3>2, <3>5
    <3>8. p \in UNION {{<<n>> \o r : r \in Ways[c]} : c \in nodes[n].children}
      BY <3>2, <3>7
    <3> QED BY <3>6, <3>8 DEF PathsOf
  <2> QED BY <2>4, <2>5
<1>5. ASSUME NEW p \in PathsOf(Ways, n)
      PROVE  p \in Down(n)
  <2>1. CASE IsLeaf(n)
    <3>1. p = <<n>>
      BY <1>5, <2>1 DEF PathsOf
    <3> QED BY <1>3, <2>1, <3>1 DEF Down
  <2>2. CASE ~IsLeaf(n)
    <3>1. PICK c \in nodes[n].children : \E q \in Ways[c] : p = <<n>> \o q
      BY <1>5, <2>2 DEF PathsOf
    <3>0. PICK q \in Ways[c] : p = <<n>> \o q
      BY <3>1
    <3>2. IsChain(q) /\ q[1] = c /\ IsLeaf(EndOf(q))
      BY <1>2, <3>0 DEF Down
    <3>3. q[1] \in nodes[EndOf(<<n>>)].children
      BY <1>3, <3>1, <3>2
    <3>4. IsChain(p) /\ p[1] = n /\ EndOf(p) = EndOf(q)
      BY <1>3, <3>0, <3>2, <3>3, ChainJoin
    <3> QED BY <3>2, <3>4 DEF Down, IsChain
  <2> QED BY <2>1, <2>2
<1> QED BY <1>4, <1>5

LEMMA PathsAre ==
  ASSUME TypeOK, HasTree, ShapeOK
  PROVE  \A n \in DOMAIN nodes : PathsFrom[n] = Down(n)
<1> DEFINE body(f, n) == IF IsLeaf(n) THEN {<<n>>} ELSE UNION {{<<n>> \o p : p \in f[c]} : c \in nodes[n].children}
<1>1. Ways = [n \in DOMAIN nodes |-> body(Ways, n)]
  <2>1. \A n \in DOMAIN nodes : Down(n) = body(Ways, n)
    BY WaysArePaths DEF PathsOf
  <2> QED BY <2>1 DEF Ways
<1>2. \E f : f = [n \in DOMAIN nodes |-> body(f, n)]
  BY <1>1
<1>3. PathsFrom = [n \in DOMAIN nodes |-> body(PathsFrom, n)]
  <2>1. PathsFrom = CHOOSE f : f = [n \in DOMAIN nodes |-> body(f, n)]
    BY DEF PathsFrom
  <2> DEFINE Sol(f) == f = [n \in DOMAIN nodes |-> body(f, n)]
  <2>2. (\E f : Sol(f)) => Sol(CHOOSE f : Sol(f))
    BY Zenon
  <2> QED BY <1>2, <2>1, <2>2
<1> DEFINE T == {n \in DOMAIN nodes : PathsFrom[n] # Down(n)}
           H == {k \in Nat : Len(nodes) - k \in T}
<1>4. SUFFICES ASSUME T # {} PROVE FALSE
  OBVIOUS
<1>5. Len(nodes) \in Nat \ {0} /\ DOMAIN nodes = 1..Len(nodes)
  BY NodeFacts
<1>6. PICK n \in T : \A m \in T : m <= n
  <2>1. H \in SUBSET Nat /\ H # {}
    <3>1. PICK n \in T : TRUE
      BY <1>4
    <3>2. Len(nodes) - n \in Nat /\ Len(nodes) - (Len(nodes) - n) = n
      BY <1>5
    <3>3. Len(nodes) - n \in H
      BY <3>2
    <3> QED BY <3>3
  <2> HIDE DEF T
  <2>2. PICK k \in H : \A j \in H : k <= j
    <3> HIDE DEF H
    <3> QED BY <2>1, LeastNatural
  <2>3. ASSUME NEW m \in T
        PROVE  m <= Len(nodes) - k
    <3>1. m \in 1..Len(nodes)
      BY <1>5 DEF T
    <3>2. Len(nodes) - m \in Nat /\ Len(nodes) - (Len(nodes) - m) = m
      BY <1>5, <3>1
    <3>3. Len(nodes) - m \in H
      BY <3>2
    <3> HIDE DEF H
    <3>4. k <= Len(nodes) - m
      BY <2>2, <3>3
    <3>5. k \in Nat
      BY <2>1, <2>2
    <3> QED BY <1>5, <3>1, <3>4, <3>5
  <2>4. Len(nodes) - k \in T
    BY <2>2
  <2> QED BY <2>3, <2>4
<1>7. ASSUME NEW c \in nodes[n].children
      PROVE  c \in DOMAIN nodes /\ PathsFrom[c] = Ways[c]
  <2>1. c \in DOMAIN nodes /\ n < c
    BY <1>6, <1>7 DEF ShapeOK
  <2>2. ~(c <= n)
    BY <1>5, <1>6, <2>1
  <2>3. PathsFrom[c] = Down(c)
    BY <1>6, <2>1, <2>2
  <2> QED BY <2>1, <2>3 DEF Ways
<1>8. body(PathsFrom, n) = body(Ways, n)
  BY <1>7
<1>9. PathsFrom[n] = body(PathsFrom, n)
  BY <1>3, <1>6
<1>10. Down(n) = body(Ways, n)
  BY <1>6, WaysArePaths DEF PathsOf
<1> QED BY <1>6, <1>8, <1>9, <1>10

\* The leaves under a node are those whose way passes it.
LEMMA UnderFacts ==
  ASSUME TypeOK, HasTree, ShapeOK, NEW n \in Tree
  PROVE  /\ \A l \in LeavesUnder(n) : l \in Leaves /\ \E p \in Down(Root) : EndOf(p) = l /\ n \in Range(p)
         /\ \A p \in Down(Root) : n \in Range(p) => EndOf(p) \in LeavesUnder(n)
<1>1. n \in DOMAIN nodes /\ Root \in DOMAIN nodes /\ Root \in Tree
  BY TreeFacts
<1>2. LeavesUnder(n) = {EndOf(p) : p \in Down(n)}
  BY <1>1, PathsAre DEF LeavesUnder, Last, EndOf
<1>3. ASSUME NEW q \in Down(n)
      PROVE  EndOf(q) \in Leaves /\ \E p \in Down(Root) : EndOf(p) = EndOf(q) /\ n \in Range(p)
  <2>1. IsChain(q) /\ q[1] = n /\ IsLeaf(EndOf(q))
    BY <1>3 DEF Down
  <2>2. Len(q) \in Nat \ {0} /\ DOMAIN q = 1..Len(q) /\ \A i \in 1..Len(q) : q[i] \in Tree
    BY <2>1, ChainFacts
  <2>3. EndOf(q) \in Leaves /\ n \in Range(q)
    <3>1. 1 \in DOMAIN q /\ Len(q) \in 1..Len(q)
      BY <2>2
    <3> QED BY <2>1, <2>2, <3>1 DEF Leaves, EndOf, Range
  <2>4. CASE n = Root
    <3>1. q \in Down(Root)
      BY <1>3, <2>4
    <3> QED BY <2>3, <3>1
  <2>5. CASE n # Root
    <3>1. nodes[n].parent \in Tree /\ n \in nodes[nodes[n].parent].children
      BY <2>5, TreeFacts
    <3>2. PICK p : IsChain(p) /\ p[1] = Root /\ EndOf(p) = nodes[n].parent
      BY <3>1, WayTo
    <3>3. IsChain(p \o q) /\ (p \o q)[1] = Root /\ EndOf(p \o q) = EndOf(q) /\ Range(p \o q) = Range(p) \cup Range(q)
      BY <2>1, <3>1, <3>2, ChainJoin
    <3>4. p \o q \in Down(Root)
      BY <2>1, <3>3 DEF Down, IsChain
    <3> QED BY <2>3, <3>3, <3>4
  <2> QED BY <2>4, <2>5
<1>4. ASSUME NEW p \in Down(Root), n \in Range(p)
      PROVE  EndOf(p) \in LeavesUnder(n)
  <2>1. IsChain(p) /\ p[1] = Root /\ IsLeaf(EndOf(p))
    BY <1>4 DEF Down
  <2>2. DOMAIN p = 1..Len(p)
    BY <2>1, ChainFacts
  <2>3. PICK i \in 1..Len(p) : p[i] = n
    BY <1>4, <2>2 DEF Range
  <2> DEFINE q == SubSeq(p, i, Len(p))
  <2>4. IsChain(q) /\ q[1] = n /\ EndOf(q) = EndOf(p)
    BY <2>1, <2>3, ChainParts
  <2> HIDE DEF q
  <2>5. q \in Down(n)
    BY <2>1, <2>4 DEF Down, IsChain
  <2> QED BY <1>2, <2>4, <2>5
<1> QED BY <1>2, <1>3, <1>4

\* The ways from the root.
LEMMA RootPaths ==
  ASSUME TypeOK, HasTree, ShapeOK
  PROVE  /\ PathsFrom[Root] = Down(Root) /\ LeavesUnder(Root) = Leaves
         /\ UNION {Range(p) : p \in PathsFrom[Root]} \subseteq Tree
         /\ \A p, q \in Down(Root) : EndOf(p) = EndOf(q) => p = q
         /\ \A p \in Down(Root) : /\ IsChain(p) /\ p[1] = Root /\ EndOf(p) \in Leaves
                                  /\ Len(p) \in Nat \ {0} /\ DOMAIN p = 1..Len(p)
                                  /\ \A i \in 1..Len(p) : p[i] \in Tree
         /\ \A n \in Leaves : \E p \in Down(Root) : EndOf(p) = n
<1>1. Root \in Tree /\ Root \in DOMAIN nodes /\ PathsFrom[Root] = Down(Root)
  BY TreeFacts, PathsAre
<1>2. ASSUME NEW p \in Down(Root)
      PROVE  /\ IsChain(p) /\ p[1] = Root /\ EndOf(p) \in Leaves
             /\ Len(p) \in Nat \ {0} /\ DOMAIN p = 1..Len(p)
             /\ \A i \in 1..Len(p) : p[i] \in Tree
  <2>1. IsChain(p) /\ p[1] = Root /\ IsLeaf(EndOf(p))
    BY <1>2 DEF Down
  <2>2. Len(p) \in Nat \ {0} /\ DOMAIN p = 1..Len(p) /\ \A i \in 1..Len(p) : p[i] \in Tree
    BY <1>1, <2>1, ChainFacts
  <2>3. EndOf(p) \in Tree
    BY <2>1, ChainEnd
  <2> QED BY <2>1, <2>2, <2>3 DEF Leaves
<1>3. \A p, q \in Down(Root) : EndOf(p) = EndOf(q) => p = q
  BY <1>2, OneWay
<1>4. ASSUME NEW n \in Leaves
      PROVE  \E p \in Down(Root) : EndOf(p) = n
  <2>1. n \in Tree /\ IsLeaf(n)
    BY <1>4 DEF Leaves
  <2>2. PICK p : IsChain(p) /\ p[1] = Root /\ EndOf(p) = n
    BY <2>1, WayTo
  <2> QED BY <2>1, <2>2 DEF Down, IsChain
<1>5. LeavesUnder(Root) = Leaves
  <2>1. LeavesUnder(Root) = {EndOf(p) : p \in Down(Root)}
    BY <1>1 DEF LeavesUnder, Last, EndOf
  <2> QED BY <1>2, <1>4, <2>1
<1>6. UNION {Range(p) : p \in PathsFrom[Root]} \subseteq Tree
  <2>1. \A p \in Down(Root) : Range(p) \subseteq Tree
    BY <1>2 DEF Range
  <2> QED BY <1>1, <2>1
<1> QED BY <1>1, <1>2, <1>3, <1>4, <1>5, <1>6

\* Up along the parent pointers (_score_leaf, and the prefix of a fork).
LEMMA TextToIs ==
  ASSUME TypeOK, HasTree, ShapeOK, NEW above \in [DOMAIN nodes -> Seq(Token)], IsAbove(above)
  PROVE  \A n \in DOMAIN nodes : /\ TextTo[n] = above[n] \o nodes[n].segment /\ TextBefore(n) = above[n]
                                 /\ TextTo[n] \in Seq(Token)
<1> DEFINE body(f, n) == (IF nodes[n].parent = None THEN << >> ELSE f[nodes[n].parent]) \o nodes[n].segment
           text == [n \in DOMAIN nodes |-> above[n] \o nodes[n].segment]
<1>1. \A n \in DOMAIN nodes : nodes[n].parent # None => nodes[n].parent \in DOMAIN nodes /\ nodes[n].parent < n
  BY TreeFacts DEF ShapeOK
<1>2. \A n \in DOMAIN nodes : text[n] = body(text, n)
  BY <1>1 DEF IsAbove
<1>3. \E f : f = [n \in DOMAIN nodes |-> body(f, n)]
  <2>1. text = [n \in DOMAIN nodes |-> body(text, n)]
    BY <1>2
  <2> QED BY <2>1
<1>4. TextTo = [n \in DOMAIN nodes |-> body(TextTo, n)]
  <2> DEFINE Sol(f) == f = [n \in DOMAIN nodes |-> body(f, n)]
  <2>1. TextTo = CHOOSE f : Sol(f)
    BY DEF TextTo
  <2>2. (\E f : Sol(f)) => Sol(CHOOSE f : Sol(f))
    BY Zenon
  <2> QED BY <1>3, <2>1, <2>2
<1> DEFINE T == {n \in DOMAIN nodes : TextTo[n] # text[n]}
<1>5. ASSUME T # {} PROVE FALSE
  <2>1. T \in SUBSET Nat /\ DOMAIN nodes \subseteq Nat
    BY NodeFacts
  <2>2. PICK n \in T : \A m \in T : n <= m
    <3> HIDE DEF T
    <3> QED BY <1>5, <2>1, LeastNatural
  <2>3. nodes[n].parent # None => nodes[n].parent \in DOMAIN nodes /\ TextTo[nodes[n].parent] = text[nodes[n].parent]
    <3>1. SUFFICES ASSUME nodes[n].parent # None
                   PROVE  nodes[n].parent \in DOMAIN nodes /\ nodes[n].parent \notin T
      OBVIOUS
    <3>2. nodes[n].parent \in DOMAIN nodes /\ nodes[n].parent < n /\ n \in DOMAIN nodes
      BY <1>1, <2>2, <3>1
    <3>3. ~(n <= nodes[n].parent)
      BY <2>1, <3>2
    <3> QED BY <2>2, <3>2, <3>3
  <2>4. n \in DOMAIN nodes /\ TextTo[n] = body(TextTo, n) /\ text[n] = body(text, n)
    BY <1>2, <1>4, <2>2
  <2>5. body(TextTo, n) = body(text, n)
    BY <2>3
  <2> QED BY <2>2, <2>4, <2>5
<1>6. ASSUME NEW n \in DOMAIN nodes
      PROVE  TextTo[n] = above[n] \o nodes[n].segment
  BY <1>5
<1>7. ASSUME NEW n \in DOMAIN nodes
      PROVE  TextBefore(n) = above[n] /\ TextTo[n] \in Seq(Token)
  <2>1. nodes[n].parent # None => TextTo[nodes[n].parent] = above[nodes[n].parent] \o nodes[nodes[n].parent].segment
    BY <1>1, <1>6
  <2>2. TextBefore(n) = above[n]
    BY <2>1 DEF TextBefore, IsAbove
  <2>3. above[n] \in Seq(Token) /\ nodes[n].segment \in Seq(Token)
    BY NodeFacts
  <2>4. above[n] \o nodes[n].segment \in Seq(Token)
    BY <2>3, ConcatProperties
  <2> QED BY <1>6, <2>2, <2>4
<1> QED BY <1>6, <1>7

-----------------------------------------------------------------------------
(* Texts and rewards, block by block.                                      *)

\* What precedes the i-th block.
Prior(f, i) == IF i = 1 THEN << >> ELSE f[i - 1]

\* Two sequences of blocks of the same lengths: the blocks of the first i
\* cover what is flattened of them, in the same way.
Covered(f, g, ss, tt, i) ==
  /\ \A j \in 1..i : \A m \in 1..Len(ss[j]) :
       /\ Len(Prior(f, j)) + m \in 1..Len(f[i])
       /\ f[i][Len(Prior(f, j)) + m] = ss[j][m] /\ g[i][Len(Prior(f, j)) + m] = tt[j][m]
  /\ \A k \in 1..Len(f[i]) : \E j \in 1..i : \E m \in 1..Len(ss[j]) : k = Len(Prior(f, j)) + m

Matched(S, R, ss, tt, f, g) ==
  /\ ss \in Seq(Seq(S)) /\ tt \in Seq(Seq(R)) /\ Len(tt) = Len(ss)
  /\ \A i \in 1..Len(ss) : Len(tt[i]) = Len(ss[i])
  /\ Flattens(f, ss) /\ Flattens(g, tt)

BlockOK(S, R, ss, tt, f, g, i) ==
  /\ f[i] \in Seq(S) /\ g[i] \in Seq(R) /\ Len(g[i]) = Len(f[i])
  /\ Prior(f, i) \in Seq(S) /\ f[i] = Prior(f, i) \o ss[i]
  /\ Covered(f, g, ss, tt, i)

LEMMA Blocks ==
  ASSUME NEW S, NEW R, NEW ss, NEW tt, NEW f, NEW g, Matched(S, R, ss, tt, f, g)
  PROVE  \A i \in 1..Len(ss) : BlockOK(S, R, ss, tt, f, g, i)
<1> DEFINE Good(i) == BlockOK(S, R, ss, tt, f, g, i)
           T == {i \in 1..Len(ss) : ~Good(i)}
<1>1. SUFFICES ASSUME T # {} PROVE FALSE
  OBVIOUS
<1>0. /\ ss \in Seq(Seq(S)) /\ tt \in Seq(Seq(R)) /\ Len(tt) = Len(ss)
      /\ \A i \in 1..Len(ss) : Len(tt[i]) = Len(ss[i])
      /\ Flattens(f, ss) /\ Flattens(g, tt)
  BY DEF Matched
<1>2. Len(ss) \in Nat
  BY <1>0, LenProperties
<1>3. PICK i \in T : \A j \in T : i <= j
  <2>1. T \in SUBSET Nat
    BY <1>2
  <2> HIDE DEF T
  <2> QED BY <1>1, <2>1, LeastNatural
<1>4. i \in 1..Len(ss) /\ ~Good(i)
  BY <1>3
<1>5. i # 1 => i - 1 \in 1..Len(ss) /\ Good(i - 1)
  <2>1. SUFFICES ASSUME i # 1 PROVE i - 1 \in 1..Len(ss) /\ i - 1 \notin T
    OBVIOUS
  <2>2. i - 1 \in 1..Len(ss) /\ ~(i <= i - 1)
    BY <1>2, <1>4, <2>1
  <2> HIDE DEF T
  <2> QED BY <1>3, <2>2
<1> HIDE DEF T
<1> DEFINE u == Prior(f, i)
           v == Prior(g, i)
<1>6. ss[i] \in Seq(S) /\ tt[i] \in Seq(R) /\ Len(tt[i]) = Len(ss[i]) /\ Len(ss[i]) \in Nat
  <2>1. i \in 1..Len(tt)
    BY <1>0, <1>4
  <2>2. ss[i] \in Seq(S) /\ tt[i] \in Seq(R)
    BY <1>0, <1>4, <2>1, ElementOfSeq
  <2> QED BY <1>0, <1>4, <2>2, LenProperties
<1>7. u \in Seq(S) /\ v \in Seq(R) /\ Len(v) = Len(u) /\ Len(u) \in Nat
  <2>1. CASE i = 1
    BY <2>1, EmptySeq DEF Prior
  <2>2. CASE i # 1
    <3>1. u = f[i - 1] /\ v = g[i - 1]
      BY <2>2 DEF Prior
    <3>2. f[i - 1] \in Seq(S) /\ g[i - 1] \in Seq(R) /\ Len(g[i - 1]) = Len(f[i - 1])
      BY <1>5, <2>2 DEF BlockOK
    <3> HIDE DEF u, v
    <3> QED BY <3>1, <3>2, LenProperties
  <2> QED BY <2>1, <2>2
<1>8. f[i] = u \o ss[i] /\ g[i] = v \o tt[i]
  <2>1. f[i] = (IF i = 1 THEN ss[i] ELSE f[i - 1] \o ss[i]) /\ g[i] = (IF i = 1 THEN tt[i] ELSE g[i - 1] \o tt[i])
    BY <1>0, <1>4 DEF Flattens
  <2>2. << >> \o ss[i] = ss[i] /\ << >> \o tt[i] = tt[i]
    BY <1>6, ConcatEmptySeq
  <2> QED BY <2>1, <2>2 DEF Prior
<1> HIDE DEF u, v
<1> DEFINE s == ss[i]
           t == tt[i]
<1>9. /\ f[i] \in Seq(S) /\ Len(f[i]) = Len(u) + Len(s)
      /\ \A k \in 1..(Len(u) + Len(s)) : f[i][k] = IF k <= Len(u) THEN u[k] ELSE s[k - Len(u)]
  BY <1>6, <1>7, <1>8, ConcatProperties
<1>10. /\ g[i] \in Seq(R) /\ Len(g[i]) = Len(u) + Len(s)
       /\ \A k \in 1..(Len(u) + Len(s)) : g[i][k] = IF k <= Len(u) THEN v[k] ELSE t[k - Len(u)]
  <2>1. /\ v \o t \in Seq(R) /\ Len(v \o t) = Len(v) + Len(t)
        /\ \A k \in 1..(Len(v) + Len(t)) : (v \o t)[k] = IF k <= Len(v) THEN v[k] ELSE t[k - Len(v)]
    BY <1>6, <1>7, ConcatProperties
  <2> HIDE DEF t, s
  <2>2. Len(t) = Len(s)
    BY <1>6 DEF t, s
  <2> QED BY <1>7, <1>8, <2>1, <2>2 DEF t
<1>11. ASSUME NEW j \in 1..i, NEW m \in 1..Len(ss[j])
       PROVE  /\ Len(Prior(f, j)) + m \in 1..Len(f[i])
              /\ f[i][Len(Prior(f, j)) + m] = ss[j][m] /\ g[i][Len(Prior(f, j)) + m] = tt[j][m]
  <2>1. CASE j = i
    <3>1. Len(u) + m \in 1..(Len(u) + Len(s)) /\ ~(Len(u) + m <= Len(u)) /\ (Len(u) + m) - Len(u) = m
      <4>1. m \in 1..Len(s)
        BY <2>1
      <4> HIDE DEF s
      <4> QED BY <1>6, <1>7, <4>1
    <3>2. f[i][Len(u) + m] = s[m] /\ g[i][Len(u) + m] = t[m]
      BY <1>9, <1>10, <3>1
    <3> QED BY <1>9, <2>1, <3>1, <3>2 DEF u
  <2>2. CASE j # i
    <3>1. i # 1 /\ j \in 1..(i - 1) /\ u = f[i - 1] /\ v = g[i - 1]
      BY <1>4, <2>2 DEF u, v, Prior
    <3>2. Covered(f, g, ss, tt, i - 1)
      BY <1>5, <3>1 DEF BlockOK
    <3> DEFINE k == Len(Prior(f, j)) + m
    <3>3. k \in 1..Len(u) /\ u[k] = ss[j][m] /\ v[k] = tt[j][m]
      BY <3>1, <3>2 DEF Covered
    <3> HIDE DEF k, s, t
    <3>4. k \in 1..(Len(u) + Len(s)) /\ k <= Len(u)
      BY <1>6, <1>7, <3>3 DEF s
    <3>5. f[i][k] = u[k] /\ g[i][k] = v[k]
      BY <1>9, <1>10, <3>4
    <3> QED BY <1>9, <3>3, <3>4, <3>5 DEF k
  <2> QED BY <2>1, <2>2
<1>12. ASSUME NEW k \in 1..Len(f[i])
       PROVE  \E j \in 1..i : \E m \in 1..Len(ss[j]) : k = Len(Prior(f, j)) + m
  <2>1. k \in 1..(Len(u) + Len(s))
    BY <1>9
  <2>2. CASE k <= Len(u)
    <3>1. i # 1
      <4>1. Len(u) # 0
        BY <2>1, <2>2, <1>7
      <4> QED BY <4>1, EmptySeq DEF u, Prior
    <3>2. Covered(f, g, ss, tt, i - 1) /\ u = f[i - 1]
      BY <1>5, <3>1 DEF u, Prior, BlockOK
    <3>3. k \in 1..Len(f[i - 1])
      BY <1>7, <2>1, <2>2, <3>2
    <3>4. PICK j \in 1..(i - 1) : \E m \in 1..Len(ss[j]) : k = Len(Prior(f, j)) + m
      BY <3>2, <3>3 DEF Covered
    <3>5. j \in 1..i
      BY <1>4, <3>4
    <3> QED BY <3>4, <3>5
  <2>3. CASE ~(k <= Len(u))
    <3>1. k - Len(u) \in 1..Len(s) /\ k = Len(u) + (k - Len(u))
      <4> HIDE DEF s
      <4> QED BY <1>6, <1>7, <2>1, <2>3 DEF s
    <3>2. i \in 1..i
      BY <1>4
    <3> QED BY <3>1, <3>2 DEF u
  <2> QED BY <2>2, <2>3
<1>13. Covered(f, g, ss, tt, i)
  BY <1>11, <1>12 DEF Covered
<1>14. Good(i)
  BY <1>7, <1>8, <1>9, <1>10, <1>13 DEF u, BlockOK
<1> QED BY <1>4, <1>14

\* The segments along a way, and its text.
Segments(p) == [i \in DOMAIN p |-> nodes[p[i]].segment]

LEMMA WayText ==
  ASSUME TypeOK, HasTree, ShapeOK, NEW above \in [DOMAIN nodes -> Seq(Token)], IsAbove(above),
         NEW p, IsChain(p), p[1] = Root
  PROVE  /\ Segments(p) \in Seq(Seq(Token)) /\ Len(Segments(p)) = Len(p)
         /\ \A i \in 1..Len(p) : Segments(p)[i] = nodes[p[i]].segment
         /\ \A f : Flattens(f, Segments(p)) =>
              \A i \in 1..Len(p) : f[i] = above[p[i]] \o nodes[p[i]].segment
         /\ TextOf(p) = above[EndOf(p)] \o nodes[EndOf(p)].segment
<1> DEFINE ss == Segments(p)
<1>1. /\ Len(p) \in Nat \ {0} /\ DOMAIN p = 1..Len(p) /\ Root \in Tree
      /\ \A i \in 1..Len(p) : p[i] \in DOMAIN nodes
  BY ChainFacts, TreeFacts
<1>2. \A i \in 1..Len(p) : i # 1 => i - 1 \in 1..Len(p) /\ p[i - 1] \in Tree /\ nodes[p[i]].parent = p[i - 1]
  BY <1>1, ChainFacts
<1>3. \A i \in 1..Len(p) : ss[i] = nodes[p[i]].segment /\ ss[i] \in Seq(Token)
  BY <1>1, NodeFacts DEF Segments
<1>4. ss \in Seq(Seq(Token)) /\ Len(ss) = Len(p)
  <2>1. ss = [i \in 1..Len(p) |-> nodes[p[i]].segment]
    BY <1>1 DEF Segments
  <2>2. ss \in [1..Len(p) -> Seq(Token)]
    BY <1>3, <2>1
  <2> HIDE DEF ss
  <2> QED BY <1>1, <2>1, <2>2
<1> HIDE DEF ss
<1>5. ASSUME NEW f, Flattens(f, ss)
      PROVE  \A i \in 1..Len(p) : f[i] = above[p[i]] \o nodes[p[i]].segment
  <2> DEFINE T == {i \in 1..Len(p) : f[i] # above[p[i]] \o nodes[p[i]].segment}
  <2>1. SUFFICES ASSUME T # {} PROVE FALSE
    OBVIOUS
  <2>2. PICK i \in T : \A j \in T : i <= j
    <3>1. T \in SUBSET Nat
      BY <1>1
    <3> HIDE DEF T
    <3> QED BY <2>1, <3>1, LeastNatural
  <2>3. i \in 1..Len(p) /\ f[i] # above[p[i]] \o nodes[p[i]].segment
    BY <2>2
  <2>4. f[i] = IF i = 1 THEN ss[i] ELSE f[i - 1] \o ss[i]
    BY <1>4, <1>5, <2>3 DEF Flattens
  <2>5. p[i] \in DOMAIN nodes /\ ss[i] = nodes[p[i]].segment /\ ss[i] \in Seq(Token)
    BY <1>1, <1>3, <2>3
  <2>6. above[p[i]] = IF nodes[p[i]].parent = None THEN << >>
                      ELSE above[nodes[p[i]].parent] \o nodes[nodes[p[i]].parent].segment
    BY <2>5 DEF IsAbove
  <2>7. CASE i = 1
    <3>1. above[p[i]] = << >>
      BY <2>6, <2>7 DEF ShapeOK
    <3>2. << >> \o ss[i] = ss[i]
      BY <2>5, ConcatEmptySeq
    <3> QED BY <2>3, <2>4, <2>5, <2>7, <3>1, <3>2
  <2>8. CASE i # 1
    <3>1. i - 1 \in 1..Len(p) /\ p[i - 1] \in Tree /\ nodes[p[i]].parent = p[i - 1] /\ p[i - 1] # None
      <4>1. \A n \in Tree : n # None
        BY TreeFacts, NodeFacts DEF None
      <4> QED BY <1>2, <2>3, <2>8, <4>1
    <3>2. i - 1 \notin T
      <4>1. ~(i <= i - 1)
        BY <2>3
      <4> HIDE DEF T
      <4> QED BY <2>2, <4>1
    <3>3. f[i - 1] = above[p[i - 1]] \o nodes[p[i - 1]].segment
      BY <3>1, <3>2
    <3>4. f[i] = above[p[i]] \o ss[i]
      BY <2>4, <2>6, <2>8, <3>1, <3>3
    <3> QED BY <2>3, <2>5, <3>4
  <2> QED BY <2>7, <2>8
<1>6. TextOf(p) = above[EndOf(p)] \o nodes[EndOf(p)].segment
  <2>1. TextOf(p) = FlattenSeq(ss)
    BY DEF TextOf, ss, Segments
  <2>2. Len(ss) # 0 /\ Len(p) \in 1..Len(p)
    BY <1>1, <1>4
  <2>3. PICK f : Flattens(f, ss) /\ FlattenSeq(ss) = f[Len(ss)]
    BY <1>4, <2>2, FlattenIs
  <2> QED BY <1>4, <1>5, <2>1, <2>2, <2>3 DEF EndOf
<1> QED BY <1>3, <1>4, <1>5, <1>6 DEF ss

-----------------------------------------------------------------------------
(* What is read off a tree.                                                *)

LEMMA LeavesRead ==
  ASSUME TypeOK, HasTree => GrowthOK
  PROVE  LeavesAreSamples
<1> DEFINE paths == Down(Root)
<1>1. SUFFICES ASSUME HasTree
               PROVE  /\ Cardinality(paths) = Len(responses)
                      /\ {<<TextOf(p), nodes[EndOf(p)].finish>> : p \in paths}
                           = {<<r.context \o r.tokens, r.finish>> : r \in Range(responses)}
  <2>1. HasTree => PathsFrom[Root] = paths
    BY RootPaths DEF GrowthOK
  <2> HIDE DEF paths
  <2> QED BY <2>1 DEF LeavesAreSamples, Last, EndOf
<1>2. ShapeOK
  BY <1>1 DEF GrowthOK
<1>3. PICK above, own : Links(above, own)
  BY <1>1 DEF GrowthOK
<1>4. /\ above \in [DOMAIN nodes -> Seq(Token)] /\ IsAbove(above) /\ own \in [Leaves -> DOMAIN responses]
      /\ \A n \in Leaves : /\ above[n] \o nodes[n].segment = Full(responses[own[n]])
                           /\ nodes[n].finish = responses[own[n]].finish
      /\ \A m, n \in Leaves : own[m] = own[n] => m = n
      /\ \A r \in DOMAIN responses : \E n \in Leaves : own[n] = r
  BY <1>3 DEF Links, Owns
<1>5. /\ \A p \in paths : IsChain(p) /\ p[1] = Root /\ EndOf(p) \in Leaves
      /\ \A p, q \in paths : EndOf(p) = EndOf(q) => p = q
      /\ \A n \in Leaves : \E p \in paths : EndOf(p) = n
  BY <1>1, <1>2, RootPaths
<1>6. \A p \in paths : TextOf(p) = above[EndOf(p)] \o nodes[EndOf(p)].segment
  BY <1>1, <1>2, <1>4, <1>5, WayText
<1> HIDE DEF paths
<1>7. Cardinality(paths) = Len(responses)
  <2> DEFINE g == [p \in paths |-> own[EndOf(p)]]
  <2>1. g \in [paths -> DOMAIN responses]
    BY <1>4, <1>5
  <2>2. g \in Injection(paths, DOMAIN responses) /\ g \in Surjection(paths, DOMAIN responses)
    <3>1. \A p, q \in paths : g[p] = g[q] => p = q
      BY <1>4, <1>5
    <3>2. \A r \in DOMAIN responses : \E p \in paths : g[p] = r
      BY <1>4, <1>5
    <3> HIDE DEF g
    <3> QED BY <2>1, <3>1, <3>2 DEF Injection, Surjection, IsInjective
  <2>3. DOMAIN responses = 1..Len(responses) /\ Len(responses) \in Nat
    BY ResponseFacts
  <2>4. IsFiniteSet(DOMAIN responses) /\ Cardinality(DOMAIN responses) = Len(responses)
    <3> DEFINE N == Len(responses)
    <3>1. N \in Nat /\ 1 \in Int /\ N \in Int
      BY <2>3
    <3> HIDE DEF N
    <3>2. IsFiniteSet(1..N) /\ Cardinality(1..N) = IF 1 > N THEN 0 ELSE N - 1 + 1
      BY <3>1, FS_Interval
    <3>3. (IF 1 > N THEN 0 ELSE N - 1 + 1) = N
      BY <3>1
    <3>4. IsFiniteSet(1..N) /\ Cardinality(1..N) = N
      BY <3>2, <3>3
    <3> QED BY <2>3, <3>4 DEF N
  <2> HIDE DEF g
  <2>5. Cardinality(paths) = Cardinality(DOMAIN responses)
    BY <2>2, <2>4, FS_Injection
  <2> QED BY <2>4, <2>5
<1>8. ASSUME NEW p \in paths
      PROVE  \E r \in Range(responses) : <<TextOf(p), nodes[EndOf(p)].finish>> = <<r.context \o r.tokens, r.finish>>
  <2>1. EndOf(p) \in Leaves /\ own[EndOf(p)] \in DOMAIN responses
    BY <1>4, <1>5, <1>8
  <2>2. responses[own[EndOf(p)]] \in Range(responses)
    BY <2>1 DEF Range
  <2>3. /\ TextOf(p) = Full(responses[own[EndOf(p)]])
        /\ nodes[EndOf(p)].finish = responses[own[EndOf(p)]].finish
    BY <1>4, <1>6, <1>8, <2>1
  <2> QED BY <2>2, <2>3 DEF Full
<1>9. ASSUME NEW r \in Range(responses)
      PROVE  \E p \in paths : <<TextOf(p), nodes[EndOf(p)].finish>> = <<r.context \o r.tokens, r.finish>>
  <2>1. PICK k \in DOMAIN responses : r = responses[k]
    BY <1>9 DEF Range
  <2>2. PICK n \in Leaves : own[n] = k
    BY <1>4
  <2>3. PICK p \in paths : EndOf(p) = n
    BY <1>5
  <2>4. TextOf(p) = Full(r) /\ nodes[EndOf(p)].finish = r.finish
    BY <1>4, <1>6, <2>1, <2>2, <2>3
  <2> QED BY <2>4 DEF Full
<1>10. {<<TextOf(p), nodes[EndOf(p)].finish>> : p \in paths}
         = {<<r.context \o r.tokens, r.finish>> : r \in Range(responses)}
  <2> DEFINE A == {<<TextOf(p), nodes[EndOf(p)].finish>> : p \in paths}
             B == {<<r.context \o r.tokens, r.finish>> : r \in Range(responses)}
  <2>1. ASSUME NEW z \in A PROVE z \in B
    <3>1. PICK p \in paths : z = <<TextOf(p), nodes[EndOf(p)].finish>>
      BY <2>1
    <3>2. PICK r \in Range(responses) : <<TextOf(p), nodes[EndOf(p)].finish>> = <<r.context \o r.tokens, r.finish>>
      BY <1>8
    <3> QED BY <3>1, <3>2
  <2>2. ASSUME NEW z \in B PROVE z \in A
    <3>1. PICK r \in Range(responses) : z = <<r.context \o r.tokens, r.finish>>
      BY <2>2
    <3>2. PICK p \in paths : <<TextOf(p), nodes[EndOf(p)].finish>> = <<r.context \o r.tokens, r.finish>>
      BY <1>9
    <3> QED BY <3>1, <3>2
  <2> HIDE DEF A, B
  <2>3. A = B
    BY <2>1, <2>2
  <2> QED BY <2>3 DEF A, B
<1> QED BY <1>7, <1>10

\* A way's text holds the tokens of its nodes.
LEMMA WayTokens ==
  ASSUME TypeOK, HasTree, ShapeOK, NEW above \in [DOMAIN nodes -> Seq(Token)], IsAbove(above), NEW p \in Down(Root), NEW x
  PROVE  x \in Range(TextOf(p)) <=> \E i \in 1..Len(p) : x \in Range(nodes[p[i]].segment)
<1> DEFINE ss == Segments(p)
           t == TextOf(p)
<1>1. IsChain(p) /\ p[1] = Root /\ Len(p) \in Nat \ {0} /\ \A i \in 1..Len(p) : p[i] \in Tree
  BY RootPaths
<1>2. ss \in Seq(Seq(Token)) /\ Len(ss) = Len(p) /\ \A i \in 1..Len(p) : ss[i] = nodes[p[i]].segment
  BY <1>1, WayText
<1>3. PICK f : Flattens(f, ss) /\ FlattenSeq(ss) = f[Len(ss)]
  BY <1>1, <1>2, FlattenIs
<1>4. t = f[Len(p)]
  BY <1>2, <1>3 DEF TextOf, Segments
<1> HIDE DEF ss, t
<1>5. Len(p) \in 1..Len(p) /\ Len(p) \in 1..Len(ss)
  BY <1>1, <1>2
<1>6. t \in Seq(Token) /\ Covered(f, f, ss, ss, Len(p))
  <2>1. \A i \in 1..Len(ss) : f[i] \in Seq(Token) /\ Covered(f, f, ss, ss, i)
    <3>1. Matched(Token, Token, ss, ss, f, f)
      BY <1>2, <1>3 DEF Matched
    <3> QED BY <3>1, Blocks DEF BlockOK
  <2> QED BY <1>4, <1>5, <2>1
<1>7. DOMAIN t = 1..Len(t) /\ \A i \in 1..Len(p) : DOMAIN ss[i] = 1..Len(ss[i])
  <2>1. \A i \in 1..Len(p) : ss[i] \in Seq(Token)
    BY <1>2, ElementOfSeq
  <2> QED BY <1>6, <2>1, LenProperties
<1>8. ASSUME x \in Range(t)
      PROVE  \E i \in 1..Len(p) : x \in Range(ss[i])
  <2>1. PICK k \in 1..Len(t) : x = t[k]
    BY <1>7, <1>8 DEF Range
  <2>2. PICK j \in 1..Len(p) : \E m \in 1..Len(ss[j]) : k = Len(Prior(f, j)) + m
    BY <1>4, <1>6, <2>1 DEF Covered
  <2>3. PICK m \in 1..Len(ss[j]) : k = Len(Prior(f, j)) + m
    BY <2>2
  <2>4. t[k] = ss[j][m]
    BY <1>4, <1>6, <2>3 DEF Covered
  <2> QED BY <1>7, <2>1, <2>3, <2>4 DEF Range
<1>9. ASSUME NEW j \in 1..Len(p), x \in Range(ss[j])
      PROVE  x \in Range(t)
  <2>1. PICK m \in 1..Len(ss[j]) : x = ss[j][m]
    BY <1>7, <1>9 DEF Range
  <2>2. Len(Prior(f, j)) + m \in 1..Len(t) /\ t[Len(Prior(f, j)) + m] = ss[j][m]
    BY <1>4, <1>6, <2>1 DEF Covered
  <2> QED BY <1>7, <2>1, <2>2 DEF Range
<1> QED BY <1>2, <1>8, <1>9 DEF t

\* The samples that share a token are the leaves under its node.
LEMMA HoldersFacts ==
  ASSUME TypeOK, HasTree, GrowthOK, IsScored, NEW n \in Tree, NEW x \in Range(nodes[n].segment)
  PROVE  Holders(x) = LeavesUnder(n)
<1>1. ShapeOK /\ TokensOK
  BY DEF GrowthOK
<1>2. PICK above, own : Links(above, own)
  BY DEF GrowthOK
<1>3. above \in [DOMAIN nodes -> Seq(Token)] /\ IsAbove(above)
  BY <1>2 DEF Links
<1>4. LeavesUnder(Root) = Leaves /\ Leaves \subseteq DOMAIN nodes
  BY <1>1, RootPaths, TreeFacts
<1>5. DOMAIN scored = Leaves /\ \A l \in Leaves : scored[l] = TextTo[l]
  <2>1. scored = [l \in Leaves |-> TextTo[l]]
    BY <1>4 DEF IsScored
  <2> QED BY <2>1
<1>6. \A p \in Down(Root) : /\ EndOf(p) \in Leaves /\ TextTo[EndOf(p)] = TextOf(p)
                            /\ x \in Range(TextOf(p)) <=> n \in Range(p)
  <2>1. SUFFICES ASSUME NEW p \in Down(Root)
                 PROVE  /\ EndOf(p) \in Leaves /\ TextTo[EndOf(p)] = TextOf(p)
                        /\ x \in Range(TextOf(p)) <=> n \in Range(p)
    OBVIOUS
  <2>2. /\ IsChain(p) /\ p[1] = Root /\ EndOf(p) \in Leaves /\ DOMAIN p = 1..Len(p)
        /\ \A i \in 1..Len(p) : p[i] \in Tree
    BY <1>1, RootPaths
  <2>3. TextOf(p) = above[EndOf(p)] \o nodes[EndOf(p)].segment
    BY <1>1, <1>3, <2>2, WayText
  <2>4. TextTo[EndOf(p)] = above[EndOf(p)] \o nodes[EndOf(p)].segment
    BY <1>1, <1>3, <1>4, <2>2, TextToIs
  <2>5. x \in Range(TextOf(p)) <=> \E i \in 1..Len(p) : x \in Range(nodes[p[i]].segment)
    BY <1>1, <1>3, WayTokens
  <2>6. \A m \in Tree : x \in Range(nodes[m].segment) <=> m = n
    BY <1>1 DEF TokensOK
  <2>7. (\E i \in 1..Len(p) : x \in Range(nodes[p[i]].segment)) <=> n \in Range(p)
    BY <2>2, <2>6 DEF Range
  <2> QED BY <2>2, <2>3, <2>4, <2>5, <2>7
<1>7. ASSUME NEW l \in Holders(x)
      PROVE  l \in LeavesUnder(n)
  <2>1. l \in Leaves /\ x \in Range(TextTo[l])
    BY <1>5, <1>7 DEF Holders
  <2>2. PICK p \in Down(Root) : EndOf(p) = l
    BY <1>1, <2>1, RootPaths
  <2>3. n \in Range(p)
    BY <1>6, <2>1, <2>2
  <2> QED BY <1>1, <2>2, <2>3, UnderFacts
<1>8. ASSUME NEW l \in LeavesUnder(n)
      PROVE  l \in Holders(x)
  <2>1. PICK p \in Down(Root) : EndOf(p) = l /\ n \in Range(p)
    BY <1>1, <1>8, UnderFacts
  <2>2. l \in Leaves /\ x \in Range(TextTo[l])
    BY <1>6, <2>1
  <2> QED BY <1>5, <2>2 DEF Holders
<1> QED BY <1>7, <1>8

\* The text of a way to a leaf is a request and its answer: it is not cut.
LEMMA TextFits ==
  ASSUME TypeOK, HasTree, GrowthOK, NEW p \in Down(Root)
  PROVE  /\ TextOf(p) \in Seq(Token) /\ TextOf(p) # << >> /\ TextOf(p) = TextTo[EndOf(p)]
         /\ Len(TextOf(p)) \in Nat \ {0} /\ Smaller(Len(TextOf(p)), MaxModelLen - setting.prompt) = Len(TextOf(p))
<1>1. ShapeOK /\ ResponsesOK
  BY DEF GrowthOK
<1>2. PICK above, own : Links(above, own)
  BY DEF GrowthOK
<1>3. /\ above \in [DOMAIN nodes -> Seq(Token)] /\ IsAbove(above) /\ own \in [Leaves -> DOMAIN responses]
      /\ \A n \in Leaves : above[n] \o nodes[n].segment = Full(responses[own[n]])
  BY <1>2 DEF Links, Owns
<1>4. /\ IsChain(p) /\ p[1] = Root /\ EndOf(p) \in Leaves /\ EndOf(p) \in DOMAIN nodes
      /\ Len(p) \in Nat \ {0} /\ DOMAIN p = 1..Len(p)
  BY <1>1, RootPaths, TreeFacts
<1>5. TextOf(p) = above[EndOf(p)] \o nodes[EndOf(p)].segment
  BY <1>1, <1>3, <1>4, WayText
<1>6. TextOf(p) = TextTo[EndOf(p)] /\ TextOf(p) \in Seq(Token)
  BY <1>1, <1>3, <1>4, <1>5, TextToIs
<1>7. setting.prompt + Len(TextOf(p)) <= MaxModelLen
  <2>1. own[EndOf(p)] \in DOMAIN responses /\ TextOf(p) = Full(responses[own[EndOf(p)]])
    BY <1>3, <1>4, <1>5
  <2> QED BY <1>1, <2>1 DEF ResponsesOK
<1>8. TextOf(p) # << >>
  <2>1. Root \in Tree /\ Root \in DOMAIN nodes
    BY <1>1, TreeFacts
  <2>2. nodes[Root].segment \in Seq(Token) /\ nodes[Root].segment # << >>
    BY <1>1, <2>1, NodeFacts DEF ShapeOK
  <2>3. EndOf(nodes[Root].segment) \in Range(nodes[Root].segment)
    BY <2>2, EndFacts
  <2>4. EndOf(nodes[Root].segment) \in Range(TextOf(p))
    <3>1. 1 \in 1..Len(p)
      BY <1>4
    <3> QED BY <1>1, <1>3, <1>4, <2>3, <3>1, WayTokens
  <2>5. Range(<< >>) = {}
    BY DEF Range
  <2> QED BY <2>4, <2>5
<1>9. Len(TextOf(p)) \in Nat \ {0}
  BY <1>6, <1>8, EmptySeq
<1>10. Smaller(Len(TextOf(p)), MaxModelLen - setting.prompt) = Len(TextOf(p))
  <2> DEFINE k == Len(TextOf(p))
  <2>1. k \in Nat /\ setting.prompt \in Nat /\ MaxModelLen \in Nat /\ setting.prompt + k <= MaxModelLen
    BY <1>7, <1>9, SettingFacts DEF TypeOK
  <2> HIDE DEF k
  <2>2. k <= MaxModelLen - setting.prompt
    BY <2>1
  <2>3. Smaller(k, MaxModelLen - setting.prompt) = k
    BY <2>2 DEF Smaller
  <2> QED BY <2>3 DEF k
<1> QED BY <1>6, <1>8, <1>9, <1>10

\* The rewards along a way, and where the tokens of its nodes are.
Rewards(p) == [i \in DOMAIN p |-> [j \in DOMAIN nodes[p[i]].segment |-> ProcessReward(p[i])]]

Located(p, s, f) ==
  /\ \A j \in 1..Len(p) : \A m \in 1..Len(nodes[p[j]].segment) :
       /\ Len(Prior(f, j)) + m \in 1..Len(s.text)
       /\ s.text[Len(Prior(f, j)) + m] = nodes[p[j]].segment[m]
       /\ s.rewards[Len(Prior(f, j)) + m] = ProcessReward(p[j])
  /\ \A k \in 1..Len(s.text) : \E j \in 1..Len(p) : \E m \in 1..Len(nodes[p[j]].segment) : k = Len(Prior(f, j)) + m
  /\ \A j \in 1..Len(p) : /\ Len(Prior(f, j)) \in Nat
                          /\ j # 1 => Len(Prior(f, j)) = Len(Prior(f, j - 1)) + Len(nodes[p[j - 1]].segment)

LEMMA SampleFacts ==
  ASSUME TypeOK, HasTree, GrowthOK, NEW p \in Down(Root)
  PROVE  /\ Sample(p).path = p /\ Sample(p).text = TextOf(p)
         /\ \E f : Located(p, Sample(p), f)
<1> DEFINE ss == Segments(p)
           tt == Rewards(p)
           R == {ProcessReward(n) : n \in DOMAIN nodes}
<1>1. ShapeOK
  BY DEF GrowthOK
<1>2. PICK above, own : Links(above, own)
  BY DEF GrowthOK
<1>3. above \in [DOMAIN nodes -> Seq(Token)] /\ IsAbove(above)
  BY <1>2 DEF Links
<1>4. /\ IsChain(p) /\ p[1] = Root /\ Len(p) \in Nat \ {0} /\ DOMAIN p = 1..Len(p)
      /\ \A i \in 1..Len(p) : p[i] \in DOMAIN nodes
  BY <1>1, RootPaths, TreeFacts
<1>5. ss \in Seq(Seq(Token)) /\ Len(ss) = Len(p) /\ \A i \in 1..Len(p) : ss[i] = nodes[p[i]].segment
  BY <1>1, <1>3, <1>4, WayText
<1>6. \A i \in 1..Len(p) : /\ ss[i] \in Seq(Token) /\ DOMAIN nodes[p[i]].segment = 1..Len(ss[i])
                           /\ Len(ss[i]) \in Nat
  <2>1. \A i \in 1..Len(p) : ss[i] \in Seq(Token)
    BY <1>5, ElementOfSeq
  <2>2. \A i \in 1..Len(p) : DOMAIN ss[i] = 1..Len(ss[i]) /\ Len(ss[i]) \in Nat
    BY <2>1, LenProperties
  <2> HIDE DEF ss
  <2> QED BY <1>5, <2>1, <2>2
<1>7. /\ tt \in Seq(Seq(R)) /\ Len(tt) = Len(p)
      /\ \A i \in 1..Len(p) : /\ Len(tt[i]) = Len(ss[i])
                              /\ \A m \in 1..Len(ss[i]) : tt[i][m] = ProcessReward(p[i])
  <2> HIDE DEF ss
  <2>1. tt = [i \in 1..Len(p) |-> [j \in 1..Len(ss[i]) |-> ProcessReward(p[i])]]
    BY <1>4, <1>6 DEF Rewards
  <2> DEFINE row(i) == [j \in 1..Len(ss[i]) |-> ProcessReward(p[i])]
  <2>2. ASSUME NEW i \in 1..Len(p)
        PROVE  row(i) \in Seq(R) /\ Len(row(i)) = Len(ss[i])
    <3>1. Len(ss[i]) \in Nat /\ ProcessReward(p[i]) \in R
      BY <1>4, <1>6, <2>2
    <3> HIDE DEF R
    <3>2. row(i) \in [1..Len(ss[i]) -> R]
      BY <3>1
    <3> QED BY <3>1, <3>2
  <2>3. tt = [i \in 1..Len(p) |-> row(i)]
    BY <2>1
  <2> HIDE DEF row, tt, R
  <2>4. tt \in [1..Len(p) -> Seq(R)]
    BY <2>2, <2>3
  <2>5. tt \in Seq(Seq(R)) /\ Len(tt) = Len(p)
    BY <1>4, <2>3, <2>4
  <2>6. \A i \in 1..Len(p) : tt[i] = row(i)
    BY <2>3
  <2>7. \A i \in 1..Len(p) : \A m \in 1..Len(ss[i]) : row(i)[m] = ProcessReward(p[i])
    BY DEF row
  <2> QED BY <2>2, <2>5, <2>6, <2>7
<1>8. PICK f : Flattens(f, ss) /\ FlattenSeq(ss) = f[Len(ss)]
  BY <1>4, <1>5, FlattenIs
<1>9. PICK g : Flattens(g, tt) /\ FlattenSeq(tt) = g[Len(tt)]
  BY <1>4, <1>7, FlattenIs
<1> DEFINE t == FlattenSeq(ss)
           r == FlattenSeq(tt)
<1>10. Sample(p) = [path |-> p, text |-> SubSeq(t, 1, Smaller(Len(r), MaxModelLen - setting.prompt)),
                    rewards |-> SubSeq(r, 1, Smaller(Len(r), MaxModelLen - setting.prompt))]
  BY DEF Sample, TextOf, Segments, Rewards
<1>11. t = TextOf(p)
  BY DEF TextOf, Segments
<1>12. t = f[Len(p)] /\ r = g[Len(p)]
  BY <1>5, <1>7, <1>8, <1>9
<1> HIDE DEF ss, tt, R, t, r
<1>13. \A i \in 1..Len(p) : /\ f[i] \in Seq(Token) /\ g[i] \in Seq(R) /\ Len(g[i]) = Len(f[i])
                            /\ Prior(f, i) \in Seq(Token) /\ f[i] = Prior(f, i) \o ss[i]
                            /\ Covered(f, g, ss, tt, i)
  <2>1. Len(tt) = Len(ss) /\ \A i \in 1..Len(ss) : Len(tt[i]) = Len(ss[i])
    BY <1>5, <1>7
  <2>2. \A i \in 1..Len(ss) : /\ f[i] \in Seq(Token) /\ g[i] \in Seq(R) /\ Len(g[i]) = Len(f[i])
                            /\ Prior(f, i) \in Seq(Token) /\ f[i] = Prior(f, i) \o ss[i]
                            /\ Covered(f, g, ss, tt, i)
    <3>1. ss \in Seq(Seq(Token)) /\ tt \in Seq(Seq(R))
      BY <1>5, <1>7
    <3>2. Flattens(f, ss) /\ Flattens(g, tt)
      BY <1>8, <1>9
    <3>3. Matched(Token, R, ss, tt, f, g)
      BY <2>1, <3>1, <3>2 DEF Matched
    <3> QED BY <3>3, Blocks DEF BlockOK
  <2> QED BY <1>5, <2>2
<1>14. Len(p) \in 1..Len(p) /\ t \in Seq(Token) /\ r \in Seq(R) /\ Len(r) = Len(t) /\ Covered(f, g, ss, tt, Len(p))
  <2>1. Len(p) \in 1..Len(p)
    BY <1>4
  <2> QED BY <1>12, <1>13, <2>1
<1>15. Sample(p).path = p /\ Sample(p).text = t /\ Sample(p).rewards = r
  <2>1. Smaller(Len(r), MaxModelLen - setting.prompt) = Len(t)
    BY <1>11, <1>14, TextFits
  <2>2. SubSeq(t, 1, Len(t)) = t /\ SubSeq(r, 1, Len(r)) = r
    BY <1>14, SubSeqFull
  <2> QED BY <1>10, <1>14, <2>1, <2>2
<1>16. ASSUME NEW j \in 1..Len(p)
       PROVE  /\ Len(Prior(f, j)) \in Nat
              /\ j # 1 => Len(Prior(f, j)) = Len(Prior(f, j - 1)) + Len(nodes[p[j - 1]].segment)
  <2>1. Len(Prior(f, j)) \in Nat
    BY <1>13, LenProperties
  <2>2. ASSUME j # 1
        PROVE  Len(Prior(f, j)) = Len(Prior(f, j - 1)) + Len(nodes[p[j - 1]].segment)
    <3>1. j - 1 \in 1..Len(p)
      BY <1>4, <2>2
    <3> DEFINE i == j - 1
    <3>2. Prior(f, j) = f[i] /\ f[i] = Prior(f, i) \o ss[i] /\ Prior(f, i) \in Seq(Token) /\ ss[i] \in Seq(Token)
          /\ ss[i] = nodes[p[i]].segment
      BY <1>5, <1>6, <1>13, <2>2, <3>1 DEF Prior
    <3> HIDE DEF i
    <3>3. Len(Prior(f, i) \o ss[i]) = Len(Prior(f, i)) + Len(ss[i])
      BY <3>2, ConcatProperties
    <3>4. Len(Prior(f, j)) = Len(Prior(f, i)) + Len(nodes[p[i]].segment)
      BY <3>2, <3>3
    <3> QED BY <3>4 DEF i
  <2> QED BY <2>1, <2>2
<1>17. ASSUME NEW j \in 1..Len(p), NEW m \in 1..Len(nodes[p[j]].segment)
       PROVE  /\ Len(Prior(f, j)) + m \in 1..Len(t)
              /\ t[Len(Prior(f, j)) + m] = nodes[p[j]].segment[m]
              /\ r[Len(Prior(f, j)) + m] = ProcessReward(p[j])
  <2>1. ss[j] = nodes[p[j]].segment /\ m \in 1..Len(ss[j])
    BY <1>5, <1>17
  <2>2. /\ Len(Prior(f, j)) + m \in 1..Len(f[Len(p)])
        /\ f[Len(p)][Len(Prior(f, j)) + m] = ss[j][m] /\ g[Len(p)][Len(Prior(f, j)) + m] = tt[j][m]
    BY <1>14, <2>1 DEF Covered
  <2>3. tt[j][m] = ProcessReward(p[j])
    BY <1>7, <2>1
  <2> QED BY <1>12, <2>1, <2>2, <2>3
<1>18. ASSUME NEW k \in 1..Len(t)
       PROVE  \E j \in 1..Len(p) : \E m \in 1..Len(nodes[p[j]].segment) : k = Len(Prior(f, j)) + m
  <2>1. PICK j \in 1..Len(p) : \E m \in 1..Len(ss[j]) : k = Len(Prior(f, j)) + m
    BY <1>12, <1>14 DEF Covered
  <2> QED BY <1>5, <2>1
<1>19. Located(p, Sample(p), f)
  BY <1>15, <1>16, <1>17, <1>18 DEF Located
<1> QED BY <1>11, <1>15, <1>19

\* What V holds (_compute_values).
LEMMA ValueFacts ==
  ASSUME TypeOK, HasTree, ShapeOK, IsScored
  PROVE  /\ DOMAIN scored = Leaves /\ \A n \in Leaves : scored[n] = TextTo[n]
         /\ Value(None) = {}
         /\ \A p \in Down(Root) : \A i \in 1..Len(p) : Value(p[i]) = LeavesUnder(p[i])
<1>1. /\ PathsFrom[Root] = Down(Root) /\ LeavesUnder(Root) = Leaves
      /\ UNION {Range(p) : p \in PathsFrom[Root]} \subseteq Tree
  BY RootPaths
<1>2. DOMAIN scored = Leaves /\ \A n \in Leaves : scored[n] = TextTo[n]
  <2>1. scored = [l \in Leaves |-> TextTo[l]]
    BY <1>1 DEF IsScored
  <2> QED BY <2>1
<1> DEFINE D == UNION {Range(p) : p \in Down(Root)}
<1>3. DOMAIN values = D /\ \A n \in D : values[n] = LeavesUnder(n)
  <2>1. values = [n \in D |-> LeavesUnder(n)]
    BY <1>1 DEF IsScored
  <2> HIDE DEF D
  <2> QED BY <2>1
<1>4. None \notin D
  <2>1. D \subseteq Tree
    BY <1>1
  <2>2. None \notin Tree
    BY TreeFacts, NodeFacts DEF None
  <2> QED BY <2>1, <2>2
<1>5. \A p \in Down(Root) : \A i \in 1..Len(p) : p[i] \in D
  <2>1. \A p \in Down(Root) : DOMAIN p = 1..Len(p)
    BY RootPaths
  <2> QED BY <2>1 DEF Range
<1> HIDE DEF D
<1> QED BY <1>2, <1>3, <1>4, <1>5 DEF Value

LEMMA SampleRewards ==
  ASSUME TypeOK, HasTree, GrowthOK, IsScored, NEW p \in Down(Root)
  PROVE  RewardedForItsLeaves(Sample(p))
<1> DEFINE s == Sample(p)
<1>1. ShapeOK
  BY DEF GrowthOK
<1>2. s.text = TextOf(p) /\ \E f : Located(p, s, f)
  BY SampleFacts
<1>3. PICK f : Located(p, s, f)
  BY <1>2
<1> HIDE DEF s
<1>4. DOMAIN s.text = 1..Len(s.text) /\ Len(s.text) \in Nat
  BY <1>2, TextFits, LenProperties
<1>5. /\ IsChain(p) /\ p[1] = Root /\ Len(p) \in Nat \ {0} /\ \A i \in 1..Len(p) : p[i] \in Tree /\ p[i] \in DOMAIN nodes
      /\ \A i \in 1..Len(p) : i # 1 => i - 1 \in 1..Len(p) /\ nodes[p[i]].parent = p[i - 1] /\ p[i] \in nodes[p[i - 1]].children
  <2>1. /\ IsChain(p) /\ p[1] = Root /\ Len(p) \in Nat \ {0} /\ \A i \in 1..Len(p) : p[i] \in Tree /\ p[i] \in DOMAIN nodes
    BY <1>1, RootPaths, TreeFacts
  <2>2. \A i \in 1..Len(p) : i # 1 => i - 1 \in 1..Len(p) /\ nodes[p[i]].parent = p[i - 1] /\ p[i] # Root
    BY <1>1, <2>1, ChainFacts, TreeFacts
  <2>3. \A n \in Tree : n # Root => n \in nodes[nodes[n].parent].children
    BY <1>1, TreeFacts
  <2> QED BY <2>1, <2>2, <2>3
<1>6. /\ DOMAIN scored = Leaves /\ Value(None) = {} /\ LeavesUnder(Root) = Leaves
      /\ \A i \in 1..Len(p) : Value(p[i]) = LeavesUnder(p[i])
  BY <1>1, ValueFacts, RootPaths
<1>7. \A i \in 1..Len(p) : /\ nodes[p[i]].segment \in Seq(Token) /\ DOMAIN nodes[p[i]].segment = 1..Len(nodes[p[i]].segment)
                           /\ Len(nodes[p[i]].segment) \in Nat
  <2>1. \A i \in 1..Len(p) : nodes[p[i]].segment \in Seq(Token)
    BY <1>5, NodeFacts
  <2> QED BY <2>1, LenProperties
<1>8. \A n : ProcessReward(n).own = Value(n) /\ ProcessReward(n).base = Value(nodes[n].parent)
  BY DEF ProcessReward
<1>9. ASSUME NEW k \in 1..Len(s.text)
      PROVE  /\ s.rewards[k].own = Holders(s.text[k])
             /\ \/ s.rewards[k].base = {} /\ s.rewards[k].own = DOMAIN scored
                \/ \E j \in 1..(k - 1) :
                     /\ s.rewards[k].base = s.rewards[j].own
                     /\ \A i \in (j + 1)..k : s.rewards[i].own = s.rewards[k].own
  <2>1. PICK j \in 1..Len(p) : \E m \in 1..Len(nodes[p[j]].segment) : k = Len(Prior(f, j)) + m
    BY <1>3 DEF Located
  <2>2. PICK m \in 1..Len(nodes[p[j]].segment) : k = Len(Prior(f, j)) + m
    BY <2>1
  <2> DEFINE c == Len(Prior(f, j))
             seg == nodes[p[j]].segment
  <2>3. c \in Nat /\ Len(seg) \in Nat
    BY <1>3, <1>7 DEF Located
  <2>4. \A i \in 1..Len(seg) : s.text[c + i] = seg[i] /\ s.rewards[c + i] = ProcessReward(p[j])
    BY <1>3 DEF Located
  <2>5. s.text[k] = seg[m] /\ s.rewards[k] = ProcessReward(p[j]) /\ m \in 1..Len(seg) /\ k = c + m
    BY <2>2, <2>4
  <2>6. s.rewards[k].own = Holders(s.text[k])
    <3>1. s.text[k] \in Range(seg)
      BY <1>7, <2>5 DEF Range
    <3>2. Holders(s.text[k]) = LeavesUnder(p[j])
      BY <1>5, <3>1, HoldersFacts
    <3> QED BY <1>6, <1>8, <2>5, <3>2
  <2>7. CASE j = 1
    <3>1. p[j] = Root /\ nodes[p[j]].parent = None
      BY <1>1, <1>5, <2>7 DEF ShapeOK
    <3>2. s.rewards[k].base = {} /\ s.rewards[k].own = DOMAIN scored
      BY <1>6, <1>8, <2>5, <3>1
    <3> QED BY <2>6, <3>2
  <2>8. CASE j # 1
    <3> DEFINE i == j - 1
               before == nodes[p[i]].segment
               b == Len(Prior(f, i))
    <3>1. i \in 1..Len(p) /\ nodes[p[j]].parent = p[i] /\ p[i] \in Tree /\ p[j] \in nodes[p[i]].children
      BY <1>5, <2>8
    <3>2. before # << >> /\ before \in Seq(Token) /\ Len(before) \in Nat \ {0}
      <4>1. ~IsLeaf(p[i])
        BY <3>1 DEF IsLeaf
      <4>2. before # << >> /\ before \in Seq(Token)
        BY <1>1, <1>7, <3>1, <4>1 DEF ShapeOK
      <4> HIDE DEF before
      <4> QED BY <4>2, EmptySeq
    <3>3. c = b + Len(before) /\ b \in Nat
      BY <1>3, <2>8, <3>1 DEF Located
    <3>4. \A h \in 1..Len(before) : s.rewards[b + h] = ProcessReward(p[i])
      BY <1>3, <3>1 DEF Located
    <3> HIDE DEF i, before, b, c, seg
    <3>5. s.rewards[c] = ProcessReward(p[i]) /\ c \in 1..(k - 1)
      <4>1. Len(before) \in 1..Len(before)
        BY <3>2
      <4>2. c \in 1..(k - 1)
        BY <2>3, <2>5, <3>2, <3>3
      <4> QED BY <3>3, <3>4, <4>1, <4>2
    <3>6. s.rewards[k].base = s.rewards[c].own
      BY <1>6, <1>8, <2>5, <3>1, <3>5
    <3>7. ASSUME NEW h \in (c + 1)..k
          PROVE  s.rewards[h].own = s.rewards[k].own
      <4>1. h - c \in 1..Len(seg) /\ c + (h - c) = h
        BY <2>3, <2>5
      <4>2. s.rewards[h] = ProcessReward(p[j])
        BY <2>4, <4>1
      <4> QED BY <2>5, <4>2
    <3> QED BY <2>6, <3>5, <3>6, <3>7
  <2> QED BY <2>7, <2>8
<1> QED BY <1>4, <1>9 DEF RewardedForItsLeaves, s

LEMMA TrainedRead ==
  ASSUME TypeOK, HasTree => GrowthOK, ReadOK
  PROVE  TrainedIsScored
<1>1. SUFFICES ASSUME pc = "done"
               PROVE  /\ Cardinality(samples) = Cardinality(DOMAIN scored)
                      /\ {<<Last(s.path), s.text>> : s \in samples} = {<<n, scored[n]>> : n \in DOMAIN scored}
                      /\ \A s \in samples : RewardedForItsLeaves(s)
  BY DEF TrainedIsScored
<1>2. CASE ~HasTree
  <2>1. samples = {} /\ DOMAIN scored = {}
    BY <1>1, <1>2 DEF ReadOK
  <2> QED BY <2>1
<1>3. CASE HasTree
  <2>1. GrowthOK /\ ShapeOK /\ IsScored /\ IsPackaged
    BY <1>1, <1>3 DEF ReadOK, GrowthOK
  <2>2. DOMAIN scored = Leaves /\ \A n \in Leaves : scored[n] = TextTo[n]
    BY <1>3, <2>1, ValueFacts
  <2>3. /\ PathsFrom[Root] = Down(Root)
        /\ \A p \in Down(Root) : EndOf(p) \in Leaves
        /\ \A p, q \in Down(Root) : EndOf(p) = EndOf(q) => p = q
        /\ \A n \in Leaves : \E p \in Down(Root) : EndOf(p) = n
    BY <1>3, <2>1, RootPaths
  <2>4. \A p \in Down(Root) : TextOf(p) # << >> /\ TextOf(p) = TextTo[EndOf(p)]
    BY <1>3, <2>1, TextFits
  <2>5. samples = {Sample(p) : p \in Down(Root)}
    BY <2>1, <2>3, <2>4 DEF IsPackaged
  <2>6. \A p \in Down(Root) : Sample(p).path = p /\ Sample(p).text = TextOf(p)
    BY <1>3, <2>1, SampleFacts
  <2>7. \A s \in samples : RewardedForItsLeaves(s)
    BY <1>3, <2>1, <2>5, SampleRewards
  <2>8. Cardinality(samples) = Cardinality(Leaves)
    <3> DEFINE g == [s \in samples |-> EndOf(s.path)]
    <3>1. \A s \in samples : s.path \in Down(Root) /\ s = Sample(s.path)
      BY <2>5, <2>6
    <3>2. g \in [samples -> Leaves]
      BY <2>3, <3>1
    <3>3. \A s, t \in samples : g[s] = g[t] => s = t
      BY <2>3, <3>1
    <3>4. \A n \in Leaves : \E s \in samples : g[s] = n
      <4>1. SUFFICES ASSUME NEW n \in Leaves PROVE \E s \in samples : g[s] = n
        OBVIOUS
      <4>2. PICK p \in Down(Root) : EndOf(p) = n
        BY <2>3
      <4>3. Sample(p) \in samples /\ g[Sample(p)] = n
        BY <2>5, <2>6, <4>2
      <4> QED BY <4>3
    <3> HIDE DEF g
    <3>5. g \in Injection(samples, Leaves) /\ g \in Surjection(samples, Leaves)
      BY <3>2, <3>3, <3>4 DEF Injection, Surjection, IsInjective
    <3>6. IsFiniteSet(Leaves)
      <4>1. Leaves \subseteq 1..Len(nodes) /\ Len(nodes) \in Nat
        BY <1>3, <2>1, TreeFacts, NodeFacts
      <4>2. IsFiniteSet(1..Len(nodes))
        BY <4>1, FS_Interval
      <4> QED BY <4>1, <4>2, FS_Subset
    <3> QED BY <3>5, <3>6, FS_Injection
  <2>9. {<<Last(s.path), s.text>> : s \in samples} = {<<n, scored[n]>> : n \in DOMAIN scored}
    <3> DEFINE A == {<<Last(s.path), s.text>> : s \in samples}
               B == {<<n, scored[n]>> : n \in DOMAIN scored}
    <3>1. \A p \in Down(Root) : <<Last(Sample(p).path), Sample(p).text>> = <<EndOf(p), scored[EndOf(p)]>>
      BY <2>2, <2>3, <2>4, <2>6 DEF Last, EndOf
    <3>2. ASSUME NEW z \in A PROVE z \in B
      <4>1. PICK s \in samples : z = <<Last(s.path), s.text>>
        BY <3>2
      <4>2. PICK p \in Down(Root) : s = Sample(p)
        BY <2>5
      <4>3. z = <<EndOf(p), scored[EndOf(p)]>> /\ EndOf(p) \in DOMAIN scored
        BY <2>2, <2>3, <3>1, <4>1, <4>2
      <4> QED BY <4>3
    <3>3. ASSUME NEW z \in B PROVE z \in A
      <4>1. PICK n \in Leaves : z = <<n, scored[n]>>
        BY <2>2, <3>3
      <4>2. PICK p \in Down(Root) : EndOf(p) = n
        BY <2>3
      <4>3. z = <<Last(Sample(p).path), Sample(p).text>> /\ Sample(p) \in samples
        BY <2>5, <3>1, <4>1, <4>2
      <4> QED BY <4>3
    <3> HIDE DEF A, B
    <3>4. A = B
      BY <3>2, <3>3
    <3> QED BY <3>4 DEF A, B
  <2> QED BY <2>2, <2>7, <2>8, <2>9
<1> QED BY <1>2, <1>3

-----------------------------------------------------------------------------
(* The steps.                                                              *)

LEMMA SameTree ==
  ASSUME nodes' = nodes
  PROVE  /\ PathsFrom' = PathsFrom /\ TextTo' = TextTo /\ \A n : LeavesUnder(n)' = LeavesUnder(n)
         /\ Tree' = Tree /\ Leaves' = Leaves /\ (HasTree' <=> HasTree) /\ (ShapeOK => ShapeOK')
         /\ \A p : TextOf(p)' = TextOf(p)
<1>1. PathsFrom' = PathsFrom
  BY DEF PathsFrom, IsLeaf
<1>2. TextTo' = TextTo
  BY DEF TextTo
<1>3. \A n : LeavesUnder(n)' = LeavesUnder(n)
  BY <1>1 DEF LeavesUnder
<1>4. Tree' = Tree
  BY DEF Tree
<1>5. Leaves' = Leaves
  BY <1>4 DEF Leaves, IsLeaf
<1>6. HasTree' <=> HasTree
  BY DEF HasTree
<1>7. \A p : TextOf(p)' = TextOf(p)
  BY DEF TextOf
<1>8. ShapeOK => ShapeOK'
  BY <1>4, <1>5 DEF ShapeOK, IsLeaf
<1> QED BY <1>1, <1>2, <1>3, <1>4, <1>5, <1>6, <1>7, <1>8

\* Steps that generate nothing.
LEMMA SameText ==
  ASSUME GrowthOK, UNCHANGED <<nodes, responses, setting>>
  PROVE  /\ ShapeOK' /\ TokensOK' /\ ResponsesOK' /\ BranchedOnce'
         /\ \A above : IsAbove(above) => IsAbove(above)'
         /\ \A above, own : Owns(above, own) => Owns(above, own)'
<1>1. nodes' = nodes /\ responses' = responses /\ setting' = setting
  OBVIOUS
<1>2. Tree' = Tree /\ Leaves' = Leaves /\ ShapeOK'
  BY <1>1, SameTree DEF GrowthOK
<1>3. TokensOK'
  BY <1>1, <1>2 DEF GrowthOK, TokensOK
<1>4. ResponsesOK'
  BY <1>1, <1>2 DEF GrowthOK, ResponsesOK, IsLeaf
<1>5. BranchedOnce'
  BY <1>1 DEF GrowthOK, BranchedOnce
<1>6. \A above : IsAbove(above) => IsAbove(above)'
  BY <1>1 DEF IsAbove
<1>7. \A above, own : Owns(above, own) => Owns(above, own)'
  BY <1>1, <1>2 DEF Owns
<1> QED BY <1>2, <1>3, <1>4, <1>5, <1>6, <1>7

LEMMA SameGrowth ==
  ASSUME GrowthOK, UNCHANGED <<nodes, responses, setting, round, chosen, launched>>
  PROVE  GrowthOK'
<1>1. /\ nodes' = nodes /\ responses' = responses /\ setting' = setting /\ round' = round
      /\ chosen' = chosen /\ launched' = launched
  OBVIOUS
<1>2. /\ ShapeOK' /\ TokensOK' /\ ResponsesOK' /\ BranchedOnce'
      /\ \A above : IsAbove(above) => IsAbove(above)'
      /\ \A above, own : Owns(above, own) => Owns(above, own)'
  BY <1>1, SameText
<1>3. Leaves' = Leaves
  BY <1>1, SameTree
<1>4. ChosenOK'
  BY <1>1, <1>3 DEF GrowthOK, ChosenOK
<1>5. CountOK'
  <2>1. Pending' = Pending
    BY <1>1 DEF Pending
  <2> QED BY <1>1, <2>1 DEF GrowthOK, CountOK
<1>6. PICK above, own : Links(above, own)
  BY DEF GrowthOK
<1>7. IsLaunched(above)'
  <2>1. \A m \in DOMAIN launched : launched[m] = [i \in DOMAIN chosen[m] |-> above[m] \o SubSeq(nodes[m].segment, 1, chosen[m][i])]
    BY <1>6 DEF Links, IsLaunched
  <2>2. \A m \in DOMAIN launched' : launched'[m] = [i \in DOMAIN chosen'[m] |-> above[m] \o SubSeq(nodes'[m].segment, 1, chosen'[m][i])]
    BY <1>1, <2>1
  <2> QED BY <2>2 DEF IsLaunched
<1>8. Links(above, own)'
  BY <1>1, <1>2, <1>3, <1>6, <1>7 DEF Links
<1> QED BY <1>2, <1>4, <1>5, <1>8 DEF GrowthOK

LEMMA GrowStep ==
  ASSUME IInv, NEW n, Grow(n)
  PROVE  IInv'
<1>1. TypeOK /\ pc = "fork" /\ HasTree /\ GrowthOK
  BY DEF IInv, Grow, TypeOK
<1>2. PICK f : Growing(n, f)
  <2>1. PICK f \in Answers(n) :
          /\ responses' = responses \o NewResponses(n, f)
          /\ nodes' = Replace(nodes \o Pieces(n, NewResponses(n, f)), n, Len(nodes) + 1)
    BY DEF Grow
  <2> QED BY <1>1, <2>1 DEF Grow, Growing
<1>3. n \in DOMAIN chosen
  BY <1>2, GrowingFacts
<1>4. /\ ChosenOK' /\ DOMAIN chosen' = DOMAIN chosen \ {n} /\ DOMAIN launched' = DOMAIN launched \ {n}
      /\ \A m \in DOMAIN chosen' : chosen'[m] = chosen[m]
      /\ \A m \in DOMAIN launched' : launched'[m] = launched[m]
  BY <1>2, GrownChosen
<1>5. nodes' \in Seq(NodeType) /\ HasTree' /\ responses' \in Seq(ResponseType)
  BY <1>2, GrownTypes, GrownResponses DEF HasTree
<1>6. GrowthOK'
  BY <1>2, <1>4, GrownShape, GrownTokens, GrownResponsesOK, GrownCount, GrownBranched, GrownLinks DEF GrowthOK
<1>7. /\ setting' = setting /\ round' = round /\ scored' = scored /\ values' = values /\ samples' = samples
      /\ pc' = IF DOMAIN chosen = {n} THEN "select" ELSE "fork"
  BY DEF Grow
<1>8. scored = << >> /\ values = << >> /\ samples = {}
  BY <1>1 DEF TypeOK
<1>9. TypeOK'
  <2>1. DOMAIN chosen' \subseteq DOMAIN nodes'
    <3>1. Leaves' \subseteq Tree'
      BY DEF Leaves
    <3> QED BY <1>2, <1>4, <3>1, GrownObjects DEF ChosenOK
  <2>2. pc' = "fork" <=> DOMAIN chosen' # {}
    BY <1>3, <1>4, <1>7
  <2>3. \A m \in DOMAIN chosen' : chosen'[m] \in Seq(Nat \ {0})
    BY <1>1, <1>4 DEF TypeOK
  <2>4. \A m \in DOMAIN launched' : launched'[m] \in [DOMAIN chosen'[m] -> Seq(Token)]
    BY <1>1, <1>4 DEF TypeOK
  <2>5. setting' \in Settings /\ round' \in 0..setting'.l
    BY <1>1, <1>7 DEF TypeOK
  <2>6. pc' \in {"select", "fork"}
    BY <1>7
  <2>7. DOMAIN scored' = {} /\ DOMAIN values' = {}
    BY <1>7, <1>8
  <2>8. DOMAIN launched' \subseteq DOMAIN chosen'
    BY <1>1, <1>4 DEF TypeOK
  <2> QED BY <1>5, <1>7, <1>8, <2>1, <2>2, <2>3, <2>4, <2>5, <2>6, <2>7, <2>8 DEF TypeOK
<1>10. ReadOK'
  BY <1>7 DEF ReadOK
<1> QED BY <1>5, <1>6, <1>9, <1>10 DEF IInv

LEMMA LaunchStep ==
  ASSUME IInv, NEW n, Launch(n)
  PROVE  IInv'
<1>1. TypeOK /\ pc = "fork" /\ HasTree /\ GrowthOK /\ n \in DOMAIN chosen /\ n \notin DOMAIN launched
  BY DEF IInv, Launch, TypeOK
<1>2. /\ setting' = setting /\ round' = round /\ scored' = scored /\ values' = values /\ samples' = samples /\ pc' = pc
      /\ nodes' = nodes /\ responses' = responses /\ chosen' = chosen
  BY DEF Launch
<1>3. /\ ShapeOK' /\ TokensOK' /\ ResponsesOK' /\ BranchedOnce'
      /\ \A above : IsAbove(above) => IsAbove(above)'
      /\ \A above, own : Owns(above, own) => Owns(above, own)'
  BY <1>1, <1>2, SameText
<1>4. Leaves' = Leaves /\ HasTree'
  BY <1>1, <1>2, SameTree
<1>5. ShapeOK /\ ChosenOK /\ n \in DOMAIN nodes
  BY <1>1 DEF GrowthOK, TypeOK
<1>6. PICK above, own : Links(above, own)
  BY <1>1 DEF GrowthOK
<1> DEFINE prefixes == [i \in DOMAIN chosen[n] |-> above[n] \o SubSeq(nodes[n].segment, 1, chosen[n][i])]
<1>7. /\ DOMAIN launched' = DOMAIN launched \cup {n}
      /\ launched'[n] = prefixes
      /\ \A m \in DOMAIN launched : launched'[m] = launched[m]
  <2>1. TextBefore(n) = above[n]
    BY <1>1, <1>5, <1>6, TextToIs DEF Links
  <2>2. launched' = [m \in DOMAIN launched \cup {n} |->
                      IF m = n THEN [i \in DOMAIN chosen[n] |-> ForkPrefix(n, chosen[n][i])] ELSE launched[m]]
    BY DEF Launch
  <2>3. [i \in DOMAIN chosen[n] |-> ForkPrefix(n, chosen[n][i])] = prefixes
    BY <2>1 DEF ForkPrefix
  <2> HIDE DEF prefixes
  <2> QED BY <1>1, <2>2, <2>3
<1>8. prefixes \in [DOMAIN chosen[n] -> Seq(Token)]
  <2>1. ASSUME NEW i \in DOMAIN chosen[n]
        PROVE  above[n] \o SubSeq(nodes[n].segment, 1, chosen[n][i]) \in Seq(Token)
    <3>1. above[n] \in Seq(Token) /\ nodes[n].segment \in Seq(Token)
      BY <1>1, <1>5, <1>6, NodeFacts DEF Links
    <3>2. chosen[n][i] \in 0..Len(nodes[n].segment)
      <4>1. chosen[n][i] >= 1 /\ chosen[n][i] + MinSuffix <= Len(nodes[n].segment)
        BY <1>1, <1>5 DEF ChosenOK
      <4>2. chosen[n][i] \in Nat
        <5>1. chosen[n] \in Seq(Nat)
          BY <1>1, <1>5 DEF ChosenOK
        <5>2. i \in 1..Len(chosen[n])
          BY <5>1, LenProperties
        <5> QED BY <5>1, <5>2, ElementOfSeq
      <4>3. MinSuffix \in Nat /\ Len(nodes[n].segment) \in Nat
        BY <3>1, TreeAssumption, LenProperties
      <4> QED BY <4>1, <4>2, <4>3
    <3>3. SubSeq(nodes[n].segment, 1, chosen[n][i]) \in Seq(Token)
      BY <3>1, <3>2, FirstTokens
    <3> QED BY <3>1, <3>3, ConcatProperties
  <2> QED BY <2>1
<1>9. Links(above, own)'
  <2>1. IsLaunched(above)'
    <3>1. \A m \in DOMAIN launched : launched[m] = [i \in DOMAIN chosen[m] |-> above[m] \o SubSeq(nodes[m].segment, 1, chosen[m][i])]
      BY <1>6 DEF Links, IsLaunched
    <3>2. \A m \in DOMAIN launched' :
            launched'[m] = [i \in DOMAIN chosen[m] |-> above[m] \o SubSeq(nodes[m].segment, 1, chosen[m][i])]
      BY <1>7, <3>1
    <3> QED BY <1>2, <3>2 DEF IsLaunched
  <2> QED BY <1>2, <1>3, <1>4, <1>6, <2>1 DEF Links
<1>10. GrowthOK'
  <2>1. ChosenOK'
    <3>1. DOMAIN launched' \subseteq DOMAIN chosen'
      BY <1>1, <1>2, <1>7 DEF TypeOK
    <3> QED BY <1>2, <1>4, <1>5, <3>1 DEF ChosenOK
  <2>2. CountOK'
    <3>1. Pending' = Pending
      BY <1>2 DEF Pending
    <3> QED BY <1>1, <1>2, <3>1 DEF GrowthOK, CountOK
  <2> QED BY <1>3, <1>9, <2>1, <2>2 DEF GrowthOK
<1>11. TypeOK'
  <2>1. \A m \in DOMAIN launched' : launched'[m] \in [DOMAIN chosen'[m] -> Seq(Token)]
    <3> HIDE DEF prefixes
    <3> QED BY <1>1, <1>2, <1>7, <1>8 DEF TypeOK
  <2>2. DOMAIN launched' \subseteq DOMAIN chosen'
    BY <1>1, <1>2, <1>7 DEF TypeOK
  <2> QED BY <1>1, <1>2, <1>4, <2>1, <2>2 DEF TypeOK, HasTree
<1>12. ReadOK'
  BY <1>1, <1>2 DEF ReadOK
<1> QED BY <1>4, <1>10, <1>11, <1>12 DEF IInv

\* Where a leaf may be forked (_collect_entropy_candidates).
LEMMA CandidateFacts ==
  ASSUME TypeOK, HasTree, GrowthOK
  PROVE  /\ Candidates \subseteq Leaves \X (1..MaxModelLen)
         /\ \A c \in Candidates : c[2] >= 1 /\ c[2] + MinSuffix <= Len(nodes[c[1]].segment)
         /\ IsFiniteSet(Candidates)
<1>1. ShapeOK /\ ResponsesOK
  BY DEF GrowthOK
<1>2. PICK above, own : Links(above, own)
  BY DEF GrowthOK
<1>3. /\ above \in [DOMAIN nodes -> Seq(Token)] /\ own \in [Leaves -> DOMAIN responses]
      /\ \A n \in Leaves : above[n] \o nodes[n].segment = Full(responses[own[n]])
  BY <1>2 DEF Links, Owns
<1>4. MaxModelLen \in Nat /\ MinSuffix \in Nat /\ setting.prompt \in Nat /\ MinPrefix \in Nat \ {0}
  BY SettingFacts DEF TypeOK
<1>5. ASSUME NEW n \in Leaves
      PROVE  Len(nodes[n].segment) \in Nat /\ Len(nodes[n].segment) <= MaxModelLen
  <2>1. n \in DOMAIN nodes
    BY <1>1, TreeFacts
  <2> DEFINE s == nodes[n].segment
  <2>2. above[n] \in Seq(Token) /\ s \in Seq(Token)
    BY <1>3, <2>1, NodeFacts
  <2>3. setting.prompt + Len(above[n] \o s) <= MaxModelLen
    BY <1>1, <1>3 DEF ResponsesOK
  <2> HIDE DEF s
  <2>4. Len(above[n] \o s) = Len(above[n]) + Len(s) /\ Len(above[n]) \in Nat /\ Len(s) \in Nat
    BY <2>2, ConcatProperties, LenProperties
  <2>5. Len(s) <= MaxModelLen
    BY <1>4, <2>3, <2>4
  <2> QED BY <2>4, <2>5 DEF s
<1>6. ASSUME NEW c \in Candidates
      PROVE  /\ c \in Leaves \X (1..MaxModelLen)
             /\ c[2] >= 1 /\ c[2] + MinSuffix <= Len(nodes[c[1]].segment)
  <2>1. LeavesUnder(Root) = Leaves
    BY <1>1, RootPaths
  <2>2. PICK n \in Leaves : c \in {<<n, i>> : i \in MinPos(n)..(Len(nodes[n].segment) - MinSuffix)}
    BY <2>1 DEF Candidates
  <2>3. PICK i \in MinPos(n)..(Len(nodes[n].segment) - MinSuffix) : c = <<n, i>>
    BY <2>2
  <2> DEFINE k == Len(nodes[n].segment)
  <2>4. k \in Nat /\ k <= MaxModelLen
    BY <1>5
  <2>5. MinPos(n) \in Nat /\ MinPos(n) >= 1
    <3> DEFINE share == IF n = Root THEN k \div MinPrefix ELSE 0
    <3>1. share \in Int
      <4>1. k \div MinPrefix \in Int
        BY <1>4, <2>4
      <4> QED BY <4>1
    <3>2. MinPos(n) = IF share > 1 THEN share ELSE 1
      BY DEF MinPos
    <3> HIDE DEF share
    <3> QED BY <3>1, <3>2
  <2> HIDE DEF k
  <2>6. i \in MinPos(n)..(k - MinSuffix)
    BY <2>3 DEF k
  <2>7. i \in 1..MaxModelLen /\ i >= 1 /\ i + MinSuffix <= k
    BY <1>4, <2>4, <2>5, <2>6
  <2> QED BY <2>3, <2>7 DEF k
<1>7. IsFiniteSet(Candidates)
  <2>1. Leaves \subseteq 1..Len(nodes) /\ Len(nodes) \in Nat
    BY <1>1, TreeFacts, NodeFacts
  <2>2. IsFiniteSet(1..Len(nodes)) /\ IsFiniteSet(1..MaxModelLen)
    BY <1>4, <2>1, FS_Interval
  <2>3. IsFiniteSet((1..Len(nodes)) \X (1..MaxModelLen))
    BY <2>2, FS_Product
  <2>4. Candidates \subseteq (1..Len(nodes)) \X (1..MaxModelLen)
    <3>1. Candidates \subseteq Leaves \X (1..MaxModelLen)
      BY <1>6
    <3> QED BY <2>1, <3>1
  <2> QED BY <2>3, <2>4, FS_Subset
<1> QED BY <1>6, <1>7

\* The positions selected in a leaf, and what is kept of them.
PositionsIn(S, n) == {c[2] : c \in {d \in S : d[1] = n}}

LEMMA SelectedFacts ==
  ASSUME TypeOK, HasTree, GrowthOK, NEW S \in SUBSET Candidates, NEW n \in {c[1] : c \in S}
  PROVE  LET places == Ascending(PositionsIn(S, n))
         IN /\ n \in Leaves /\ places \in Seq(Nat \ {0}) /\ places \in Seq(Nat) /\ places # << >>
            /\ \A i \in DOMAIN places : /\ places[i] >= 1 /\ places[i] + MinSuffix <= Len(nodes[n].segment)
                                        /\ <<n, places[i]>> \in S
            /\ \A i, j \in DOMAIN places : i < j => places[i] < places[j]
            /\ DOMAIN places \subseteq Nat
<1> DEFINE I == PositionsIn(S, n)
           places == Ascending(I)
<1>1. /\ Candidates \subseteq Leaves \X (1..MaxModelLen)
      /\ \A c \in Candidates : c[2] >= 1 /\ c[2] + MinSuffix <= Len(nodes[c[1]].segment)
  BY CandidateFacts
<1>2. MaxModelLen \in Nat
  BY SettingFacts DEF TypeOK
<1>3. ASSUME NEW p \in I
      PROVE  <<n, p>> \in S /\ p \in 1..MaxModelLen /\ p >= 1 /\ p + MinSuffix <= Len(nodes[n].segment)
  <2>1. PICK c \in S : c[1] = n /\ c[2] = p
    BY <1>3 DEF PositionsIn
  <2>2. c \in Candidates /\ c \in Leaves \X (1..MaxModelLen)
    BY <1>1, <2>1
  <2>3. c = <<n, p>> /\ p \in 1..MaxModelLen
    BY <2>1, <2>2
  <2> QED BY <1>1, <2>1, <2>2, <2>3
<1>4. I \in SUBSET (1..MaxModelLen)
  BY <1>3
<1>5. n \in Leaves /\ I # {}
  <2>1. PICK c \in S : c[1] = n
    OBVIOUS
  <2>2. c \in Leaves \X (1..MaxModelLen) /\ c[2] \in I
    BY <1>1, <2>1 DEF PositionsIn
  <2> QED BY <2>1, <2>2
<1> HIDE DEF I
<1>6. /\ places \in Seq(I) /\ Len(places) = Cardinality(I) /\ Cardinality(I) \in Nat
      /\ DOMAIN places = 1..Cardinality(I)
      /\ \A m \in DOMAIN places : places[m] \in I
      /\ \A m, k \in DOMAIN places : m < k => places[m] < places[k]
  BY <1>2, <1>4, AscendingFacts
<1> HIDE DEF places
<1>7. places # << >>
  <2>1. IsFiniteSet(I)
    BY <1>2, <1>4, Ranks
  <2>2. Cardinality(I) # 0
    BY <1>5, <2>1, FS_EmptySet
  <2> QED BY <1>6, <2>2, EmptySeq
<1>8. places \in Seq(Nat \ {0}) /\ places \in Seq(Nat)
  <2>1. I \subseteq Nat \ {0} /\ I \subseteq Nat
    BY <1>4
  <2> QED BY <1>6, <2>1, SeqMonotonic
<1>9. \A i \in DOMAIN places : /\ places[i] >= 1 /\ places[i] + MinSuffix <= Len(nodes[n].segment)
                               /\ <<n, places[i]>> \in S
  BY <1>3, <1>6
<1>10. DOMAIN places \subseteq Nat
  BY <1>6
<1> QED BY <1>5, <1>6, <1>7, <1>8, <1>9, <1>10 DEF places, I

\* As many places are pending as were selected.
LEMMA SelectedCount ==
  ASSUME TypeOK, HasTree, GrowthOK, NEW S \in SUBSET Candidates,
         chosen' = [n \in {c[1] : c \in S} |-> Ascending(PositionsIn(S, n))]
  PROVE  IsFiniteSet(Pending') /\ Cardinality(Pending') <= Cardinality(S) /\ IsFiniteSet(S)
         /\ Cardinality(Pending') \in Nat /\ Cardinality(S) \in Nat
<1>1. IsFiniteSet(S)
  BY CandidateFacts, FS_Subset
<1> DEFINE D == {c[1] : c \in S}
           P == UNION {{n} \X DOMAIN chosen'[n] : n \in D}
           g == [x \in P |-> <<x[1], chosen'[x[1]][x[2]]>>]
<1>2. Pending' = P
  BY DEF Pending
<1>3. ASSUME NEW n \in D
      PROVE  /\ DOMAIN chosen'[n] \subseteq Nat
             /\ \A i \in DOMAIN chosen'[n] : <<n, chosen'[n][i]>> \in S
             /\ \A i, j \in DOMAIN chosen'[n] : i < j => chosen'[n][i] < chosen'[n][j]
             /\ \A i \in DOMAIN chosen'[n] : chosen'[n][i] \in Nat
  <2> DEFINE places == Ascending(PositionsIn(S, n))
  <2>2. chosen'[n] = places
    OBVIOUS
  <2>3. /\ places \in Seq(Nat)
        /\ \A i \in DOMAIN places : <<n, places[i]>> \in S
        /\ \A i, j \in DOMAIN places : i < j => places[i] < places[j]
        /\ DOMAIN places \subseteq Nat
    BY SelectedFacts
  <2> HIDE DEF places
  <2>4. \A i \in DOMAIN places : places[i] \in Nat
    BY <2>3, LenProperties, ElementOfSeq
  <2> QED BY <2>2, <2>3, <2>4
<1>4. \A x \in P : x[1] \in D /\ x[2] \in DOMAIN chosen'[x[1]] /\ x = <<x[1], x[2]>>
  <2> HIDE DEF P, D
  <2>1. SUFFICES ASSUME NEW x \in P PROVE x[1] \in D /\ x[2] \in DOMAIN chosen'[x[1]] /\ x = <<x[1], x[2]>>
    OBVIOUS
  <2>2. PICK n \in D : x \in {n} \X DOMAIN chosen'[n]
    BY <2>1 DEF P
  <2> QED BY <2>2
<1> HIDE DEF P, D
<1>5. g \in [P -> S]
  BY <1>3, <1>4
<1>6. \A x, y \in P : g[x] = g[y] => x = y
  <2>1. SUFFICES ASSUME NEW x \in P, NEW y \in P, g[x] = g[y] PROVE x = y
    OBVIOUS
  <2>2. x[1] = y[1] /\ chosen'[x[1]][x[2]] = chosen'[x[1]][y[2]]
    BY <2>1
  <2>3. x[1] \in D /\ x[2] \in DOMAIN chosen'[x[1]] /\ y[2] \in DOMAIN chosen'[x[1]] /\ x = <<x[1], x[2]>> /\ y = <<y[1], y[2]>>
    BY <1>4, <2>2
  <2>4. x[2] \in Nat /\ y[2] \in Nat
    BY <1>3, <2>3
  <2>5. ~(x[2] < y[2]) /\ ~(y[2] < x[2])
    <3> DEFINE h == chosen'[x[1]]
    <3>1. /\ h[x[2]] \in Nat /\ h[y[2]] \in Nat /\ h[x[2]] = h[y[2]]
          /\ x[2] < y[2] => h[x[2]] < h[y[2]]
          /\ y[2] < x[2] => h[y[2]] < h[x[2]]
      BY <1>3, <2>2, <2>3
    <3> HIDE DEF h
    <3> QED BY <3>1
  <2>6. x[2] = y[2]
    BY <2>4, <2>5
  <2> QED BY <2>2, <2>3, <2>6
<1> HIDE DEF g
<1>7. g \in Injection(P, S)
  BY <1>5, <1>6 DEF Injection, IsInjective
<1>8. IsFiniteSet(P) /\ Cardinality(P) <= Cardinality(S)
  BY <1>1, <1>7, FS_Injection
<1> QED BY <1>1, <1>2, <1>8, FS_CardinalityType

LEMMA SelectStep ==
  ASSUME IInv, Select
  PROVE  IInv'
<1>1. TypeOK /\ pc = "select" /\ HasTree /\ GrowthOK
  BY DEF IInv, Select, TypeOK
<1>2. /\ setting' = setting /\ scored' = scored /\ values' = values /\ samples' = samples
      /\ nodes' = nodes /\ responses' = responses /\ launched' = launched
  BY DEF Select
<1>3. Leaves' = Leaves /\ HasTree'
  BY <1>1, <1>2, SameTree
<1>4. scored = << >> /\ values = << >> /\ samples = {} /\ DOMAIN chosen = {} /\ DOMAIN launched = {}
  BY <1>1 DEF TypeOK
<1>5. CASE round = setting.l \/ Candidates = {}
  <2>1. pc' = "score" /\ round' = round /\ chosen' = chosen
    BY <1>5 DEF Select
  <2>2. GrowthOK'
    BY <1>1, <1>2, <2>1, SameGrowth
  <2>3. TypeOK'
    <3>1. DOMAIN chosen' = {} /\ DOMAIN launched' = {} /\ DOMAIN scored' = {} /\ DOMAIN values' = {}
      BY <1>2, <1>4, <2>1
    <3> QED BY <1>1, <1>2, <1>3, <2>1, <3>1 DEF TypeOK
  <2>4. ReadOK'
    BY <2>1 DEF ReadOK
  <2> QED BY <1>3, <2>2, <2>3, <2>4 DEF IInv
<1>6. CASE ~(round = setting.l \/ Candidates = {})
  <2>1. PICK S \in kSubset(Smaller(setting.n, Cardinality(Candidates)), Candidates) :
          /\ chosen' = [n \in {c[1] : c \in S} |-> Ascending({c[2] : c \in {d \in S : d[1] = n}})]
          /\ round' = round + 1
          /\ pc' = "fork"
    BY <1>6 DEF Select
  <2>2. S \in SUBSET Candidates /\ Cardinality(S) = Smaller(setting.n, Cardinality(Candidates))
    BY <2>1 DEF kSubset
  <2>3. chosen' = [n \in {c[1] : c \in S} |-> Ascending(PositionsIn(S, n))]
    BY <2>1 DEF PositionsIn
  <2> DEFINE D == {c[1] : c \in S}
  <2>4. /\ IsFiniteSet(Pending') /\ Cardinality(Pending') <= Cardinality(S) /\ IsFiniteSet(S)
        /\ Cardinality(Pending') \in Nat /\ Cardinality(S) \in Nat
    BY <1>1, <2>2, <2>3, SelectedCount
  <2>5. Cardinality(S) <= setting.n /\ Cardinality(S) # 0 /\ setting.n \in Nat /\ setting.t \in Nat
        /\ setting.l \in Nat /\ round \in 0..setting.l /\ Len(responses) \in Nat
    <3>1. IsFiniteSet(Candidates)
      BY <1>1, CandidateFacts
    <3>2. Cardinality(Candidates) \in Nat /\ Cardinality(Candidates) # 0
      BY <1>6, <3>1, FS_CardinalityType, FS_EmptySet
    <3>3. setting.n \in Nat \ {0} /\ setting.t \in Nat /\ setting.l \in Nat /\ round \in 0..setting.l
      BY <1>1, SettingFacts DEF TypeOK
    <3>4. Len(responses) \in Nat
      BY <1>1, ResponseFacts
    <3> QED BY <2>2, <3>2, <3>3, <3>4 DEF Smaller
  <2>6. ASSUME NEW n \in D
        PROVE  /\ n \in Leaves /\ chosen'[n] \in Seq(Nat \ {0}) /\ chosen'[n] \in Seq(Nat) /\ chosen'[n] # << >>
               /\ \A i \in DOMAIN chosen'[n] : chosen'[n][i] >= 1 /\ chosen'[n][i] + MinSuffix <= Len(nodes[n].segment)
               /\ \A i, j \in DOMAIN chosen'[n] : i < j => chosen'[n][i] < chosen'[n][j]
    <3> DEFINE places == Ascending(PositionsIn(S, n))
    <3>1. chosen'[n] = places
      BY <2>3
    <3>2. /\ n \in Leaves /\ places \in Seq(Nat \ {0}) /\ places \in Seq(Nat) /\ places # << >>
          /\ \A i \in DOMAIN places : places[i] >= 1 /\ places[i] + MinSuffix <= Len(nodes[n].segment)
          /\ \A i, j \in DOMAIN places : i < j => places[i] < places[j]
      BY <1>1, <2>2, SelectedFacts
    <3> HIDE DEF places
    <3> QED BY <3>1, <3>2
  <2>7. DOMAIN chosen' = D /\ D # {} /\ D \subseteq Leaves
    <3>1. S # {}
      BY <2>5, FS_EmptySet
    <3> QED BY <2>3, <2>6, <3>1
  <2> HIDE DEF D
  <2>8. ChosenOK'
    <3>1. DOMAIN launched' = {}
      BY <1>2, <1>4
    <3> QED BY <1>2, <1>3, <2>6, <2>7, <3>1 DEF ChosenOK
  <2>9. CountOK'
    <3> DEFINE P == Cardinality(Pending')
               R == Len(responses)
               n == setting.n
               t == setting.t
               r == round
    <3>1. R <= 1 + ((n * t) * r)
      <4>1. Pending = {}
        BY <1>4 DEF Pending
      <4>2. Cardinality(Pending) = 0
        BY <4>1, FS_EmptySet
      <4>3. R + (t * 0) <= 1 + ((n * t) * r)
        BY <1>1, <4>2 DEF GrowthOK, CountOK
      <4>4. t * 0 = 0
        BY <2>5
      <4> QED BY <2>5, <4>3, <4>4
    <3>2. P \in Nat /\ R \in Nat /\ n \in Nat /\ t \in Nat /\ r \in Nat /\ P <= n
      BY <2>4, <2>5
    <3> HIDE DEF P, R, n, t, r
    <3>3. t * P <= n * t
      <4>1. PICK d \in Nat : n = P + d
        <5>1. n - P \in Nat /\ n = P + (n - P)
          BY <3>2
        <5> QED BY <5>1
      <4>2. n * t = (t * P) + (d * t) /\ d * t \in Nat /\ t * P \in Nat
        BY <3>2, <4>1
      <4> QED BY <4>2
    <3>4. (n * t) * (r + 1) = ((n * t) * r) + (n * t) /\ (n * t) * r \in Nat /\ n * t \in Nat /\ t * P \in Nat
      <4> DEFINE q == n * t
      <4>1. q \in Nat
        BY <3>2
      <4>2. t * P \in Nat
        BY <3>2
      <4> HIDE DEF q
      <4>3. q * (r + 1) = (q * r) + q /\ q * r \in Nat
        BY <3>2, <4>1
      <4> QED BY <4>1, <4>2, <4>3 DEF q
    <3>5. R + (t * P) <= 1 + ((n * t) * (r + 1))
      <4> DEFINE a == t * P
                 b == n * t
                 c == (n * t) * r
                 e == (n * t) * (r + 1)
      <4>1. R <= 1 + c /\ a <= b /\ e = c + b /\ a \in Nat /\ b \in Nat /\ c \in Nat /\ R \in Nat
        BY <3>1, <3>2, <3>3, <3>4
      <4> HIDE DEF a, b, c, e
      <4>2. R + a <= 1 + e
        BY <4>1
      <4> QED BY <4>2 DEF a, e
    <3>6. responses' = responses /\ setting' = setting /\ round' = round + 1
      BY <1>2, <2>1
    <3> QED BY <2>4, <3>5, <3>6 DEF CountOK, P, R, n, t, r
  <2>10. /\ ShapeOK' /\ TokensOK' /\ ResponsesOK' /\ BranchedOnce'
         /\ \A above : IsAbove(above) => IsAbove(above)'
         /\ \A above, own : Owns(above, own) => Owns(above, own)'
    BY <1>1, <1>2, SameText
  <2>11. \E above, own : Links(above, own)'
    <3>1. PICK above, own : Links(above, own)
      BY <1>1 DEF GrowthOK
    <3>2. IsLaunched(above)'
      BY <1>2, <1>4 DEF IsLaunched
    <3>3. Links(above, own)'
      BY <1>2, <1>3, <2>10, <3>1, <3>2 DEF Links
    <3> QED BY <3>3
  <2>12. GrowthOK'
    BY <2>8, <2>9, <2>10, <2>11 DEF GrowthOK
  <2>13. TypeOK'
    <3>1. DOMAIN chosen' \subseteq DOMAIN nodes'
      <4>1. Leaves \subseteq DOMAIN nodes
        BY <1>1, TreeFacts DEF GrowthOK
      <4> QED BY <1>2, <2>7, <4>1
    <3>2. DOMAIN launched' = {} /\ DOMAIN scored' = {} /\ DOMAIN values' = {}
      BY <1>2, <1>4
    <3>3. \A n \in DOMAIN chosen' : chosen'[n] \in Seq(Nat \ {0})
      BY <2>6, <2>7
    <3>4. round' \in 0..setting'.l
      <4>1. round' = round + 1 /\ setting' = setting /\ round # setting.l
        BY <1>2, <1>6, <2>1
      <4> QED BY <2>5, <4>1
    <3>5. setting' \in Settings /\ nodes' \in Seq(NodeType) /\ responses' \in Seq(ResponseType)
      BY <1>1, <1>2 DEF TypeOK
    <3> QED BY <1>2, <1>3, <1>4, <2>1, <2>7, <3>1, <3>2, <3>3, <3>4, <3>5 DEF TypeOK
  <2>14. ReadOK'
    BY <2>1 DEF ReadOK
  <2> QED BY <1>3, <2>12, <2>13, <2>14 DEF IInv
<1> QED BY <1>5, <1>6

LEMMA ScoreStep ==
  ASSUME IInv, Score
  PROVE  IInv'
<1>1. TypeOK /\ pc = "score" /\ HasTree /\ GrowthOK /\ ShapeOK
  BY DEF IInv, Score, TypeOK, GrowthOK
<1>2. /\ nodes' = nodes /\ responses' = responses /\ setting' = setting /\ round' = round
      /\ chosen' = chosen /\ launched' = launched /\ samples' = samples /\ pc' = "package"
      /\ scored' = [n \in LeavesUnder(Root) |-> TextTo[n]]
      /\ values' = [n \in UNION {Range(p) : p \in PathsFrom[Root]} |-> LeavesUnder(n)]
  BY DEF Score
<1>3. GrowthOK'
  BY <1>1, <1>2, SameGrowth
<1>4. PathsFrom' = PathsFrom /\ TextTo' = TextTo /\ (\A n : LeavesUnder(n)' = LeavesUnder(n)) /\ HasTree'
  BY <1>1, <1>2, SameTree
<1>5. IsScored'
  BY <1>2, <1>4 DEF IsScored
<1>6. /\ LeavesUnder(Root) = Leaves /\ Leaves \subseteq DOMAIN nodes
      /\ UNION {Range(p) : p \in PathsFrom[Root]} \subseteq Tree /\ Tree \subseteq DOMAIN nodes
      /\ \A n \in Tree : LeavesUnder(n) \subseteq Leaves
  <2>1. \A n \in Tree : LeavesUnder(n) \subseteq Leaves
    BY <1>1, UnderFacts
  <2> QED BY <1>1, <2>1, RootPaths, TreeFacts
<1>7. \A n \in DOMAIN nodes : TextTo[n] \in Seq(Token)
  <2>1. PICK above, own : Links(above, own)
    BY <1>1 DEF GrowthOK
  <2> QED BY <1>1, <2>1, TextToIs DEF Links
<1>8. TypeOK'
  <2> DEFINE D == UNION {Range(p) : p \in PathsFrom[Root]}
  <2>1. DOMAIN scored' = Leaves /\ \A n \in Leaves : scored'[n] = TextTo[n]
    BY <1>2, <1>6
  <2>2. DOMAIN values' = D /\ \A n \in D : values'[n] = LeavesUnder(n)
    BY <1>2
  <2> HIDE DEF D
  <2>3. DOMAIN scored' \subseteq DOMAIN nodes' /\ \A n \in DOMAIN scored' : scored'[n] \in Seq(Token)
    BY <1>2, <1>6, <1>7, <2>1
  <2>4. DOMAIN values' \subseteq DOMAIN nodes' /\ \A n \in DOMAIN values' : values'[n] \subseteq DOMAIN scored'
    <3>1. D \subseteq Tree
      BY <1>6 DEF D
    <3> QED BY <1>2, <1>6, <2>1, <2>2, <3>1
  <2>5. DOMAIN chosen' = {} /\ DOMAIN launched' = {} /\ samples' = {}
    BY <1>1, <1>2 DEF TypeOK
  <2> QED BY <1>1, <1>2, <1>4, <2>3, <2>4, <2>5 DEF TypeOK
<1>9. ReadOK'
  BY <1>2, <1>5 DEF ReadOK
<1> QED BY <1>3, <1>4, <1>8, <1>9 DEF IInv

LEMMA PackageStep ==
  ASSUME IInv, Package
  PROVE  IInv'
<1>1. TypeOK /\ pc = "package" /\ HasTree /\ GrowthOK /\ IsScored
  BY DEF IInv, Package, TypeOK, ReadOK
<1>2. /\ nodes' = nodes /\ responses' = responses /\ setting' = setting /\ round' = round
      /\ chosen' = chosen /\ launched' = launched /\ scored' = scored /\ values' = values /\ pc' = "done"
      /\ samples' = {Sample(p) : p \in {q \in PathsFrom[Root] : TextOf(q) # << >>}}
  BY DEF Package
<1>3. GrowthOK'
  BY <1>1, <1>2, SameGrowth
<1>4. PathsFrom' = PathsFrom /\ TextTo' = TextTo /\ (\A n : LeavesUnder(n)' = LeavesUnder(n)) /\ HasTree'
      /\ \A p : TextOf(p)' = TextOf(p)
  BY <1>1, <1>2, SameTree
<1>5. IsScored'
  BY <1>1, <1>2, <1>4 DEF IsScored
<1>6. IsPackaged'
  <2>1. \A n : ProcessReward(n)' = ProcessReward(n)
    BY <1>2 DEF ProcessReward, Value
  <2>2. \A p : Sample(p)' = Sample(p)
    BY <1>2, <1>4, <2>1 DEF Sample
  <2> QED BY <1>2, <1>4, <2>2 DEF IsPackaged
<1>7. TypeOK'
  BY <1>1, <1>2, <1>4 DEF TypeOK
<1>8. ReadOK'
  BY <1>2, <1>4, <1>5, <1>6 DEF ReadOK
<1> QED BY <1>3, <1>4, <1>7, <1>8 DEF IInv

LEMMA StutterStep ==
  ASSUME IInv, UNCHANGED vars
  PROVE  IInv'
<1>1. /\ nodes' = nodes /\ responses' = responses /\ setting' = setting /\ round' = round
      /\ chosen' = chosen /\ launched' = launched /\ scored' = scored /\ values' = values /\ pc' = pc
      /\ samples' = samples
  BY DEF vars
<1>2. TypeOK /\ (HasTree => GrowthOK) /\ (~HasTree => responses = << >>) /\ ReadOK
  BY DEF IInv
<1>3. PathsFrom' = PathsFrom /\ TextTo' = TextTo /\ (\A n : LeavesUnder(n)' = LeavesUnder(n)) /\ (HasTree' <=> HasTree)
      /\ \A p : TextOf(p)' = TextOf(p)
  BY <1>1, SameTree
<1>4. HasTree' => GrowthOK'
  BY <1>1, <1>2, <1>3, SameGrowth
<1>5. IsScored => IsScored'
  BY <1>1, <1>3 DEF IsScored
<1>6. IsPackaged => IsPackaged'
  <2>1. \A n : ProcessReward(n)' = ProcessReward(n)
    BY <1>1 DEF ProcessReward, Value
  <2>2. \A p : Sample(p)' = Sample(p)
    BY <1>1, <1>3, <2>1 DEF Sample
  <2> QED BY <1>1, <1>3, <2>2 DEF IsPackaged
<1>7. TypeOK'
  BY <1>1, <1>2, <1>3 DEF TypeOK
<1>8. ReadOK'
  BY <1>1, <1>2, <1>3, <1>5, <1>6 DEF ReadOK
<1> QED BY <1>1, <1>2, <1>3, <1>4, <1>7, <1>8 DEF IInv

LEMMA InitStep ==
  ASSUME Init
  PROVE  IInv
<1>1. /\ setting \in Settings /\ nodes = << >> /\ responses = << >> /\ round = 0 /\ pc = "chain"
      /\ chosen = << >> /\ launched = << >> /\ scored = << >> /\ values = << >> /\ samples = {}
  BY DEF Init
<1>2. DOMAIN << >> = {} /\ << >> \in Seq(NodeType) /\ << >> \in Seq(ResponseType)
  BY EmptySeq
<1>3. setting.l \in Nat \ {0}
  BY <1>1, SettingFacts
<1>4. 0 \in 0..setting.l
  BY <1>3
<1>5. TypeOK
  BY <1>1, <1>2, <1>4 DEF TypeOK, HasTree
<1>6. ~HasTree /\ ReadOK
  BY <1>1 DEF HasTree, ReadOK
<1> QED BY <1>1, <1>5, <1>6 DEF IInv

LEMMA ChainStep ==
  ASSUME IInv, Chain
  PROVE  IInv'
<1>1. TypeOK /\ pc = "chain" /\ ~HasTree /\ responses = << >>
  BY DEF IInv, Chain, TypeOK
<1>2. /\ setting' = setting /\ round' = round /\ scored' = scored /\ values' = values /\ samples' = samples
      /\ chosen' = chosen /\ launched' = launched
  BY DEF Chain
<1>3. scored = << >> /\ values = << >> /\ samples = {} /\ DOMAIN chosen = {} /\ DOMAIN launched = {}
  BY <1>1 DEF TypeOK
<1>4. DOMAIN chosen' = {} /\ DOMAIN launched' = {} /\ DOMAIN scored' = {} /\ DOMAIN values' = {}
  BY <1>2, <1>3
<1>5. /\ setting \in Settings /\ setting.prompt \in Nat /\ setting.t \in Nat \ {0} /\ setting.n \in Nat /\ MaxModelLen \in Nat
      /\ Lengths \subseteq Nat /\ round \in Nat
  <2>1. setting \in Settings /\ round \in 0..setting.l
    BY <1>1 DEF TypeOK
  <2>2. setting.prompt \in Nat /\ setting.n \in Nat /\ setting.l \in Nat /\ setting.t \in Nat \ {0} /\ MaxModelLen \in Nat
    BY <2>1, SettingFacts
  <2> QED BY <2>1, <2>2, TreeAssumption
<1>6. PICK n \in ResponseLengths(setting.prompt) :
        LET r == Response(1, n, << >>)
        IN IF n = 0 THEN pc' = "done" /\ UNCHANGED <<nodes, responses>>
           ELSE /\ pc' = "select"
                /\ responses' = <<r>>
                /\ nodes' = <<Node(r.tokens, None, {}, r.finish)>>
  BY DEF Chain
<1>7. CASE n = 0
  <2>1. pc' = "done" /\ nodes' = nodes /\ responses' = responses
    BY <1>6, <1>7
  <2>2. ~HasTree'
    BY <1>1, <2>1 DEF HasTree
  <2>3. TypeOK'
    BY <1>1, <1>2, <1>4, <2>1 DEF TypeOK
  <2>4. ReadOK'
    BY <1>2, <1>3, <2>2 DEF ReadOK
  <2> QED BY <1>1, <2>1, <2>2, <2>3, <2>4 DEF IInv
<1>8. CASE n # 0
  <2> DEFINE tokens == [j \in 1..n |-> <<1, j>>]
             x == FinishReason(setting.prompt + Len(<< >>), n)
             r == [context |-> << >>, tokens |-> tokens, finish |-> x]
             top == [segment |-> tokens, parent |-> None, children |-> {}, leaf |-> TRUE, finish |-> x]
  <2>1. pc' = "select" /\ responses' = <<r>> /\ nodes' = <<top>>
    BY <1>6, <1>8 DEF Response, Node
  <2>2. n \in Nat \ {0} /\ setting.prompt + n <= MaxModelLen
    <3>1. ~(setting.prompt >= MaxModelLen)
      BY <1>8 DEF ResponseLengths
    <3>2. n \in {k \in Lengths : setting.prompt + k < MaxModelLen} \cup {MaxModelLen - setting.prompt}
      BY <3>1 DEF ResponseLengths
    <3>3. (n \in Nat /\ setting.prompt + n < MaxModelLen) \/ n = MaxModelLen - setting.prompt
      BY <1>5, <3>2
    <3> QED BY <1>5, <1>8, <3>1, <3>3
  <2>3. x \in FinishReasons
    BY DEF FinishReason, FinishReasons
  <2>4. tokens \in Seq(Token) /\ Len(tokens) = n /\ DOMAIN tokens = 1..n /\ tokens # << >>
    <3>1. \A j \in 1..n : <<1, j>> \in Token
      BY <2>2 DEF Token
    <3>2. tokens \in [1..n -> Token]
      BY <3>1
    <3>3. tokens \in Seq(Token) /\ DOMAIN tokens = 1..n
      BY <2>2, <3>2
    <3>4. Len(tokens) = n
      BY <2>2, <3>3
    <3>5. tokens # << >>
      BY <2>2, <3>4, EmptySeq
    <3> QED BY <3>3, <3>4, <3>5
  <2>5. /\ \A j, k \in DOMAIN tokens : tokens[j] = tokens[k] => j = k
        /\ \A j \in DOMAIN tokens : tokens[j][1] = 1
    OBVIOUS
  <2> HIDE DEF x
  <2>6. r \in ResponseType /\ top \in NodeType
    <3> HIDE DEF tokens
    <3>1. << >> \in Seq(Token)
      OBVIOUS
    <3>2. r \in ResponseType
      BY <2>3, <2>4, <3>1 DEF ResponseType
    <3>3. top \in NodeType
      BY <2>3, <2>4 DEF NodeType, None
    <3> QED BY <3>2, <3>3
  <2>7. /\ responses' \in Seq(ResponseType) /\ nodes' \in Seq(NodeType) /\ HasTree'
        /\ DOMAIN responses' = {1} /\ DOMAIN nodes' = {1} /\ Len(responses') = 1 /\ Len(nodes') = 1
        /\ responses'[1] = r /\ nodes'[1] = top /\ responses' # << >>
    <3> HIDE DEF r, top
    <3> QED BY <2>1, <2>6 DEF HasTree
  <2>8. /\ r.context = << >> /\ r.tokens = tokens /\ r.finish = x
        /\ top.segment = tokens /\ top.parent = None /\ top.children = {} /\ top.leaf /\ top.finish = x
    OBVIOUS
  <2> HIDE DEF r, top, tokens
  <2>9. Tree' = {Root} /\ Leaves' = {Root} /\ IsLeaf(Root)' /\ Root = 1
    BY <2>7, <2>8 DEF Tree, Leaves, IsLeaf, Root
  <2>10. ShapeOK'
    BY <2>4, <2>7, <2>8, <2>9 DEF ShapeOK
  <2>11. TokensOK'
    <3>1. IsInjective(tokens)
      BY <2>5 DEF IsInjective
    <3> QED BY <2>5, <2>7, <2>8, <2>9, <3>1 DEF TokensOK
  <2>12. << >> \o tokens = tokens /\ Full(r) = tokens
    BY <2>4, <2>8, ConcatEmptySeq DEF Full
  <2>13. ResponsesOK'
    <3>1. \A k \in DOMAIN responses' : k = 1 /\ responses'[k] = r
      BY <2>7
    <3>2. setting.prompt + Len(Full(r)) <= MaxModelLen
      BY <2>2, <2>4, <2>12
    <3>3. r.tokens = [j \in 1..Len(r.tokens) |-> <<1, j>>]
      BY <2>4, <2>8 DEF tokens
    <3> QED BY <1>2, <2>7, <2>8, <3>1, <3>2, <3>3 DEF ResponsesOK
  <2>14. ChosenOK'
    BY <1>4 DEF ChosenOK
  <2>15. CountOK'
    <3>1. Pending' = {}
      BY <1>4 DEF Pending
    <3>2. IsFiniteSet(Pending') /\ Cardinality(Pending') = 0
      BY <3>1, FS_EmptySet
    <3> DEFINE b == (setting.n * setting.t) * round
    <3>3. b \in Nat /\ setting.t * 0 = 0
      <4> DEFINE q == setting.n * setting.t
      <4>1. q \in Nat
        BY <1>5
      <4> HIDE DEF q
      <4>2. q * round \in Nat
        BY <1>5, <4>1
      <4> QED BY <1>5, <4>2 DEF q
    <3> HIDE DEF b
    <3>4. 1 + 0 <= 1 + b
      BY <3>3
    <3> QED BY <1>2, <2>7, <3>2, <3>3, <3>4 DEF CountOK, b
  <2>16. BranchedOnce'
    <3>1. \A i \in DOMAIN responses' : responses'[i].context = << >>
      BY <2>7, <2>8
    <3>2. {j \in DOMAIN responses' : responses'[j].context = << >>} = {1}
      BY <2>7, <2>8
    <3>3. Cardinality({1}) <= 1
      BY FS_Singleton
    <3> QED BY <3>1, <3>2, <3>3 DEF BranchedOnce
  <2>17. \E above, own : Links(above, own)'
    <3> DEFINE above == [m \in {1} |-> << >>]
               own == [m \in {1} |-> 1]
    <3>1. above \in [DOMAIN nodes' -> Seq(Token)]
      <4>1. << >> \in Seq(Token)
        OBVIOUS
      <4> QED BY <2>7, <4>1
    <3>2. IsAbove(above)' /\ IsLaunched(above)'
      BY <1>4, <2>7, <2>8 DEF IsAbove, IsLaunched
    <3>3. own \in [Leaves' -> DOMAIN responses']
      BY <2>7, <2>9
    <3>4. Owns(above, own)'
      BY <2>7, <2>8, <2>9, <2>12 DEF Owns
    <3>5. /\ \A k, m \in Leaves' : own[k] = own[m] => k = m
          /\ \A k \in DOMAIN responses' : \E m \in Leaves' : own[m] = k
      BY <2>7, <2>9
    <3> HIDE DEF above, own
    <3>6. Links(above, own)'
      BY <3>1, <3>2, <3>3, <3>4, <3>5 DEF Links
    <3> QED BY <3>6
  <2>18. GrowthOK'
    BY <2>10, <2>11, <2>13, <2>14, <2>15, <2>16, <2>17 DEF GrowthOK
  <2>19. TypeOK'
    <3>1. setting' \in Settings /\ round' \in 0..setting'.l
      BY <1>1, <1>2 DEF TypeOK
    <3> QED BY <1>2, <1>3, <1>4, <2>1, <2>7, <3>1 DEF TypeOK
  <2>20. ReadOK'
    BY <2>1 DEF ReadOK
  <2> QED BY <2>7, <2>18, <2>19, <2>20 DEF IInv
<1> QED BY <1>7, <1>8

-----------------------------------------------------------------------------
(* The theorems.                                                           *)

\* The inductive invariant: the objects that are linked form a tree, its
\* segments share no token, its leaves are the responses, and what is
\* captured or selected still fits it.
THEOREM TreeInvariant == Spec => []IInv
<1>1. Init => IInv
  BY InitStep
<1>2. IInv /\ [Next]_vars => IInv'
  <2>1. SUFFICES ASSUME IInv, [Next]_vars PROVE IInv'
    OBVIOUS
  <2>2. CASE Chain
    BY <2>1, <2>2, ChainStep
  <2>3. CASE Select
    BY <2>1, <2>3, SelectStep
  <2>4. CASE Score
    BY <2>1, <2>4, ScoreStep
  <2>5. CASE Package
    BY <2>1, <2>5, PackageStep
  <2>6. CASE Done \/ UNCHANGED vars
    BY <2>1, <2>6, StutterStep DEF Done
  <2>7. ASSUME NEW n \in DOMAIN chosen, Launch(n)
        PROVE  IInv'
    BY <2>1, <2>7, LaunchStep
  <2>8. ASSUME NEW n \in DOMAIN chosen, Grow(n)
        PROVE  IInv'
    BY <2>1, <2>8, GrowStep
  <2> QED BY <2>1, <2>2, <2>3, <2>4, <2>5, <2>6, <2>7, <2>8 DEF Next
<1> QED BY <1>1, <1>2, PTL DEF Spec

\* The variables keep their types, and nothing is selected, awaited or scored
\* but in its place.
THEOREM TreeTypes == Spec => []TypeOK
<1>1. IInv => TypeOK
  BY DEF IInv
<1> QED BY <1>1, TreeInvariant, PTL

\* The leaves of the tree are what the model generated, each once, however
\* the forks of several leaves and rounds overlap
\* (_fork_node_at_multiple_positions, _replace_node_in_tree).
THEOREM TreeKeepsItsSamples == Spec => []LeavesAreSamples
<1>1. IInv => LeavesAreSamples
  BY LeavesRead DEF IInv
<1> QED BY <1>1, TreeInvariant, PTL

\* No beginning is branched off twice and there are no more leaves than
\* init_class announces (_collect_entropy_candidates).
THEOREM TreeForksOnce == Spec => []ForksAreDistinct
<1>1. IInv => ForksAreDistinct
  <2>1. SUFFICES ASSUME IInv PROVE ForksAreDistinct
    OBVIOUS
  <2>2. TypeOK
    BY <2>1 DEF IInv
  <2> DEFINE n == setting.n
             l == setting.l
             t == setting.t
             R == Len(responses)
             pending == Cardinality(Pending)
  <2>5. n \in Nat /\ l \in Nat /\ t \in Nat /\ round \in 0..l /\ R \in Nat
    <3>1. setting \in Settings /\ round \in 0..setting.l
      BY <2>2 DEF TypeOK
    <3> QED BY <2>2, <3>1, SettingFacts, ResponseFacts
  <2>6. (n * t) \in Nat /\ (n * l) * t \in Nat /\ (n * t) * l = (n * l) * t
    <3> HIDE DEF n, l, t
    <3>1. (n * t) \in Nat /\ (n * l) \in Nat
      BY <2>5
    <3>2. (n * l) * t \in Nat /\ (n * t) * l = (n * l) * t
      BY <2>5, <3>1
    <3> QED BY <3>1, <3>2
  <2>3. CASE ~HasTree
    <3>1. responses = << >>
      BY <2>1, <2>3 DEF IInv
    <3>2. DOMAIN responses = {} /\ R = 0
      BY <3>1
    <3>3. BranchedOnce
      BY <3>2 DEF BranchedOnce
    <3>4. R <= 1 + ((n * l) * t)
      <4> DEFINE b == (n * l) * t
      <4>1. b \in Nat
        BY <2>6
      <4> HIDE DEF b
      <4>2. 0 <= 1 + b
        BY <4>1
      <4> QED BY <3>2, <4>2 DEF b
    <3> QED BY <3>3, <3>4 DEF ForksAreDistinct
  <2>4. CASE HasTree
    <3>1. BranchedOnce /\ CountOK
      BY <2>1, <2>4 DEF IInv, GrowthOK
    <3>2. R + (t * pending) <= 1 + ((n * t) * round) /\ pending \in Nat
      BY <3>1, FS_CardinalityType DEF CountOK
    <3>3. R <= 1 + ((n * l) * t)
      <4> HIDE DEF n, l, t, R, pending
      <4>1. t * pending \in Nat
        BY <2>5, <3>2
      <4>2. (n * t) * round <= (n * t) * l /\ (n * t) * round \in Nat
        <5> DEFINE q == n * t
        <5>1. q \in Nat
          BY <2>6
        <5> HIDE DEF q
        <5>2. PICK d \in Nat : l = round + d
          <6>1. l - round \in Nat /\ l = round + (l - round)
            BY <2>5
          <6> QED BY <6>1
        <5>3. q * l = (q * round) + (q * d) /\ q * d \in Nat /\ q * round \in Nat
          BY <2>5, <5>1, <5>2
        <5>4. q * round <= q * l /\ q * round \in Nat
          BY <5>3
        <5> QED BY <5>4 DEF q
      <4> DEFINE a == t * pending
                 b == (n * t) * round
                 c == (n * l) * t
      <4>3. R + a <= 1 + b /\ b <= c /\ a \in Nat /\ b \in Nat /\ c \in Nat
        BY <2>6, <3>2, <4>1, <4>2
      <4> HIDE DEF a, b, c
      <4>4. R <= 1 + c
        BY <2>5, <4>3
      <4> QED BY <4>4 DEF c
    <3> QED BY <3>1, <3>3 DEF ForksAreDistinct
  <2> QED BY <2>3, <2>4
<1> QED BY <1>1, TreeInvariant, PTL

\* What is trained is what was scored: each leaf once, with its whole text,
\* and each token for the leaves that share it (_score_leaf, _compute_values,
\* _package_training_data).
THEOREM TreeTrainsWhatItScored == Spec => []TrainedIsScored
<1>1. IInv => TrainedIsScored
  BY TrainedRead DEF IInv
<1> QED BY <1>1, TreeInvariant, PTL
=============================================================================
