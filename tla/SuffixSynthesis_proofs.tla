---------------------- MODULE SuffixSynthesis_proofs ----------------------
(***************************************************************************)
(* Proofs about SuffixSynthesis: how a solution is cut, and what follows   *)
(* for every annotation, whatever the tokens, the responses, the solutions *)
(* and the limits are.                                                     *)
(***************************************************************************)
EXTENDS SuffixSynthesis, SequenceTheorems, WellFoundedInduction, TLAPS

-----------------------------------------------------------------------------
(* Where a solution leaves the response.                                   *)

LEMMA LeastNatural ==
  ASSUME NEW T \in SUBSET Nat, T # {}
  PROVE  \E x \in T : \A y \in T : x <= y
<1>1. PICK x \in T : \A y \in T : <<y, x>> \notin OpToRel(<, Nat)
  BY NatLessThanWellFounded, WFMin
<1>2. \A y \in T : ~(y < x)
  BY <1>1 DEF OpToRel
<1> QED BY <1>2

\* match_len is what the loop of synthesize_teacher_suffix leaves: all tokens
\* before it agree, and the next ones differ unless one of the two is at its
\* end.
LEMMA MatchIsLongest ==
  ASSUME NEW r \in Seq(Token), NEW s \in Seq(Token)
  PROVE  /\ MatchLen(r, s) \in Nat
         /\ MatchLen(r, s) <= Len(r) /\ MatchLen(r, s) <= Len(s)
         /\ \A i \in 1..MatchLen(r, s) : r[i] = s[i]
         /\ MatchLen(r, s) < Len(r) /\ MatchLen(r, s) < Len(s) =>
              r[MatchLen(r, s) + 1] # s[MatchLen(r, s) + 1]
<1> DEFINE shorter == Shorter(r, s)
           leaves == LeavesAt(r, s)
           IsMatch(n) == n + 1 \in leaves /\ \A i \in leaves : n + 1 <= i
<1>1. shorter \in Nat /\ shorter <= Len(r) /\ shorter <= Len(s)
      /\ (shorter = Len(r) \/ shorter = Len(s))
  BY LenProperties DEF Shorter
<1>2. leaves \in SUBSET Nat /\ shorter + 1 \in leaves /\ \A i \in leaves : i \in 1..(shorter + 1)
  BY <1>1 DEF LeavesAt
<1>3. \E n \in 0..shorter : IsMatch(n)
  <2>1. PICK x \in leaves : \A y \in leaves : x <= y
    BY <1>2, LeastNatural
  <2>2. x - 1 \in 0..shorter /\ (x - 1) + 1 = x
    BY <1>1, <1>2
  <2> QED BY <2>1, <2>2
<1>4. MatchLen(r, s) \in 0..shorter /\ IsMatch(MatchLen(r, s))
  BY <1>3 DEF MatchLen
<1>5. ASSUME NEW i \in 1..MatchLen(r, s) PROVE r[i] = s[i]
  <2>1. i \in 1..shorter /\ i \in 1..(shorter + 1) /\ ~(MatchLen(r, s) + 1 <= i)
    BY <1>1, <1>4
  <2>2. i \notin leaves
    BY <1>4, <2>1
  <2> QED BY <2>1, <2>2 DEF LeavesAt
<1>6. ASSUME MatchLen(r, s) < Len(r), MatchLen(r, s) < Len(s)
      PROVE  r[MatchLen(r, s) + 1] # s[MatchLen(r, s) + 1]
  BY <1>1, <1>4, <1>6 DEF LeavesAt
<1> QED BY <1>1, <1>4, <1>5, <1>6

-----------------------------------------------------------------------------
(* The pieces of an annotation.                                            *)

\* The prefix is the same whether it is taken from the response or from the
\* solution (synthesize_teacher_suffix keeps the one and checks the other).
LEMMA SamePrefix ==
  ASSUME NEW r \in Seq(Token), NEW s \in Seq(Token)
  PROVE  /\ SubSeq(r, 1, MatchLen(r, s)) = Prefix(r, s)
         /\ Prefix(r, s) \in Seq(Token) /\ Len(Prefix(r, s)) = MatchLen(r, s)
<1> DEFINE m == MatchLen(r, s)
<1>1. m \in Nat /\ m <= Len(r) /\ m <= Len(s) /\ \A i \in 1..m : r[i] = s[i]
  BY MatchIsLongest
<1>2. /\ \A i \in 1..m : r[i] \in Token /\ s[i] \in Token
      /\ Len(r) \in Nat /\ Len(s) \in Nat
  BY <1>1, ElementOfSeq, LenProperties
<1>3. /\ SubSeq(r, 1, m) \in Seq(Token) /\ Len(SubSeq(r, 1, m)) = m
      /\ \A i \in 1..m : SubSeq(r, 1, m)[i] = r[i]
  BY <1>1, <1>2, SubSeqProperties
<1>4. /\ SubSeq(s, 1, m) \in Seq(Token) /\ Len(SubSeq(s, 1, m)) = m
      /\ \A i \in 1..m : SubSeq(s, 1, m)[i] = s[i]
  BY <1>1, <1>2, SubSeqProperties
<1>5. SubSeq(r, 1, m) = SubSeq(s, 1, m)
  BY <1>1, <1>3, <1>4, SeqEqual
<1> QED BY <1>4, <1>5 DEF Prefix

\* What is cut off: the rests of both, which together with the prefix are the
\* whole again.
LEMMA Rests ==
  ASSUME NEW r \in Seq(Token), NEW s \in Seq(Token)
  PROVE  /\ SuffixText(r, s) \in Seq(Token) /\ FailedSuffix(r, s) \in Seq(Token)
         /\ Len(SuffixText(r, s)) = Len(s) - MatchLen(r, s)
         /\ Len(FailedSuffix(r, s)) = Len(r) - MatchLen(r, s)
         /\ SuffixText(r, s) # << >> => SuffixText(r, s)[1] = s[MatchLen(r, s) + 1]
         /\ FailedSuffix(r, s) # << >> => FailedSuffix(r, s)[1] = r[MatchLen(r, s) + 1]
         /\ Prefix(r, s) \o FailedSuffix(r, s) = r
         /\ Prefix(r, s) \o SuffixText(r, s) = s
<1> DEFINE m == MatchLen(r, s)
<1>1. m \in Nat /\ m <= Len(r) /\ m <= Len(s)
  BY MatchIsLongest
<1>2. ASSUME NEW t \in Seq(Token), m <= Len(t)
      PROVE  /\ SubSeq(t, m + 1, Len(t)) \in Seq(Token)
             /\ Len(SubSeq(t, m + 1, Len(t))) = Len(t) - m
             /\ SubSeq(t, m + 1, Len(t)) # << >> => SubSeq(t, m + 1, Len(t))[1] = t[m + 1]
             /\ SubSeq(t, 1, m) \o SubSeq(t, m + 1, Len(t)) = t
  <2>1. Len(t) \in Nat /\ \A i \in (m + 1)..Len(t) : t[i] \in Token
    BY <1>1, ElementOfSeq, LenProperties
  <2>2. /\ SubSeq(t, m + 1, Len(t)) \in Seq(Token)
        /\ Len(SubSeq(t, m + 1, Len(t))) = Len(t) - m
        /\ \A i \in 1..(Len(t) - m) : SubSeq(t, m + 1, Len(t))[i] = t[m + i]
    <3>1. /\ SubSeq(t, m + 1, Len(t)) \in Seq(Token)
          /\ Len(SubSeq(t, m + 1, Len(t))) =
               IF m + 1 <= Len(t) THEN Len(t) - (m + 1) + 1 ELSE 0
          /\ \A i \in 1..(Len(t) - (m + 1) + 1) :
               SubSeq(t, m + 1, Len(t))[i] = t[(m + 1) + i - 1]
      BY <1>1, <2>1, SubSeqProperties, m + 1 \in Int, Len(t) \in Int
    <3> QED BY <1>1, <1>2, <2>1, <3>1
  <2>3. SubSeq(t, 1, m) \o SubSeq(t, m + 1, Len(t)) = t
    <3>1. 1 \in 1..(Len(t) + 1) /\ m \in (1 - 1)..Len(t) /\ Len(t) \in m..Len(t)
      BY <1>1, <1>2, <2>1
    <3>2. SubSeq(t, 1, m) \o SubSeq(t, m + 1, Len(t)) = SubSeq(t, 1, Len(t))
      BY <3>1, ConcatAdjacentSubSeq
    <3> QED BY <3>2, SubSeqFull
  <2>4. ASSUME SubSeq(t, m + 1, Len(t)) # << >>
        PROVE  SubSeq(t, m + 1, Len(t))[1] = t[m + 1]
    <3>1. Len(SubSeq(t, m + 1, Len(t))) \in Nat \ {0}
      BY <2>2, <2>4, EmptySeq
    <3>2. 1 \in 1..(Len(t) - m)
      BY <1>1, <2>1, <2>2, <3>1
    <3> QED BY <2>2, <3>2
  <2> QED BY <2>2, <2>3, <2>4
<1>3. SubSeq(r, 1, m) = Prefix(r, s) /\ SubSeq(s, 1, m) = Prefix(r, s)
  BY SamePrefix DEF Prefix
<1> QED BY <1>1, <1>2, <1>3 DEF SuffixText, FailedSuffix

\* append_eos_if_missing closes a text with exactly one end-of-sequence token.
LEMMA Closed ==
  ASSUME NEW t \in Seq(Token)
  PROVE  /\ AppendEosIfMissing(t) \in Seq(Token)
         /\ t # << >> => AppendEosIfMissing(t)[1] = t[1] /\ AppendEosIfMissing(t) # << >>
BY SynthesisAssumption, AppendProperties, EmptySeq, LenProperties DEF AppendEosIfMissing

LEMMA AppendAfter ==
  ASSUME NEW h \in Seq(Token), NEW t \in Seq(Token), NEW e \in Token
  PROVE  h \o Append(t, e) = Append(h \o t, e)
OBVIOUS

\* What is trained: the prefix and the closed suffix are the solution, closed.
LEMMA TrainedIsSolution ==
  ASSUME NEW r \in Seq(Token), NEW s \in Seq(Token), SuffixText(r, s) # << >>
  PROVE  Prefix(r, s) \o AppendEosIfMissing(SuffixText(r, s)) =
           IF s[Len(s)] = Eos THEN s ELSE Append(s, Eos)
<1> DEFINE head == Prefix(r, s)
           tail == SuffixText(r, s)
<1>1. head \in Seq(Token) /\ tail \in Seq(Token) /\ head \o tail = s
  BY SamePrefix, Rests
<1>2. Len(tail) \in Nat \ {0} /\ Len(head) \in Nat
  BY <1>1, EmptySeq, LenProperties
<1>3. s[Len(s)] = tail[Len(tail)]
  <2>1. /\ Len(s) = Len(head) + Len(tail)
        /\ \A i \in 1..(Len(head) + Len(tail)) :
             s[i] = IF i <= Len(head) THEN head[i] ELSE tail[i - Len(head)]
    BY <1>1, ConcatProperties
  <2>2. Len(s) \in 1..(Len(head) + Len(tail)) /\ ~(Len(s) <= Len(head))
        /\ Len(s) - Len(head) = Len(tail)
    BY <1>2, <2>1
  <2> QED BY <2>1, <2>2
<1>4. CASE s[Len(s)] = Eos
  BY <1>1, <1>3, <1>4 DEF AppendEosIfMissing, EndsWithEos
<1>5. CASE s[Len(s)] # Eos
  <2>1. AppendEosIfMissing(tail) = Append(tail, Eos)
    BY <1>3, <1>5 DEF AppendEosIfMissing, EndsWithEos
  <2>2. head \o Append(tail, Eos) = Append(head \o tail, Eos)
    BY <1>1, AppendAfter, SynthesisAssumption
  <2> QED BY <1>1, <1>5, <2>1, <2>2
<1> QED BY <1>4, <1>5

LEMMA AnnotationPieces ==
  ASSUME NEW r \in Seq(Token), NEW s \in Seq(Token), NEW i, NEW e, e = Annotation(i, r, s)
  PROVE  /\ e.prefix = Prefix(r, s) /\ e.failed = FailedSuffix(r, s)
         /\ e.suffix = AppendEosIfMissing(SuffixText(r, s))
BY SamePrefix DEF Annotation

\* An annotation that passed the checks is cut exactly.
ExactCut(e, r, s) ==
  /\ e.prefix \o e.failed = r
  /\ e.prefix \o e.suffix = IF s[Len(s)] = Eos THEN s ELSE Append(s, Eos)
  /\ e.failed # << >> => e.suffix[1] # e.failed[1]

LEMMA UsableIsExact ==
  ASSUME NEW r \in Seq(Token), NEW s \in Seq(Token), NEW p, IsUsable(p, r, s),
         NEW i, NEW e, e = Annotation(i, r, s)
  PROVE  ExactCut(e, r, s)
<1>1. /\ e.prefix = Prefix(r, s) /\ e.failed = FailedSuffix(r, s)
      /\ e.suffix = AppendEosIfMissing(SuffixText(r, s))
  BY AnnotationPieces
<1>2. SuffixText(r, s) # << >>
  BY DEF IsUsable
<1>3. /\ Prefix(r, s) \o FailedSuffix(r, s) = r
      /\ Prefix(r, s) \o AppendEosIfMissing(SuffixText(r, s)) =
           IF s[Len(s)] = Eos THEN s ELSE Append(s, Eos)
  BY <1>2, Rests, TrainedIsSolution, Zenon
<1>4. ASSUME e.failed # << >> PROVE e.suffix[1] # e.failed[1]
  <2>1. FailedSuffix(r, s) \in Seq(Token) /\ SuffixText(r, s) \in Seq(Token)
    BY Rests
  <2>2. Len(FailedSuffix(r, s)) \in Nat \ {0} /\ Len(SuffixText(r, s)) \in Nat \ {0}
    BY <1>1, <1>2, <1>4, <2>1, EmptySeq
  <2>3. /\ Len(SuffixText(r, s)) = Len(s) - MatchLen(r, s)
        /\ Len(FailedSuffix(r, s)) = Len(r) - MatchLen(r, s)
    BY Rests
  <2>4. MatchLen(r, s) < Len(r) /\ MatchLen(r, s) < Len(s)
    BY <2>2, <2>3, MatchIsLongest, LenProperties
  <2>5. e.failed[1] = r[MatchLen(r, s) + 1] /\ e.suffix[1] = s[MatchLen(r, s) + 1]
    BY <1>1, <1>2, <1>4, <2>1, Rests, Closed
  <2> QED BY <2>4, <2>5, MatchIsLongest
<1> QED BY <1>1, <1>3, <1>4, Zenon DEF ExactCut

\* Its pieces respect the limits.
LEMMA UsableFits ==
  ASSUME NEW r \in Seq(Token), NEW s \in Seq(Token), NEW p \in Nat, IsUsable(p, r, s),
         NEW i, NEW e, e = Annotation(i, r, s)
  PROVE  /\ p + Len(e.prefix) + Len(e.suffix) <= MaxModelLen
         /\ p + Len(e.prefix) + MinBranch <= MaxModelLen
<1>1. e.prefix = Prefix(r, s) /\ e.suffix = AppendEosIfMissing(SuffixText(r, s))
  BY AnnotationPieces
<1>2. Len(Prefix(r, s)) = MatchLen(r, s) /\ MatchLen(r, s) \in Nat
  BY SamePrefix, MatchIsLongest
<1> QED BY <1>1, <1>2, SynthesisAssumption DEF IsUsable, Fits, LeavesRoom

-----------------------------------------------------------------------------
(* The invariant.                                                          *)

\* A reported annotation is the one its rollout and the solution give, and
\* that solution passed the checks.
ResultFits ==
  Annotated =>
    /\ phase = "done" /\ solution \in Solution
    /\ result.rollout \in DOMAIN rollouts
    /\ IsUsable(Cut.prompt, Cut.response, solution)
    /\ result = Annotation(result.rollout, Cut.response, solution)

\* What the scorer verifies passed the checks for the rollout that is next.
ScoredIsUsable ==
  phase = "scoring" =>
    /\ solution \in Solution
    /\ \A i \in DOMAIN rollouts :
         IsNext(i) => IsUsable(rollouts[i].prompt, rollouts[i].response, solution)

Inv ==
  /\ TypeOK /\ DOMAIN rollouts \subseteq Nat
  /\ ResultFits /\ ScoredIsUsable /\ LongestFirst

\* An annotation is well-typed and no NoResult.
LEMMA AnnotationType ==
  ASSUME NEW r \in Seq(Token), NEW s \in Seq(Token), NEW i \in DOMAIN rollouts
  PROVE  Annotation(i, r, s) \in EntryType /\ Annotation(i, r, s) # NoResult
<1>1. SubSeq(r, 1, MatchLen(r, s)) \in Seq(Token)
  BY SamePrefix
<1>2. AppendEosIfMissing(SuffixText(r, s)) \in Seq(Token) /\ FailedSuffix(r, s) \in Seq(Token)
  BY Rests, Closed
<1>3. Annotation(i, r, s).kind = "entry" /\ NoResult.kind = "none"
  BY DEF Annotation, NoResult
<1> QED BY <1>1, <1>2, <1>3 DEF Annotation, EntryType

LEMMA RolloutIsText ==
  ASSUME TypeOK, NEW i \in DOMAIN rollouts
  PROVE  rollouts[i].response \in Seq(Token) /\ Len(rollouts[i].response) \in Nat
<1>1. rollouts[i].response \in Seq(Token)
  BY SynthesisAssumption DEF TypeOK, Rollout
<1> QED BY <1>1, LenProperties

LEMMA InitInv == Init => Inv
<1> SUFFICES ASSUME Init PROVE Inv
  OBVIOUS
<1>1. PICK n \in 1..(IF chain THEN MaxRollouts ELSE 1) : rollouts \in [1..n -> Rollout]
  BY DEF Init
<1>2. n \in Nat \ {0} /\ DOMAIN rollouts = 1..n /\ Left = 1..n
  BY <1>1, SynthesisAssumption DEF Init, Left
<1>3. 1 \in Left /\ DOMAIN rollouts \subseteq Nat
  BY <1>2
<1>4. TypeOK
  <2>1. \A i \in DOMAIN rollouts : rollouts[i] \in Rollout
    BY <1>1
  <2>2. 0 \in 0..(Calls - 1) /\ << >> \in Seq(Token)
    BY SynthesisAssumption, EmptySeq
  <2> QED BY <1>3, <2>1, <2>2 DEF Init, TypeOK
<1>5. result = NoResult /\ phase = "calling"
  BY DEF Init
<1> QED BY <1>3, <1>4, <1>5 DEF Inv, ResultFits, ScoredIsUsable, LongestFirst, Annotated

\* Giving up on the rollout that is next: what is left afterwards.
LEMMA GivenUp ==
  ASSUME Inv, phase # "done", NEW i \in DOMAIN rollouts, IsNext(i), GiveUpOn(i),
         UNCHANGED <<chain, rollouts, result>>,
         UNCHANGED solution \/ solution' = << >>
  PROVE  Inv'
<1>1. ~Annotated /\ ~Annotated'
  BY DEF Inv, ResultFits, Annotated
<1>2. Left' = Left \ {i} /\ i \in Left
  BY DEF GiveUpOn, Left, IsNext
<1>3. \/ phase' = "done" /\ Left' = {}
      \/ phase' = "calling" /\ Left' # {}
  BY <1>2 DEF GiveUpOn
<1>4. solution' \in Seq(Token)
  BY EmptySeq DEF Inv, TypeOK
<1>5. TypeOK'
  BY <1>1, <1>3, <1>4, SynthesisAssumption DEF Inv, TypeOK, GiveUpOn, Annotated, EntryType
<1> QED BY <1>1, <1>3, <1>5 DEF Inv, ResultFits, ScoredIsUsable, LongestFirst

LEMMA CallFailsInv ==
  ASSUME Inv, NEW i \in DOMAIN rollouts, CallFails(i)
  PROVE  Inv'
<1>1. CASE GiveUpOn(i)
  BY <1>1, GivenUp DEF CallFails
<1>2. CASE calls + 1 < Calls /\ calls' = calls + 1 /\ UNCHANGED <<tried, phase>>
  <2>1. TypeOK'
    BY <1>2, SynthesisAssumption DEF Inv, TypeOK, CallFails, Left, EntryType
  <2> QED BY <1>2, <2>1 DEF Inv, ResultFits, ScoredIsUsable, LongestFirst, CallFails, Annotated, Cut
<1> QED BY <1>1, <1>2 DEF CallFails, CallFailed

LEMMA CallAnswersInv ==
  ASSUME Inv, NEW i \in DOMAIN rollouts, NEW s \in Solution, CallAnswers(i, s)
  PROVE  Inv'
<1>1. CASE GiveUpOn(i) /\ UNCHANGED solution
  BY <1>1, GivenUp DEF CallAnswers
<1>2. CASE /\ IsUsable(rollouts[i].prompt, rollouts[i].response, s)
           /\ phase' = "scoring" /\ solution' = s /\ UNCHANGED <<tried, calls>>
  <2>1. \A j \in DOMAIN rollouts : IsNext(j) => j = i
    <3>1. ASSUME NEW j \in DOMAIN rollouts, IsNext(j) PROVE j = i
      <4>1. /\ Len(rollouts[i].response) \in Nat /\ Len(rollouts[j].response) \in Nat
            /\ i \in Nat /\ j \in Nat
        BY RolloutIsText DEF Inv
      <4> QED BY <3>1, <4>1 DEF IsNext, CallAnswers
    <3> QED BY <3>1
  <2>2. TypeOK'
    BY <1>2, SynthesisAssumption DEF Inv, TypeOK, CallAnswers, Left, EntryType
  <2>3. ~Annotated /\ ~Annotated'
    BY DEF CallAnswers, Inv, ResultFits, Annotated
  <2>4. \A j : IsNext(j)' <=> IsNext(j)
    BY <1>2 DEF CallAnswers, IsNext, Left
  <2>5. ScoredIsUsable'
    BY <1>2, <2>1, <2>4 DEF CallAnswers, ScoredIsUsable
  <2> QED BY <1>2, <2>2, <2>3, <2>5 DEF Inv, CallAnswers, ResultFits, LongestFirst
<1> QED BY <1>1, <1>2 DEF CallAnswers

LEMMA ScoreInv ==
  ASSUME Inv, NEW i \in DOMAIN rollouts, NEW verified \in BOOLEAN, Score(i, verified)
  PROVE  Inv'
<1>1. CASE GiveUpOn(i) /\ solution' = << >> /\ UNCHANGED result
  BY <1>1, GivenUp DEF Score
<1>2. CASE /\ result' = Annotation(i, rollouts[i].response, solution)
           /\ tried' = tried \cup {i} /\ phase' = "done"
           /\ UNCHANGED <<calls, solution>>
  <2>1. /\ solution \in Solution /\ solution \in Seq(Token) /\ i \in DOMAIN rollouts
        /\ IsUsable(rollouts[i].prompt, rollouts[i].response, solution)
    BY SynthesisAssumption DEF Inv, ScoredIsUsable, Score
  <2>2. result' \in EntryType /\ result' # NoResult /\ result'.rollout = i
    BY <1>2, <2>1, AnnotationType, RolloutIsText DEF Inv, Annotation
  <2>3. TypeOK'
    BY <1>2, <2>2 DEF Inv, TypeOK, Score, EntryType
  <2>4. Annotated' /\ Cut' = rollouts[i]
    BY <2>2 DEF Annotated, Cut, Score
  <2>5. ResultFits'
    BY <1>2, <2>1, <2>2, <2>4 DEF ResultFits, Score
  <2>6. LongestFirst'
    <3>1. ASSUME NEW j \in Left' PROVE Len(rollouts[j].response) <= Len(rollouts[i].response)
      <4>1. j \in Left /\ i \in Left /\ IsNext(i)
        BY <1>2, <3>1 DEF Left, Score, IsNext
      <4>2. Len(rollouts[i].response) \in Nat /\ Len(rollouts[j].response) \in Nat
        BY <4>1, RolloutIsText DEF Inv, Left
      <4> QED BY <4>1, <4>2 DEF IsNext
    <3> QED BY <2>4, <3>1 DEF LongestFirst, Score
  <2> QED BY <1>2, <2>3, <2>5, <2>6 DEF Inv, ScoredIsUsable, Score
<1> QED BY <1>1, <1>2 DEF Score

LEMMA NextInv == Inv /\ [Next]_vars => Inv'
<1> SUFFICES ASSUME Inv, [Next]_vars PROVE Inv'
  OBVIOUS
<1>1. ASSUME NEW i \in DOMAIN rollouts, Call(i) PROVE Inv'
  BY <1>1, CallFailsInv, CallAnswersInv DEF Call
<1>2. ASSUME NEW i \in DOMAIN rollouts, Verify(i) PROVE Inv'
  BY <1>2, ScoreInv DEF Verify
<1>3. CASE UNCHANGED vars
  BY <1>3 DEF vars, Inv, TypeOK, ResultFits, ScoredIsUsable, LongestFirst, Annotated, Cut, Left,
       IsNext, EntryType
<1> QED BY <1>1, <1>2, <1>3 DEF Next

LEMMA Invariance == Spec => []Inv
BY InitInv, NextInv, PTL DEF Spec

-----------------------------------------------------------------------------
\* An annotation task is at one rollout at a time, and its calls stay within
\* the temperature schedule (call_teacher_with_retry, _run_one_chain).
THEOREM TaskTypes == Spec => []TypeOK
<1>1. Inv => TypeOK
  BY DEF Inv
<1> QED BY <1>1, Invariance, PTL

\* For all tokens, responses and solutions: the pieces that are reported are
\* the response and the verified solution, cut where the two part
\* (synthesize_teacher_suffix).
THEOREM ExactSplit == Spec => []SplitIsExact
<1>1. Inv => SplitIsExact
  <2> SUFFICES ASSUME Inv, Annotated PROVE SplitIsExact
    BY DEF SplitIsExact, PiecesFit, CutAtFirstError
  <2>1. /\ Cut.response \in Seq(Token) /\ solution \in Seq(Token)
        /\ IsUsable(Cut.prompt, Cut.response, solution)
        /\ result = Annotation(result.rollout, Cut.response, solution)
    BY SynthesisAssumption, RolloutIsText DEF Inv, ResultFits, Cut
  <2>2. ExactCut(result, Cut.response, solution)
    BY <2>1, UsableIsExact
  <2> QED BY <2>2, Zenon DEF ExactCut, SplitIsExact, PiecesFit, CutAtFirstError
<1> QED BY <1>1, Invariance, PTL

\* Whatever the limits are, the stored pieces respect them
\* (synthesize_teacher_suffix).
THEOREM Fitting == Spec => []FitsModel
<1>1. Inv => FitsModel
  <2> SUFFICES ASSUME Inv, Annotated PROVE FitsModel
    BY DEF FitsModel
  <2>1. /\ Cut.response \in Seq(Token) /\ solution \in Seq(Token) /\ Cut.prompt \in Nat
        /\ IsUsable(Cut.prompt, Cut.response, solution)
        /\ result = Annotation(result.rollout, Cut.response, solution)
    BY SynthesisAssumption, RolloutIsText DEF Inv, ResultFits, Cut, TypeOK, Rollout
  <2> QED BY <2>1, UsableFits DEF FitsModel
<1> QED BY <1>1, Invariance, PTL

\* A chain is given up only after all of its rollouts, the longest first
\* (_run_one_chain).
THEOREM LongestGoFirst == Spec => []LongestFirst
<1>1. Inv => LongestFirst
  BY DEF Inv
<1> QED BY <1>1, Invariance, PTL
=============================================================================
