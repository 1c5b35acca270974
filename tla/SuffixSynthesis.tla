-------------------------- MODULE SuffixSynthesis --------------------------
(***************************************************************************)
(* One annotation task of the teacher worker, from the failed rollouts it  *)
(* is given to the annotated branch point it reports or gives up on:       *)
(*   - _run_one_chain tries the rollouts of a chain one after the other,   *)
(*     _run_one_legacy and _run_one_forest have a single one;              *)
(*   - synthesize_teacher_suffix asks the teacher for a correct solution   *)
(*     (call_teacher_with_retry walks through a temperature schedule),     *)
(*     cuts it where it leaves the failed response, checks the lengths,    *)
(*     and lets the reward scorer verify it;                               *)
(*   - run_from_teacher_entry trains on what was cut off.                  *)
(*                                                                         *)
(* The teacher and the scorer answer as they like.  Texts are sequences of *)
(* tokens; of a prompt only its length counts.  A solution is what the     *)
(* tokenizer encodes the parsed reply to.  Decoding, templates, rewards    *)
(* and the pause between two calls are left out.                           *)
(***************************************************************************)
EXTENDS Integers, Sequences

CONSTANTS
  Token,           \* the tokenizer's tokens
  Response,        \* responses of failed rollouts
  Solution,        \* solutions a teacher may propose
  PromptLen,       \* lengths of the prompts
  Eos,             \* the tokenizer's end-of-sequence token
  MaxRollouts,     \* bound: failed rollouts a chain hands over
  Calls,           \* length of the temperature schedule
  MaxModelLen,     \* rollout.max_model_len
  MinMatch,        \* min_prefix_match_tokens
  MinMatchPercent, \* 100 * min_prefix_match_ratio
  MinSuffix,       \* min_suffix_len
  MinBranch        \* min_branch_tokens

ASSUME SynthesisAssumption ==
  /\ Response \subseteq Seq(Token) /\ Solution \subseteq Seq(Token) /\ Eos \in Token
  /\ PromptLen \subseteq Nat /\ MaxModelLen \in Nat /\ MaxRollouts \in Nat \ {0}
  /\ Calls \in Nat \ {0}
  /\ MinMatch \in Nat /\ MinMatchPercent \in 0..100 /\ MinSuffix \in Nat /\ MinBranch \in Nat

VARIABLES
  chain,    \* a chain's task: _run_one_chain
  rollouts, \* the failed rollouts of the task
  tried,    \* the rollouts that are done with
  calls,    \* calls made for the present rollout
  solution, \* the solution the scorer has to verify
  phase,    \* where the task is: calling, scoring, done
  result    \* the annotated branch point, or NoResult

vars == <<chain, rollouts, tried, calls, solution, phase, result>>

NoResult == [kind |-> "none"]

-----------------------------------------------------------------------------
(* Cutting a solution.                                                     *)

Shorter(r, s) == IF Len(r) <= Len(s) THEN Len(r) ELSE Len(s)

\* Where the loop over both stops: the first difference, or the end of the
\* shorter one.
LeavesAt(r, s) ==
  {i \in 1..(Shorter(r, s) + 1) : i <= Shorter(r, s) => r[i] # s[i]}

\* Mutant: the loop leaves match_len at the last index that agreed.
MatchBefore(r, s) ==
  LET n == CHOOSE n \in 0..Shorter(r, s) :
             n + 1 \in LeavesAt(r, s) /\ \A i \in LeavesAt(r, s) : n + 1 <= i
  IN IF n = 0 THEN 0 ELSE n - 1

\* match_len: the tokens the two have in common at their beginning.
MatchLen(r, s) ==
  CHOOSE n \in 0..Shorter(r, s) :
    n + 1 \in LeavesAt(r, s) /\ \A i \in LeavesAt(r, s) : n + 1 <= i

Prefix(r, s) == SubSeq(s, 1, MatchLen(r, s))
SuffixText(r, s) == SubSeq(s, MatchLen(r, s) + 1, Len(s))
FailedSuffix(r, s) == SubSeq(r, MatchLen(r, s) + 1, Len(r))

EndsWithEos(ids) == ids # << >> /\ ids[Len(ids)] = Eos

\* append_eos_if_missing.
AppendEosIfMissing(ids) == IF EndsWithEos(ids) THEN ids ELSE Append(ids, Eos)

\* Mutant: the length check forgets the token that is appended.
FitsWithoutEos(p, r, s) == p + Len(s) <= MaxModelLen

\* The trajectory fits, with its end-of-sequence token.
Fits(p, r, s) ==
  p + Len(Prefix(r, s)) + Len(AppendEosIfMissing(SuffixText(r, s))) <= MaxModelLen

\* Rollouts from the branch point have room to go on.
LeavesRoom(p, r, s) == MaxModelLen - (p + MatchLen(r, s)) >= MinBranch

\* The checks between the teacher's reply and the scorer.
IsUsable(p, r, s) ==
  /\ s # << >>
  /\ MatchLen(r, s) >= MinMatch
  /\ r # << >> => MatchLen(r, s) * 100 >= MinMatchPercent * Len(r)
  /\ SuffixText(r, s) # << >>
  /\ Len(SuffixText(r, s)) >= MinSuffix
  /\ Fits(p, r, s)
  /\ LeavesRoom(p, r, s)

\* The annotated BranchPointEntry with its TeacherSuffix.
Annotation(i, r, s) ==
  [kind |-> "entry", rollout |-> i, prefix |-> SubSeq(r, 1, MatchLen(r, s)),
   suffix |-> AppendEosIfMissing(SuffixText(r, s)), failed |-> FailedSuffix(r, s)]

-----------------------------------------------------------------------------
Rollout == [prompt : PromptLen, response : Response]

\* A rollout never exceeds the model's length, and all of a chain's share
\* the prompt.
Init ==
  /\ chain \in BOOLEAN
  /\ \E n \in 1..(IF chain THEN MaxRollouts ELSE 1), p \in PromptLen :
       rollouts \in [1..n -> {r \in Rollout : r.prompt = p /\ p + Len(r.response) <= MaxModelLen}]
  /\ tried = {} /\ calls = 0 /\ solution = << >>
  /\ phase = "calling" /\ result = NoResult

Left == DOMAIN rollouts \ tried

\* sorted(rollouts, key=-len): the longest response left, the first of equals.
IsNext(i) ==
  /\ i \in Left
  /\ \A j \in Left : LET l == Len(rollouts[i].response)
                         m == Len(rollouts[j].response)
                     IN m < l \/ (m = l /\ i <= j)

\* Mutant: the first rollout without an annotation ends the task.
StopAtFirst(i) ==
  /\ tried' = tried \cup {i} /\ calls' = 0
  /\ phase' = "done"

\* Mutant: the same rollout again.
Again(i) == calls' = 0 /\ phase' = "calling" /\ UNCHANGED tried

\* Rollout i yields no annotation: on to the next one, if there is one.
GiveUpOn(i) ==
  /\ tried' = tried \cup {i} /\ calls' = 0
  /\ phase' = IF Left = {i} THEN "done" ELSE "calling"

\* A request error, a timeout or a reply that does not parse: the next
\* temperature, until the schedule ends.
CallFailed(i) ==
  IF calls + 1 < Calls
  THEN calls' = calls + 1 /\ UNCHANGED <<tried, phase>>
  ELSE GiveUpOn(i)

CallFails(i) ==
  /\ phase = "calling" /\ IsNext(i)
  /\ CallFailed(i)
  /\ UNCHANGED <<chain, rollouts, solution, result>>

\* A reply that parses ends the calls; what is unusable is not asked again.
CallAnswers(i, s) ==
  /\ phase = "calling" /\ IsNext(i)
  /\ IF IsUsable(rollouts[i].prompt, rollouts[i].response, s)
     THEN phase' = "scoring" /\ solution' = s /\ UNCHANGED <<tried, calls>>
     ELSE GiveUpOn(i) /\ UNCHANGED solution
  /\ UNCHANGED <<chain, rollouts, result>>

\* _run_one_chain takes an annotation only if it goes deeper than the prompt.
IsTaken(r, s) == chain => MatchLen(r, s) > 0

\* _score_node decides; an exception counts as a rejection.
Score(i, verified) ==
  /\ phase = "scoring" /\ IsNext(i)
  /\ IF verified /\ IsTaken(rollouts[i].response, solution)
     THEN /\ result' = Annotation(i, rollouts[i].response, solution)
          /\ tried' = tried \cup {i} /\ phase' = "done"
          /\ UNCHANGED <<calls, solution>>
     ELSE /\ GiveUpOn(i)
          /\ solution' = << >> /\ UNCHANGED result
  /\ UNCHANGED <<chain, rollouts>>

Call(i) == CallFails(i) \/ \E s \in Solution : CallAnswers(i, s)
Verify(i) == \E verified \in BOOLEAN : Score(i, verified)

Next == \E i \in DOMAIN rollouts : Call(i) \/ Verify(i)

Spec == Init /\ [][Next]_vars

\* A call answers, fails or times out, and the scorer returns.
FairSpec == Spec /\ WF_vars(Next)

-----------------------------------------------------------------------------
(* Properties.                                                             *)

EntryType == [kind : {"entry"}, rollout : DOMAIN rollouts, prefix : Seq(Token),
              suffix : Seq(Token), failed : Seq(Token)]

\* Every variable has its type; a task is at one rollout at a time and its
\* calls stay within the schedule.
TypeOK ==
  /\ chain \in BOOLEAN
  /\ \A i \in DOMAIN rollouts : rollouts[i] \in Rollout
  /\ tried \subseteq DOMAIN rollouts
  /\ calls \in 0..(Calls - 1)
  /\ solution \in Seq(Token)
  /\ phase \in {"calling", "scoring", "done"}
  /\ phase # "done" => Left # {}
  /\ result \in {NoResult} \cup EntryType

Annotated == result # NoResult
Cut == rollouts[result.rollout]

\* The pieces of an annotation fit together again: prefix and failed suffix
\* are the failed response, prefix and teacher suffix are the solution that
\* the scorer verified, closed by exactly one end-of-sequence token.
PiecesFit ==
  Annotated =>
    /\ result.prefix \o result.failed = Cut.response
    /\ result.prefix \o result.suffix =
         IF solution[Len(solution)] = Eos THEN solution ELSE Append(solution, Eos)

\* The cut is at the first difference: the teacher's first trained token is
\* never the one the model took.
CutAtFirstError ==
  Annotated /\ result.failed # << >> => result.suffix[1] # result.failed[1]

\* So what is trained is the verified solution, and all of it from the first
\* wrong token on.
SplitIsExact == PiecesFit /\ CutAtFirstError

\* What is trained fits the model, and rollouts from the branch point have
\* room: the limits hold for the pieces as they are stored.
FitsModel ==
  Annotated =>
    /\ Cut.prompt + Len(result.prefix) + Len(result.suffix) <= MaxModelLen
    /\ Cut.prompt + Len(result.prefix) + MinBranch <= MaxModelLen

\* A chain is given up only after all of its rollouts, and a rollout is
\* annotated only after all longer ones.
LongestFirst ==
  phase = "done" =>
    \A i \in Left : Annotated /\ Len(rollouts[i].response) <= Len(Cut.response)

\* Every annotation task ends, so that its permit and its chain or event are
\* not held for ever.
TaskEnds == <>(phase = "done")
=============================================================================
