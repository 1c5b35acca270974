----------------------------- MODULE FlatPools -----------------------------
(***************************************************************************)
(* The flat pools of recipe/deep_grpo/pools as values and operators on     *)
(* them: FailedTrajectoryPool in both of its modes, TeacherAnnotatedPool,  *)
(* SyntheticPromptPool and BranchPointBuffer.  Each method holds its       *)
(* pool's lock throughout (the buffer has a single client and no lock), so *)
(* FlatTraining uses each operator in one action.                          *)
(*                                                                         *)
(* An entry is a record with at least its tree and its prompt.  Where a    *)
(* method draws at random, the operator gives the set of possible draws;   *)
(* prompts of equal freshness, which the code takes in the order of a      *)
(* dict, are drawn freely.                                                 *)
(***************************************************************************)
EXTENDS Integers, SequencesExt, FiniteSetsExt

AtMost(n, m) == IF n <= m THEN n ELSE m

\* The n-th smallest of a set of positions.
Nth(I, n) == CHOOSE i \in I : Cardinality({j \in I : j <= i}) = n

\* The elements of s at the positions I, in the order of s.
At(s, I) == [n \in 1..Cardinality(I) |-> s[Nth(I, n)]]

\* Mutant: they stay.
Kept(s, I) == s

\* What is left of s without them.
Except(s, I) == At(s, DOMAIN s \ I)

\* Mutant: the oldest n.
Oldest(n, s) == SubSeq(s, 1, AtMost(n, Len(s)))

\* The newest n of a list that grows at its end: s[-n:].
Newest(n, s) == SubSeq(s, Len(s) - AtMost(n, Len(s)) + 1, Len(s))

-----------------------------------------------------------------------------
(* Two parallel lists: the entries and the step each was added at.         *)

EmptyList == [entries |-> << >>, steps |-> << >>]

Added(list, new, now) ==
  [entries |-> list.entries \o new, steps |-> list.steps \o [n \in DOMAIN new |-> now]]

YoungEnough(list, now, maxAge) == {n \in DOMAIN list.steps : now - list.steps[n] <= maxAge}

\* Both lists at the same positions.
ListAt(list, I) == [entries |-> At(list.entries, I), steps |-> At(list.steps, I)]

CutTo(list, n) == [entries |-> Newest(n, list.entries), steps |-> Newest(n, list.steps)]

\* _add_legacy and BranchPointBuffer.add: append, evict by age, then by size.
AddToList(list, new, now, maxAge, maxSize) ==
  LET all == Added(list, new, now)
  IN CutTo(ListAt(all, YoungEnough(all, now, maxAge)), maxSize)

\* _sample_legacy: the drawn entries leave both lists.
RemoveFromList(list, I) == ListAt(list, DOMAIN list.entries \ I)

-----------------------------------------------------------------------------
(* Deques of <<step, entry>>, one per prompt.                              *)

Deque(deques, k) == IF k \in DOMAIN deques THEN deques[k] ELSE << >>

OfPrompt(s, k) == {n \in DOMAIN s : s[n].prompt = k}

Stamped(new, k, now) ==
  LET mine == At(new, OfPrompt(new, k)) IN [n \in DOMAIN mine |-> <<now, mine[n]>>]

\* _add_priority: no eviction.
AddToDeques(deques, new, now) ==
  [k \in DOMAIN deques \cup {new[n].prompt : n \in DOMAIN new} |->
     Deque(deques, k) \o Stamped(new, k, now)]

\* The prompts whose newest entry is newest of all: one of them comes first
\* in the lap of _sample_priority.
Freshest(deques) ==
  {k \in DOMAIN deques : \A j \in DOMAIN deques : Last(deques[j])[1] <= Last(deques[k])[1]}

WithoutEmpty(deques) == [k \in {j \in DOMAIN deques : deques[j] # << >>} |-> deques[k]]

\* dq.pop(): the newest of the prompt, and the others.
Popped(dq) == <<Last(dq), Front(dq)>>

\* The entry that one call for one entry gets from prompt k.
TakenFrom(deques, k) == Popped(deques[k])[1][2]

\* What it leaves: a deque that is empty then is deleted.
LeftBy(deques, k) == WithoutEmpty([deques EXCEPT ![k] = Popped(@)[2]])

\* state_dict writes one list, load_state_dict groups it again.
Flattened(deques) ==
  LET keys == SetToSeq(DOMAIN deques) IN FlattenSeq([n \in DOMAIN keys |-> deques[keys[n]]])
Grouped(flat) ==
  [k \in {flat[n][2].prompt : n \in DOMAIN flat} |->
     At(flat, {n \in DOMAIN flat : flat[n][2].prompt = k})]

-----------------------------------------------------------------------------
(* Drawing from the annotated pool and from the branch point buffer.       *)

Trees(s) == {s[n].tree : n \in DOMAIN s}
OfTree(s, t) == {n \in DOMAIN s : s[n].tree = t}

\* The shuffled tree ids.
Orders(s) == SetToSeqs(Trees(s))

\* A tree has entries left when taken[t] of them are taken.
HasMore(s, taken, t) == taken[t] < Cardinality(OfTree(s, t))

\* tree_ids[idx % len(tree_ids)]
TreeOf(order, turn) == order[((turn - 1) % Len(order)) + 1]

\* How many entries each tree gives until the loop has gathered n of s: laps
\* over the trees, which leave out those that are empty by then.
Shares(s, order, n) ==
  LET turns == Len(order) * Len(s)
      taken[turn \in 0..turns] ==
        IF turn = 0 THEN [t \in Trees(s) |-> 0]
        ELSE LET before == taken[turn - 1]
                 t == TreeOf(order, turn)
             IN IF SumFunction(before) < n /\ HasMore(s, before, t)
                THEN [before EXCEPT ![t] = @ + 1] ELSE before
  IN taken[turns]

\* The positions that sample may return for n entries: range-sampled, or
\* stratified by tree with a random entry of each.
UniformDraws(s, n) == kSubset(AtMost(n, Len(s)), DOMAIN s)
StratifiedDraws(s, n) ==
  UNION {{I \in UniformDraws(s, n) :
            \A t \in Trees(s) : Cardinality(I \cap OfTree(s, t)) = Shares(s, order, AtMost(n, Len(s)))[t]}
         : order \in Orders(s)}

BatchDraws(s, n, strategy) ==
  IF strategy = "uniform" THEN UniformDraws(s, n) ELSE StratifiedDraws(s, n)

-----------------------------------------------------------------------------
(* Synthetic prompts.  Weights are in units of 1/10000.                    *)

Variance(succ, total) == (40000 * succ * (total - succ)) \div (total * total)

\* _entry_weight.  What was never tried goes by its prior, and never by 0.
EntryWeight(e, floorHard, floorMastered) ==
  CASE e.total = 0 -> LET v == Variance(e.prior[1], e.prior[2]) IN IF v = 0 THEN 1 ELSE v
    [] e.total # 0 /\ e.succ = 0 -> floorHard
    [] e.total # 0 /\ e.succ = e.total -> floorMastered
    [] OTHER -> Variance(e.succ, e.total)

\* Mutant: sorted without reverse, the lightest.
PickedLightest(s, weight, cap, k) ==
  {C \in kSubset(AtMost(cap, Cardinality(OfPrompt(s, k))), OfPrompt(s, k)) :
     \A i \in C, j \in OfPrompt(s, k) \ C : weight[i] <= weight[j]}

\* Of each prompt the cap heaviest, ties broken at random.
Picked(s, weight, cap, k) ==
  {C \in kSubset(AtMost(cap, Cardinality(OfPrompt(s, k))), OfPrompt(s, k)) :
     \A i \in C, j \in OfPrompt(s, k) \ C : weight[i] >= weight[j]}

\* What remains of all prompts.
Candidates(s, weight, cap) ==
  {C \in SUBSET DOMAIN s :
     \A n \in DOMAIN s : C \cap OfPrompt(s, s[n].prompt) \in Picked(s, weight, cap, s[n].prompt)}

\* _weighted_sample_without_replacement: anything may be drawn that weighs
\* something, the rest only if that is not enough.
SyntheticDraws(s, weight, cap, n) ==
  UNION {{I \in kSubset(AtMost(n, Cardinality(C)), C) :
            \A i \in I, j \in C \ I : weight[i] = 0 => weight[j] = 0}
         : C \in Candidates(s, weight, cap)}
=============================================================================
