---------------------------- MODULE BranchPoints ----------------------------
(***************************************************************************)
(* From a failed response to the branch points that are kept of it:        *)
(* partition_strategy.py cuts the response into segments,                  *)
(* _partition_response_to_chain makes a chain of nodes of them, behind the *)
(* root that holds the prompt alone, and branching_strategy.py selects     *)
(* among the nodes that can be expanded.  Which of those it selects, by a  *)
(* fitted model or uniformly, is left open.                                *)
(*                                                                         *)
(* A partition is the set of the ends of its segments; a segment begins    *)
(* where the one before it ends.                                           *)
(***************************************************************************)
EXTENDS Integers, Sequences, FiniteSetsExt

CONSTANTS
  Stop,          \* tokens that end a sentence
  TokensPerNode, \* tokens_per_node
  NSegments,     \* n_segments
  PromptLen,     \* length of a prompt
  MaxModelLen    \* rollout.max_model_len

ASSUME PartitionAssumption ==
  /\ TokensPerNode \in Nat \ {0} /\ NSegments \in Nat \ {0}
  /\ PromptLen \in Nat /\ MaxModelLen \in Nat

SentenceEnds(r) == {i \in DOMAIN r : r[i] \in Stop} \cup {Len(r)}

TokenCountEnds(r) == {i \in DOMAIN r : i % TokensPerNode = 0} \cup {Len(r)}

Lesser(a, b) == IF a <= b THEN a ELSE b

\* The first n % k segments are longer by one.
FixedCountEnds(r) ==
  LET k == Lesser(NSegments, Len(r))
  IN {i * (Len(r) \div k) + Lesser(i, Len(r) % k) : i \in 1..k}

\* partition: an empty response is a single, empty segment.
Ends(segments, r) ==
  CASE r = << >> -> {0}
    [] r # << >> /\ segments = "sp" -> SentenceEnds(r)
    [] r # << >> /\ segments = "tp" -> TokenCountEnds(r)
    [] r # << >> /\ segments = "fp" -> FixedCountEnds(r)

\* The nodes behind the root, by the end of their segment: the node at end e
\* is the index-th of the chain, counted from the root's 0.
ChainLength(ends) == 1 + Cardinality(ends)
Index(ends, e) == Cardinality({d \in ends : d <= e})

\* Mutant: the finish reason of the last node is not asked for.
ExpandableByLength(ends, r, e) == PromptLen + e < MaxModelLen

\* _is_expandable of a node behind the root: all but the last stopped.
IsExpandable(ends, r, e) == e # Len(r) /\ PromptLen + e < MaxModelLen

\* What may be selected: <<index, end>>, with the root, which always may.
Selectable(ends, r) ==
  {<<0, 0>>} \cup {<<Index(ends, e), e>> : e \in {d \in ends : IsExpandable(ends, r, d)}}

\* select_node: n of them, if there are so many.
Selections(segments, r, n) ==
  LET nodes == Selectable(Ends(segments, r), r) IN kSubset(Lesser(n, Cardinality(nodes)), nodes)

\* A selected node as BranchPointEntry; its context is the prompt and the
\* response up to its end.
BranchPoint(segments, r, node) ==
  [index |-> node[1], chain |-> ChainLength(Ends(segments, r)),
   length |-> PromptLen + node[2], rest |-> Len(r) - node[2]]
=============================================================================
