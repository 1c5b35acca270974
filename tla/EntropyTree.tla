---------------------------- MODULE EntropyTree ----------------------------
(***************************************************************************)
(* One tree of the TreeRL agent loop, from its first response to the       *)
(* training samples:                                                       *)
(*   - _build_single_tree generates a response and, in L rounds, forks the *)
(*     N most uncertain places of the tree's leaves;                       *)
(*   - _fork_node_at_multiple_positions captures the prefixes of one leaf, *)
(*     awaits T branches of each and then rebuilds the tree around them,   *)
(*     while the forks of other leaves do the same;                        *)
(*   - _score_leaf, _compute_values, _assign_process_rewards and           *)
(*     _package_training_data read the finished tree, some upwards along   *)
(*     the parent pointers and some downwards along the children.          *)
(*                                                                         *)
(* The server's answers are free: their number of tokens, and with the     *)
(* log-probabilities the places that are forked.  A token is the response  *)
(* it was generated in and its place there; the prompt's tokens are only   *)
(* counted.  A value is the set of leaves it averages.  The M trees of a   *)
(* prompt share only the average over all of them, which is left out.      *)
(***************************************************************************)
EXTENDS Integers, FiniteSets, SequencesExt, FiniteSetsExt, Functions

CONSTANTS
  Settings,    \* choices of [prompt, n, l, t]: the prompt's length and treerl.N, L and T
  Lengths,     \* bound: lengths of responses that end before the limit
  MaxModelLen, \* rollout.max_model_len
  MinPrefix,   \* 1 / min_prefix_ratio
  MinSuffix,   \* min_suffix_tokens
  Margin       \* room below max_model_len that a fork needs

ASSUME TreeAssumption ==
  /\ \A s \in Settings : s.prompt \in Nat /\ {s.n, s.l, s.t} \subseteq Nat \ {0}
  /\ Lengths \subseteq Nat /\ {MaxModelLen, MinSuffix, Margin} \subseteq Nat
  /\ MinPrefix \in Nat \ {0}

VARIABLES
  setting,   \* the setting of this tree
  nodes,     \* the TreeRLTreeNode objects in their order; Root is tree_root
  responses, \* history: what was generated, and after which tokens
  round,     \* rounds of forks begun
  chosen,    \* leaves selected in this round: their positions, ascending
  launched,  \* leaves whose branches are awaited: the captured prefixes
  scored,    \* the text each leaf was scored with
  values,    \* the leaves that are averaged in V of each node
  samples,   \* the packaged training samples
  pc         \* chain, select, fork, score, package, done

vars == <<setting, nodes, responses, round, chosen, launched, scored, values, samples, pc>>

Root == 1
None == 0

-----------------------------------------------------------------------------
(* Reading the tree.                                                       *)

\* node.is_leaf and no children.
IsLeaf(n) == nodes[n].leaf /\ nodes[n].children = {}

\* Downwards: the nodes on each path to a leaf (_enumerate_leaf_paths), and
\* the leaves (_collect_leaves).
PathsFrom[n \in DOMAIN nodes] ==
  IF IsLeaf(n) THEN {<<n>>}
  ELSE UNION {{<<n>> \o p : p \in PathsFrom[c]} : c \in nodes[n].children}

LeavesUnder(n) == {Last(p) : p \in PathsFrom[n]}

\* Upwards: the tokens from the top to the end of a node along the parent
\* pointers, and those before the node.
TextTo[n \in DOMAIN nodes] ==
  (IF nodes[n].parent = None THEN << >> ELSE TextTo[nodes[n].parent]) \o nodes[n].segment

TextBefore(n) == IF nodes[n].parent = None THEN << >> ELSE TextTo[nodes[n].parent]

\* The tokens of a sequence of nodes.
TextOf(path) == FlattenSeq([i \in DOMAIN path |-> nodes[path[i]].segment])

-----------------------------------------------------------------------------
(* Generating.                                                             *)

\* Lengths a response may have after a prompt of p tokens: the server cuts it
\* at the model's length.
ResponseLengths(p) ==
  IF p >= MaxModelLen THEN {0}
  ELSE {n \in Lengths : p + n < MaxModelLen} \cup {MaxModelLen - p}

FinishReason(p, n) == IF p + n >= MaxModelLen THEN "exceed" ELSE "completed"

\* The i-th response of the tree, of n tokens after the context.
Response(i, n, context) ==
  [context |-> context, tokens |-> [j \in 1..n |-> <<i, j>>],
   finish |-> FinishReason(setting.prompt + Len(context), n)]

Node(segment, parent, children, finish) ==
  [segment |-> segment, parent |-> parent, children |-> children,
   leaf |-> children = {}, finish |-> finish]

Init ==
  /\ setting \in Settings
  /\ nodes = << >> /\ responses = << >> /\ round = 0
  /\ chosen = << >> /\ launched = << >> /\ scored = << >> /\ values = << >> /\ samples = {}
  /\ pc = "chain"

\* The initial chain; an empty one makes no tree.
Chain ==
  /\ pc = "chain"
  /\ \E n \in ResponseLengths(setting.prompt) :
       LET r == Response(1, n, << >>)
       IN IF n = 0 THEN pc' = "done" /\ UNCHANGED <<nodes, responses>>
          ELSE /\ pc' = "select"
               /\ responses' = <<r>>
               /\ nodes' = <<Node(r.tokens, None, {}, r.finish)>>
  /\ UNCHANGED <<setting, round, chosen, launched, scored, values, samples>>

-----------------------------------------------------------------------------
(* Forking.                                                                *)

\* Mutant: a leaf's first token may be taken, too.
FirstOfAll(n) == 0

\* The first token of a leaf that may be forked at; the share that has to
\* precede it counts for an unforked tree only.
MinPos(n) ==
  LET share == IF n = Root THEN Len(nodes[n].segment) \div MinPrefix ELSE 0
  IN IF share > 1 THEN share ELSE 1

\* Places (leaf, number of tokens before) that may be forked.
Candidates ==
  UNION {{<<n, i>> : i \in MinPos(n)..(Len(nodes[n].segment) - MinSuffix)} : n \in LeavesUnder(Root)}

Smaller(a, b) == IF a <= b THEN a ELSE b

\* The members of a set of positions in ascending order.
Ascending(S) == [i \in 1..Cardinality(S) |-> CHOOSE p \in S : Cardinality({q \in S : q <= p}) = i]

\* The rounds; the N places of the highest entropy, whichever they are.
Select ==
  /\ pc = "select"
  /\ IF round = setting.l \/ Candidates = {}
     THEN pc' = "score" /\ UNCHANGED <<round, chosen>>
     ELSE \E S \in kSubset(Smaller(setting.n, Cardinality(Candidates)), Candidates) :
            /\ chosen' = [n \in {c[1] : c \in S} |->
                           Ascending({c[2] : c \in {d \in S : d[1] = n}})]
            /\ round' = round + 1
            /\ pc' = "fork"
  /\ UNCHANGED <<setting, nodes, responses, launched, scored, values, samples>>

\* Mutant: the branch keeps the uncertain token.
PrefixWithToken(n, pos) ==
  TextBefore(n) \o SubSeq(nodes[n].segment, 1, pos + 1)

\* fork_prompt_ids after the prompt: the ancestors' tokens and the leaf's
\* tokens before the position.
ForkPrefix(n, pos) ==
  TextBefore(n) \o SubSeq(nodes[n].segment, 1, pos)

\* Too little room: the position is split but gets no branches.
IsSkipped(prefix) == setting.prompt + Len(prefix) >= MaxModelLen - Margin

\* Phase A of a selected leaf, up to the await.
Launch(n) ==
  /\ pc = "fork" /\ n \in DOMAIN chosen /\ n \notin DOMAIN launched
  /\ launched' = [m \in DOMAIN launched \cup {n} |->
                   IF m = n THEN [i \in DOMAIN chosen[n] |-> ForkPrefix(n, chosen[n][i])] ELSE launched[m]]
  /\ UNCHANGED <<setting, nodes, responses, round, chosen, scored, values, samples, pc>>

\* The positions that get branches, and the one the b-th branch belongs to.
Forked(n) == Ascending({i \in DOMAIN launched[n] : ~IsSkipped(launched[n][i])})
ForkOf(n, b) == Forked(n)[((b - 1) \div setting.t) + 1]

\* Every way the server may answer the requests of a leaf.
Answers(n) ==
  {f \in [1..(Len(Forked(n)) * setting.t) -> 0..MaxModelLen] :
     \A b \in DOMAIN f : f[b] \in ResponseLengths(setting.prompt + Len(launched[n][ForkOf(n, b)]))}

NewResponses(n, f) ==
  [b \in DOMAIN f |-> Response(Len(responses) + b, f[b], launched[n][ForkOf(n, b)])]

\* The pieces of leaf n between the positions, each the parent of the next
\* one and of the branches between the two; the last one inherits the rest.
Pieces(n, new) ==
  LET cuts == <<0>> \o chosen[n] \o <<Len(nodes[n].segment)>>
      last == Len(cuts) - 1
      id == Len(nodes)
      at(i) == {id + last + b : b \in {c \in DOMAIN new : ForkOf(n, c) = i}}
      piece(i) == Node(SubSeq(nodes[n].segment, cuts[i] + 1, cuts[i + 1]),
                       IF i = 1 THEN None ELSE id + i - 1,
                       IF i = last THEN nodes[n].children ELSE {id + i + 1} \cup at(i),
                       IF i = last THEN nodes[n].finish ELSE "none")
      branch(b) == Node(new[b].tokens, id + ForkOf(n, b), {}, new[b].finish)
  IN [c \in 1..(last + Len(new)) |-> IF c <= last THEN piece(c) ELSE branch(c - last)]

\* parent.children with the new node in the place of the old one.
Swapped(children, old, new) == (children \ {old}) \cup {new}

\* Mutant: the children of the new top still point to the node it replaces.
ReplaceByCopy(ns, old, new) ==
  IF old = Root THEN [ns EXCEPT ![Root] = [ns[new] EXCEPT !.parent = None]]
  ELSE [ns EXCEPT ![new].parent = ns[old].parent,
                  ![ns[old].parent].children = Swapped(@, old, new)]

\* _replace_node_in_tree: the top stays the same object and takes over the
\* new node's data and children.
Replace(ns, old, new) ==
  IF old = Root
  THEN LET top == [ns EXCEPT ![Root] = [ns[new] EXCEPT !.parent = None]]
       IN [c \in DOMAIN top |-> IF c \in ns[new].children
                                THEN [top[c] EXCEPT !.parent = Root] ELSE top[c]]
  ELSE [ns EXCEPT ![new].parent = ns[old].parent,
                  ![ns[old].parent].children = Swapped(@, old, new)]

\* Phase B, when all branches of the leaf are there.
Grow(n) ==
  /\ pc = "fork" /\ n \in DOMAIN launched
  /\ \E f \in Answers(n) :
       LET new == NewResponses(n, f)
       IN /\ responses' = responses \o new
          /\ nodes' = Replace(nodes \o Pieces(n, new), n, Len(nodes) + 1)
  /\ launched' = Restrict(launched, DOMAIN launched \ {n})
  /\ chosen' = Restrict(chosen, DOMAIN chosen \ {n})
  /\ pc' = IF DOMAIN chosen = {n} THEN "select" ELSE "fork"
  /\ UNCHANGED <<setting, round, scored, values, samples>>

-----------------------------------------------------------------------------
(* Reading it off.                                                         *)

\* _score_leaf of every leaf, then _compute_values from the top.
Score ==
  /\ pc = "score"
  /\ scored' = [n \in LeavesUnder(Root) |-> TextTo[n]]
  /\ values' = [n \in UNION {Range(p) : p \in PathsFrom[Root]} |-> LeavesUnder(n)]
  /\ pc' = "package"
  /\ UNCHANGED <<setting, nodes, responses, round, chosen, launched, samples>>

\* V of a node: nothing was counted for an object outside the tree.
Value(n) == IF n \in DOMAIN values THEN values[n] ELSE {}

\* The two values a node's process reward compares, besides the average of
\* all trees: its own and its parent's.
ProcessReward(n) == [own |-> Value(n), base |-> Value(nodes[n].parent)]

\* The sample of a path: text and rewards token by token, cut at the limit.
Sample(path) ==
  LET rewards == FlattenSeq([i \in DOMAIN path |->
                   [j \in DOMAIN nodes[path[i]].segment |-> ProcessReward(path[i])]])
      limit == Smaller(Len(rewards), MaxModelLen - setting.prompt)
  IN [path |-> path, text |-> SubSeq(TextOf(path), 1, limit),
      rewards |-> SubSeq(rewards, 1, limit)]

\* _assign_process_rewards and _package_training_data.
Package ==
  /\ pc = "package"
  /\ samples' = {Sample(p) : p \in {q \in PathsFrom[Root] : TextOf(q) # << >>}}
  /\ pc' = "done"
  /\ UNCHANGED <<setting, nodes, responses, round, chosen, launched, scored, values>>

\* The tree is finished.
Done == pc = "done" /\ UNCHANGED vars

Next ==
  \/ Chain \/ Select \/ Score \/ Package \/ Done
  \/ \E n \in DOMAIN chosen : Launch(n) \/ Grow(n)

Spec == Init /\ [][Next]_vars

-----------------------------------------------------------------------------
(* Properties.                                                             *)

HasTree == nodes # << >>

Token == Nat \X Nat
FinishReasons == {"none", "exceed", "completed"}
NodeType ==
  [segment : Seq(Token), parent : Nat, children : SUBSET Nat, leaf : BOOLEAN, finish : FinishReasons]
ResponseType == [context : Seq(Token), tokens : Seq(Token), finish : FinishReasons]

\* The variables keep their types, and nothing is selected, awaited or scored
\* but in its place.
TypeOK ==
  /\ setting \in Settings /\ round \in 0..setting.l
  /\ nodes \in Seq(NodeType) /\ responses \in Seq(ResponseType)
  /\ pc \in {"chain", "select", "fork", "score", "package", "done"}
  /\ pc = "chain" => ~HasTree
  /\ pc \notin {"chain", "done"} => HasTree
  /\ DOMAIN chosen \subseteq DOMAIN nodes /\ DOMAIN launched \subseteq DOMAIN chosen
  /\ pc = "fork" <=> DOMAIN chosen # {}
  /\ \A n \in DOMAIN chosen : chosen[n] \in Seq(Nat \ {0})
  /\ \A n \in DOMAIN launched : launched[n] \in [DOMAIN chosen[n] -> Seq(Token)]
  /\ DOMAIN scored \subseteq DOMAIN nodes /\ \A n \in DOMAIN scored : scored[n] \in Seq(Token)
  /\ DOMAIN values \subseteq DOMAIN nodes /\ \A n \in DOMAIN values : values[n] \subseteq DOMAIN scored
  /\ pc \notin {"package", "done"} => scored = << >> /\ values = << >>
  /\ pc # "done" => samples = {}

\* However forks of several leaves and rounds overlap, the leaves of the tree
\* are what the model generated, each once: the tokens on the way to a leaf
\* are the prompt of its request with the answer to it, and it is complete or
\* cut off as that answer was (_fork_node_at_multiple_positions).
LeavesAreSamples ==
  HasTree =>
    LET paths == PathsFrom[Root]
    IN /\ Cardinality(paths) = Len(responses)
       /\ {<<TextOf(p), nodes[Last(p)].finish>> : p \in paths}
            = {<<r.context \o r.tokens, r.finish>> : r \in Range(responses)}

\* No beginning of a response is branched off twice, not by a later round
\* either, and a branch leaves something to differ from.
BranchedOnce ==
  \A i \in DOMAIN responses :
    LET context == responses[i].context
    IN /\ Cardinality({j \in DOMAIN responses : responses[j].context = context})
            <= IF context = << >> THEN 1 ELSE setting.t
       /\ context # << >> =>
            \E j \in 1..(i - 1) :
              LET text == responses[j].context \o responses[j].tokens
              IN IsPrefix(context, text) /\ Len(text) >= Len(context) + MinSuffix

\* Places are forked once (_collect_entropy_candidates), and there are no
\* more leaves than init_class announces.
ForksAreDistinct == BranchedOnce /\ Len(responses) <= 1 + (setting.n * setting.l * setting.t)

\* The leaves whose text holds a token.
Holders(token) == {n \in DOMAIN scored : token \in Range(scored[n])}

\* A token's own value averages all samples that share it, its base those
\* that share an earlier token up to which nothing else was averaged: the
\* whole tree for the first ones.
RewardedForItsLeaves(s) ==
  \A k \in DOMAIN s.text :
    /\ s.rewards[k].own = Holders(s.text[k])
    /\ \/ s.rewards[k].base = {} /\ s.rewards[k].own = DOMAIN scored
       \/ \E j \in 1..(k - 1) :
            /\ s.rewards[k].base = s.rewards[j].own
            /\ \A i \in (j + 1)..k : s.rewards[i].own = s.rewards[k].own

\* What is trained is what was scored: each leaf once, with the whole text
\* its reward was given for, and each token for the leaves that share it.
\* Scores follow the parent pointers, samples the children.
TrainedIsScored ==
  pc = "done" =>
    /\ Cardinality(samples) = Cardinality(DOMAIN scored)
    /\ {<<Last(s.path), s.text>> : s \in samples} = {<<n, scored[n]>> : n \in DOMAIN scored}
    /\ \A s \in samples : RewardedForItsLeaves(s)
=============================================================================
