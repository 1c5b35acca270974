----------------------------- MODULE ForestLru -----------------------------
(***************************************************************************)
(* Who waits how long in the prefix forest.  prefix_forest_pool.py calls   *)
(* its three samplers tree-balanced LRU samplers (lines 9-10).  This       *)
(* module adds to PrefixForestPool the history an LRU promise is about:    *)
(* which trees and nodes were passed over in favour of which others while  *)
(* they were waiting.                                                      *)
(***************************************************************************)
EXTENDS MCPrefixForestPool

CONSTANT Watched \* the samplers whose history is kept

ASSUME LruAssumption == Watched \subseteq {"tree", "node", "teacher", "sft"}

\* sampler |-> pairs <<j, k>>: k was served while j waited for the same
VARIABLE passed

lruVars == <<vars, passed>>

LruInit == Init /\ passed = [w \in Watched |-> {}]

SampledTrees == {r[1] : r \in lent' \ lent}
SampledNodes == {r[2] : r \in lent' \ lent}
DispatchedTrees == {events[e].tree : e \in owed' \ owed}
SftTrees == {r[1] : r \in sftLent' \ sftLent}

AllCandidates == UNION {RolloutCandidates(k) : k \in DOMAIN trees}
TeacherTrees == {k \in DOMAIN trees : Dispatchable(k) # {}}

\* Waiting ones that this step passes over, with those it serves.  A freeze
\* takes all nodes of the epoch and, unlike a sampling, stamps no tree.
PassedTrees == UNION {(Eligible \ SampledTrees) \X {k} : k \in SampledTrees}
PassedNodes == UNION {(RolloutCandidates(nodes[n].tree) \ SampledNodes) \X {n} : n \in SampledNodes}
PassedDispatches == UNION {(TeacherTrees \ DispatchedTrees) \X {k} : k \in DispatchedTrees}
PassedSft == UNION {(SftReadyTrees \ SftTrees) \X {k} : k \in {j \in SftTrees : trees # trees'}}

Passed(w) ==
  CASE w = "tree" -> PassedTrees [] w = "node" -> PassedNodes
    [] w = "teacher" -> PassedDispatches [] w = "sft" -> PassedSft
Served(w) ==
  CASE w = "tree" -> SampledTrees [] w = "node" -> SampledNodes
    [] w = "teacher" -> DispatchedTrees [] w = "sft" -> SftTrees
Waiting(w) ==
  CASE w = "tree" -> ReadyTrees [] w = "node" -> AllCandidates
    [] w = "teacher" -> TeacherTrees [] w = "sft" -> SftReadyTrees

\* Those that were served in their place and are still there.
Others(w) == IF w = "node" THEN DOMAIN nodes ELSE DOMAIN trees

\* A history lasts until the one passed over is served or stops waiting, or
\* the other one is removed: a prompt that comes back has a new tree.
LruNext ==
  /\ Next
  /\ passed' = [w \in Watched |->
                  {p \in passed[w] \cup Passed(w) :
                     p[1] \in Waiting(w)' \ Served(w) /\ p[2] \in Others(w)'}]

LruSpec == LruInit /\ [][LruNext]_lruVars

-----------------------------------------------------------------------------
\* Nobody is passed over twice for the same other one while it waits, whatever
\* trees and nodes come and go: rollouts and suffix-SFT replay are balanced
\* over the trees (sample, sample_suffix_sft), and inside a tree rollouts are
\* balanced over its states (_rollout_candidate_ids_locked).
WaitingIsServed ==
  [][/\ PassedTrees \cap passed.tree = {}
     /\ PassedNodes \cap passed.node = {}
     /\ PassedSft \cap passed.sft = {}]_lruVars

\* Teacher dispatch is tree-balanced in the same sense: what the module's
\* docstring says of pending_teacher_requests.
DispatchLru == [][PassedDispatches \cap passed.teacher = {}]_lruVars
=============================================================================
