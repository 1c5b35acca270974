-------------------------- MODULE PrefixForestPool --------------------------
(***************************************************************************)
(* The prefix forest of recipe/deep_grpo/pools/prefix_forest_pool.py: the  *)
(* replay buffer of concrete prompt states that prefix injection trains    *)
(* on.  There is one tree per original prompt; its root is the prompt, and *)
(* every other node is the prompt followed by a verified prefix that the   *)
(* teacher proposed.  Failed rollouts of a node enqueue teacher events; an *)
(* answered event may add one child; an all-success rollout group retires  *)
(* the node it was observed on.                                            *)
(*                                                                         *)
(* Every public method holds the pool's one re-entrant lock from its first *)
(* read to its last write, so each is a single action here.  The trainer's *)
(* thread calls sample, the observations, the suffix-SFT methods and the   *)
(* clean-up; the teacher worker's thread calls pending_teacher_requests    *)
(* and on_teacher_response.  Next is the most general client of the pool:  *)
(* every method, in any order the callers' own data allows (an event is    *)
(* answered at most once and only if it was dispatched, a node is observed *)
(* only if it was sampled).                                                *)
(*                                                                         *)
(* Abstractions.  A prompt is a number that stands for its rank in the     *)
(* order of token tuples (tree keys are compared as tuples).  Node ids and *)
(* event ids are uuid4 values: fresh ones are counters here, and wherever  *)
(* the code breaks a tie by comparing two ids the model chooses freely.    *)
(* The deques of event ids are sets, because no method depends on their    *)
(* order.  Rollout data, rewards, masks and dashboard statistics are left  *)
(* out; so are the fields and counters no method reads back (the legacy    *)
(* aliases, observations, last_k_succ, last_success_step, last_fail_step,  *)
(* the counts of deactivated and of suffix-SFT-sampled nodes).             *)
(***************************************************************************)
EXTENDS Integers, Sequences, FiniteSets, Functions

CONSTANTS
  Prompt,        \* the prompts of the dataset, as ranks of their tree keys
  Token,         \* the tokens of completions
  MaxPrefixLen,  \* max_model_len - min_remaining_tokens - prompt length
  RolloutN,      \* rollouts per prompt or injected node (k_total)
  InjectSlots,   \* int(injection_ratio * batch size)
  DispatchSlots, \* max_items of pending_teacher_requests
  SftSlots,      \* n of sample_suffix_sft; 0 when suffix SFT is off
  MaxStep,       \* bound: training steps
  MaxNodes,      \* bound: nodes ever created
  MaxSftUpdates, \* bound: suffix-SFT updates recorded on one node
  MaxEvents      \* bound: events ever enqueued

ASSUME PoolAssumption ==
  /\ Prompt \subseteq Nat /\ IsFiniteSet(Prompt)
  /\ MaxPrefixLen \in Nat /\ RolloutN \in Nat \ {0}
  /\ InjectSlots \in Nat /\ DispatchSlots \in Nat /\ SftSlots \in Nat
  /\ MaxStep \in Nat /\ MaxNodes \in Nat /\ MaxSftUpdates \in Nat /\ MaxEvents \in Nat

VARIABLES
  trees,      \* _trees: prompt |-> the PrefixTree without its nodes
  nodes,      \* node id |-> ForestNode, of all the trees
  nodeCount,  \* node ids given out
  events,     \* _events: event id |-> FailedPrefixEvent
  queue,      \* _failed_by_tree: prompt |-> ids of its events
  count,      \* the pool's counters
  step,       \* the trainer's global_steps
  owed,       \* dispatched events whose answer the worker still owes
  lent,       \* <<prompt, node>> sampled for this step's rollouts, unobserved
  sftLent     \* <<prompt, node>> in the suffix-SFT batch or snapshot in use

vars == <<trees, nodes, nodeCount, events, queue, count, step, owed, lent, sftLent>>

poolVars == <<trees, nodes, nodeCount, events, queue, count>>

-----------------------------------------------------------------------------
(* Values.  A prefix is the locked part of a node's augmented_prompt_ids.  *)

Never == -1      \* the stamp of something that was never used
NoParent == 0    \* parent_id of a root

\* An answer of the teacher: the child's locked prefix and whether a teacher
\* suffix came with it; NoAnswer is success=False or no annotated entry.
NoAnswer == [kind |-> "none"]
Answer(p, s) == [kind |-> "entry", prefix |-> p, suffix |-> s]

\* _is_strict_prefix: the child ids start with the parent's and are longer.
StrictlyExtends(child, parent) ==
  /\ Len(parent) < Len(child)
  /\ SubSeq(child, 1, Len(parent)) = parent

\* _valid_child: and they leave room for min_remaining_tokens more.
ValidChild(parent, child) ==
  StrictlyExtends(child, parent) /\ Len(child) <= MaxPrefixLen

Put(f, k, v) == [x \in DOMAIN f \cup {k} |-> IF x = k THEN v ELSE f[x]]
Without(f, S) == Restrict(f, DOMAIN f \ S)
AtMost(n, S) == IF n <= Cardinality(S) THEN n ELSE Cardinality(S)

Counters == {"enqueued", "dispatched", "success", "failed", "staleParent",
             "stale", "duplicate", "invalid", "cleared"}

Add(c, n) == [count EXCEPT ![c] = @ + n]
Bump(cs) == [c \in Counters |-> IF c \in cs THEN count[c] + 1 ELSE count[c]]

-----------------------------------------------------------------------------
(* What the samplers look at.                                              *)

NodesOf(k) == {n \in DOMAIN nodes : nodes[n].tree = k}

\* _rollout_candidate_ids_locked: the active non-root nodes of a tree.
RolloutCandidates(k) == {n \in NodesOf(k) : nodes[n].active /\ nodes[n].parent # NoParent}

\* _is_sft_candidate_locked: those of them that carry a teacher suffix.
SftCandidates(k) == {n \in RolloutCandidates(k) : nodes[n].suffix}

ReadyTrees == {k \in DOMAIN trees : RolloutCandidates(k) # {}}
SftReadyTrees == {k \in DOMAIN trees : SftCandidates(k) # {}}

\* Python's order of tuples: the first difference decides.
TupleLess(a, b) == \E i \in DOMAIN a : a[i] < b[i] /\ \A j \in 1..(i - 1) : a[j] = b[j]

\* Mutant: a sampler forgets when a tree was last used.
KeyByAge == [k \in DOMAIN trees |-> <<trees[k].created, trees[k].created, k>>]

\* _lru_key of a tree for one of its three stamps.
RolloutKey == [k \in DOMAIN trees |-> <<trees[k].lastRollout, trees[k].created, k>>]
TeacherKey == [k \in DOMAIN trees |-> <<trees[k].lastTeacher, trees[k].created, k>>]
SftKey == [k \in DOMAIN trees |-> <<trees[k].lastSft, trees[k].created, k>>]

\* chosen is the first n elements of S when S is sorted by key.
IsFirst(n, S, key, chosen) ==
  /\ chosen \subseteq S /\ Cardinality(chosen) = AtMost(n, S)
  /\ \A k \in chosen, j \in S \ chosen : TupleLess(key[k], key[j])

\* The same keys of nodes, without the uuid that breaks their ties.
NodeRolloutKey == [n \in DOMAIN nodes |-> <<nodes[n].lastRollout, nodes[n].created>>]
NodeTeacherKey == [n \in DOMAIN nodes |-> <<nodes[n].lastTeacher, nodes[n].created>>]
NodeSftKey == [n \in DOMAIN nodes |-> <<nodes[n].lastSft, nodes[n].created>>]

LeastUsed(S, key) == {n \in S : \A m \in S : ~TupleLess(key[m], key[n])}

\* The events a tree could dispatch: not in flight, parent still active.
Dispatchable(k) ==
  {e \in queue[k] : /\ e \in DOMAIN events
                    /\ events[e].tree = k /\ ~events[e].inFlight
                    /\ events[e].parent \in NodesOf(k) /\ nodes[events[e].parent].active}

\* _select_teacher_event_for_tree_locked: the latest dispatchable event of
\* the parent that has gone longest without a dispatch.
SelectedEvents(k) ==
  {e \in Dispatchable(k) :
     /\ events[e].parent \in LeastUsed({events[d].parent : d \in Dispatchable(k)}, NodeTeacherKey)
     /\ \A d \in Dispatchable(k) : events[d].parent = events[e].parent =>
                                   events[d].created <= events[e].created}

-----------------------------------------------------------------------------
Init ==
  /\ trees = << >> /\ nodes = << >> /\ nodeCount = 0
  /\ events = << >> /\ queue = [k \in Prompt |-> {}]
  /\ count = [c \in Counters |-> 0]
  /\ step = 0 /\ owed = {} /\ lent = {} /\ sftLent = {}

\* Mutant: the tree is stamped with the step that comes next.
NewTreeAhead(root) == [root |-> root, created |-> step + 1, lastRollout |-> Never,
                       lastTeacher |-> Never, lastSft |-> Never]

NewTree(root) == [root |-> root, created |-> step, lastRollout |-> Never,
                  lastTeacher |-> Never, lastSft |-> Never]

NewNode(k, parent, prefix, suffix, s) ==
  [tree |-> k, parent |-> parent, children |-> {}, prefix |-> prefix, suffix |-> suffix,
   active |-> TRUE, created |-> s, lastRollout |-> Never, lastTeacher |-> Never,
   lastSft |-> Never, sftUpdates |-> 0]

\* sample(n, step): the least recently sampled trees not yet sampled in this
\* step, and of each its least recently rolled out candidate.
Eligible == {k \in ReadyTrees : trees[k].lastRollout # step}

\* The chosen trees and the node picked of each are stamped and lent.
SampleEffect(chosen, pick) ==
  /\ trees' = [k \in DOMAIN trees |->
                 IF k \in chosen THEN [trees[k] EXCEPT !.lastRollout = step] ELSE trees[k]]
  /\ nodes' = [m \in DOMAIN nodes |->
                 IF \E k \in chosen : pick[k] = m
                 THEN [nodes[m] EXCEPT !.lastRollout = step] ELSE nodes[m]]
  /\ lent' = lent \cup {<<k, pick[k]>> : k \in chosen}
  /\ UNCHANGED <<nodeCount, events, queue, count, step, owed, sftLent>>

Sample(n) ==
  \E chosen \in SUBSET Eligible : \E pick \in [chosen -> DOMAIN nodes] :
    /\ IsFirst(n, Eligible, RolloutKey, chosen)
    /\ \A k \in chosen : pick[k] \in LeastUsed(RolloutCandidates(k), NodeRolloutKey)
    /\ SampleEffect(chosen, pick)

\* _enqueue_event_locked, once for each of the m failed trajectories.
EnqueueEvents(k, n, m) ==
  LET new == (count.enqueued + 1)..(count.enqueued + m) IN
  /\ events' = [e \in DOMAIN events \cup new |->
                  IF e \in new
                  THEN [tree |-> k, parent |-> n, created |-> step, inFlight |-> FALSE]
                  ELSE events[e]]
  /\ queue' = [queue EXCEPT ![k] = @ \cup new]
  /\ count' = Add("enqueued", m)

\* _record_observation_locked without its early returns: in the group of node
\* n (of tree k, among the nodes ns) `bad` rollouts failed, and m failed
\* trajectories were collected from them.  Any failure keeps or makes the
\* node active; an all-success group deactivates it.
Observe(ns, k, n, bad, m) ==
  /\ nodes' = [ns EXCEPT ![n] = [@ EXCEPT !.lastRollout = step, !.active = (bad > 0)]]
  /\ IF bad > 0 THEN EnqueueEvents(k, n, m) ELSE UNCHANGED <<events, queue, count>>

\* record_root_observation: the merged outcome of the prompt's own rollouts.
RecordRootObservation(k, bad, m) ==
  /\ \/ /\ k \in DOMAIN trees
        /\ Observe(nodes, k, trees[k].root, bad, m)
        /\ UNCHANGED <<trees, nodeCount>>
     \/ /\ k \notin DOMAIN trees /\ m > 0
        /\ nodeCount' = nodeCount + 1
        /\ trees' = Put(trees, k, NewTree(nodeCount'))
        /\ Observe(Put(nodes, nodeCount', NewNode(k, NoParent, << >>, FALSE, step)), k, nodeCount', bad, m)
     \/ /\ k \notin DOMAIN trees /\ m = 0
        /\ UNCHANGED poolVars
  /\ UNCHANGED <<step, owed, lent, sftLent>>

\* record_observation: the outcome of an injected node.  It is dropped when
\* the tree or the node is gone or the node was deactivated meanwhile.
RecordObservation(k, n, bad, m) ==
  /\ <<k, n>> \in lent
  /\ lent' = lent \ {<<k, n>>}
  /\ IF k \in DOMAIN trees /\ n \in NodesOf(k) /\ nodes[n].active
     THEN Observe(nodes, k, n, bad, m) /\ UNCHANGED <<trees, nodeCount>>
     ELSE UNCHANGED poolVars
  /\ UNCHANGED <<step, owed, sftLent>>

\* pending_teacher_requests(max_items, s): one event of each of the first
\* trees, out, goes to the worker.  Selecting also drops from the queues the
\* ids that are not events.
DispatchEffect(out, s) ==
  LET served(k) == \E e \in out : events[e].tree = k
      asked(n) == \E e \in out : events[e].parent = n
  IN /\ events' = [e \in DOMAIN events |->
                     IF e \in out THEN [events[e] EXCEPT !.inFlight = TRUE] ELSE events[e]]
     /\ trees' = [k \in DOMAIN trees |->
                    IF served(k) THEN [trees[k] EXCEPT !.lastTeacher = s] ELSE trees[k]]
     /\ nodes' = [n \in DOMAIN nodes |->
                    IF asked(n) THEN [nodes[n] EXCEPT !.lastTeacher = s] ELSE nodes[n]]
     /\ queue' = [k \in Prompt |->
                    IF k \in DOMAIN trees
                    THEN {e \in queue[k] : e \in DOMAIN events /\ events[e].tree = k}
                    ELSE queue[k]]
     /\ count' = Add("dispatched", Cardinality(out))
     /\ owed' = owed \cup out
     /\ UNCHANGED <<nodeCount, step, lent, sftLent>>

PendingTeacherRequests(maxItems, s) ==
  LET candidates == {k \in DOMAIN trees : SelectedEvents(k) # {}}
  IN \E chosen \in SUBSET candidates : \E pick \in [chosen -> DOMAIN events] :
       /\ maxItems > 0 /\ chosen # {}
       /\ IsFirst(maxItems, candidates, TeacherKey, chosen)
       /\ \A k \in chosen : pick[k] \in SelectedEvents(k)
       /\ DispatchEffect({pick[k] : k \in chosen}, s)

\* Mutant: the answer extends its parent whatever was observed meanwhile.
ParentExists(e) == events[e].tree \in DOMAIN trees /\ events[e].parent \in NodesOf(events[e].tree)

\* The parent an answer would extend is there and was not retired meanwhile.
ParentLives(e) ==
  /\ events[e].tree \in DOMAIN trees
  /\ events[e].parent \in NodesOf(events[e].tree)
  /\ nodes[events[e].parent].active

\* Mutant: only the tree's root is compared with the answer.
IsRoot(k, prefix) == nodes[trees[k].root].prefix = prefix

\* _find_node_by_augmented_ids_locked.
IsKnown(k, prefix) == \E n \in NodesOf(k) : nodes[n].prefix = prefix

\* How on_teacher_response ends: the counters it bumps.
Verdict(e, a) ==
  IF e \notin DOMAIN events THEN {"stale"}
  ELSE IF ~ParentLives(e) THEN {"staleParent", "stale"}
  ELSE IF a = NoAnswer THEN {"failed"}
  ELSE IF ~ValidChild(nodes[events[e].parent].prefix, a.prefix) THEN {"invalid"}
  ELSE IF IsKnown(events[e].tree, a.prefix) THEN {"duplicate"}
  ELSE IF ~a.suffix THEN {"invalid"}
  ELSE {"success"}

\* Mutant: the event is popped, its id stays in the deque.
PopEventOnly(e) == events' = Without(events, {e}) /\ UNCHANGED queue

\* The event is popped first; _remove_event_from_tree_queue_locked follows.
PopEvent(e) ==
  /\ events' = Without(events, {e})
  /\ queue' = [k \in Prompt |-> IF e \in DOMAIN events /\ k = events[e].tree
                               THEN queue[k] \ {e} ELSE queue[k]]

\* The nodes once the child c of p joined them.
WithChild(c, k, p, a, s) ==
  [Put(nodes, c, NewNode(k, p, a.prefix, TRUE, s)) EXCEPT ![p].children = @ \cup {c}]

\* on_teacher_response(e, a, s).
OnTeacherResponse(e, a, s) ==
  /\ e \in owed
  /\ owed' = owed \ {e}
  /\ count' = Bump(Verdict(e, a))
  /\ PopEvent(e)
  /\ IF Verdict(e, a) = {"success"}
     THEN /\ nodeCount' = nodeCount + 1
          /\ nodes' = WithChild(nodeCount', events[e].tree, events[e].parent, a, s)
     ELSE UNCHANGED <<nodes, nodeCount>>
  /\ UNCHANGED <<trees, step, lent, sftLent>>

\* Mutant: a tree is removed although its events are under way.
RemovableWithEvents == {k \in DOMAIN trees : \A n \in NodesOf(k) : ~nodes[n].active}

\* cleanup_inactive_trees: no active node and no event of any kind.
Removable == {k \in DOMAIN trees : /\ \A n \in NodesOf(k) : ~nodes[n].active
                                  /\ \A e \in DOMAIN events : events[e].tree # k}

CleanupInactiveTrees ==
  /\ trees' = Without(trees, Removable)
  /\ nodes' = Without(nodes, {n \in DOMAIN nodes : nodes[n].tree \in Removable})
  /\ queue' = [k \in Prompt |-> IF k \in Removable THEN {} ELSE queue[k]]
  /\ UNCHANGED <<nodeCount, events, count, step, owed, lent, sftLent>>

-----------------------------------------------------------------------------
(* Suffix SFT: the supervised replay of the nodes' teacher suffixes.       *)

StampSft(routes) ==
  /\ trees' = [k \in DOMAIN trees |->
                 IF \E r \in routes : r[1] = k THEN [trees[k] EXCEPT !.lastSft = step] ELSE trees[k]]
  /\ nodes' = [m \in DOMAIN nodes |->
                 IF \E r \in routes : r[2] = m THEN [nodes[m] EXCEPT !.lastSft = step] ELSE nodes[m]]

\* sample_suffix_sft(n, step): at most one node of each tree.
SampleSuffixSft(n) ==
  /\ n > 0
  /\ \E chosen \in SUBSET SftReadyTrees :
       /\ IsFirst(n, SftReadyTrees, SftKey, chosen)
       /\ \E pick \in [chosen -> DOMAIN nodes] :
            /\ \A k \in chosen : pick[k] \in LeastUsed(SftCandidates(k), NodeSftKey)
            /\ StampSft({<<k, pick[k]>> : k \in chosen})
            /\ sftLent' = {<<k, pick[k]>> : k \in chosen}
  /\ UNCHANGED <<nodeCount, events, queue, count, step, owed, lent>>

SftTrainable(k, n) == k \in DOMAIN trees /\ n \in SftCandidates(k)

\* record_suffix_sft: one optimizer step was taken on this route.
RecordSuffixSft(k, n) ==
  /\ <<k, n>> \in sftLent
  /\ nodes' = IF SftTrainable(k, n) THEN [nodes EXCEPT ![n].sftUpdates = @ + 1] ELSE nodes
  /\ UNCHANGED <<trees, nodeCount, events, queue, count, step, owed, lent, sftLent>>

\* Mutant: every active child so far is taken, whatever its epoch.
FrozenSoFar(lo, hi) ==
  {<<nodes[n].tree, n>> : n \in {m \in DOMAIN nodes :
     m \in SftCandidates(nodes[m].tree) /\ nodes[m].created \in 0..hi}}

\* freeze_suffix_sft_epoch_and_clear_teacher_events(lo, hi): what it returns
\* and what it does.
FrozenRoutes(lo, hi) ==
  {<<nodes[n].tree, n>> : n \in {m \in DOMAIN nodes :
     m \in SftCandidates(nodes[m].tree) /\ nodes[m].created \in lo..hi}}

\* Mutant: the cleared events are not counted.
ClearSilently ==
  /\ events' = << >> /\ queue' = [k \in Prompt |-> {}]
  /\ UNCHANGED <<count, trees, nodes, nodeCount, step, owed, lent>>

\* Mutant: events that a task works on stay.
ClearPendingEvents ==
  LET pending == {e \in DOMAIN events : ~events[e].inFlight} IN
  /\ events' = Without(events, pending) /\ queue' = [k \in Prompt |-> queue[k] \ pending]
  /\ count' = Add("cleared", Cardinality(pending))
  /\ UNCHANGED <<trees, nodes, nodeCount, step, owed, lent>>

ClearTeacherEvents ==
  /\ events' = << >> /\ queue' = [k \in Prompt |-> {}]
  /\ count' = Add("cleared", Cardinality(DOMAIN events))
  /\ UNCHANGED <<trees, nodes, nodeCount, step, owed, lent>>

\* mark_suffix_sft_sampled(routes, step), for a batch of the snapshot.
MarkSuffixSftSampled(routes) ==
  /\ StampSft({r \in routes : SftTrainable(r[1], r[2])})
  /\ UNCHANGED <<nodeCount, events, queue, count, step, owed, lent, sftLent>>

-----------------------------------------------------------------------------
(* The most general client.                                                *)

\* Prefixes a teacher may answer with; the longest is one token too long.
AnswerPrefixes == UNION {[1..n -> Token] : n \in 0..(MaxPrefixLen + 1)}
Answers == {NoAnswer} \cup {Answer(p, s) : p \in AnswerPrefixes, s \in BOOLEAN}

\* Failing rollouts of a group and failed trajectories collected from them.
Outcomes == {o \in (0..RolloutN) \X (0..RolloutN) :
               o[2] <= o[1] /\ count.enqueued + o[2] <= MaxEvents}

\* The worker passes the step it last heard of, and may have read it a while ago.
TeacherSteps == 0..step

NextStep ==
  /\ step < MaxStep
  /\ step' = step + 1
  /\ lent' = {} /\ sftLent' = {}
  /\ UNCHANGED <<poolVars, owed>>

\* The teacher mini-batches that the snapshot can fill.
FullBatches == {routes \in SUBSET sftLent : Cardinality(routes) = SftSlots}

TrainerNext ==
  \/ NextStep
  \/ \E n \in 1..InjectSlots : Sample(n)
  \/ \E k \in Prompt, o \in Outcomes :
       /\ k \in DOMAIN trees \/ nodeCount < MaxNodes
       /\ RecordRootObservation(k, o[1], o[2])
  \/ \E r \in lent, o \in Outcomes : RecordObservation(r[1], r[2], o[1], o[2])
  \/ CleanupInactiveTrees
  \/ /\ sftLent = {} /\ \A k \in DOMAIN trees : trees[k].lastSft # step
     /\ SampleSuffixSft(SftSlots)
  \/ \E r \in sftLent :
       /\ r[2] \in DOMAIN nodes => nodes[r[2]].sftUpdates < MaxSftUpdates
       /\ RecordSuffixSft(r[1], r[2])
  \/ /\ SftSlots > 0
     /\ ClearTeacherEvents
     /\ \E lo \in 0..step : sftLent' = FrozenRoutes(lo, step)
  \/ \E routes \in FullBatches : MarkSuffixSftSampled(routes)

WorkerNext ==
  \/ \E s \in TeacherSteps : PendingTeacherRequests(DispatchSlots, s)
  \/ \E e \in owed, a \in Answers, s \in TeacherSteps :
       /\ Verdict(e, a) = {"success"} => nodeCount < MaxNodes
       /\ OnTeacherResponse(e, a, s)

Next == TrainerNext \/ WorkerNext

Spec == Init /\ [][Next]_vars

-----------------------------------------------------------------------------
(* Properties.                                                             *)

NodeId == 1..nodeCount
EventId == 1..count.enqueued
Stamp == -1..step

TreeType == [root : NodeId, created : 0..step, lastRollout : Stamp,
             lastTeacher : Stamp, lastSft : Stamp]
NodeType == [tree : Prompt, parent : NodeId \cup {NoParent}, children : SUBSET NodeId,
             prefix : Seq(Token), suffix : BOOLEAN, active : BOOLEAN,
             created : 0..step, lastRollout : Stamp, lastTeacher : Stamp,
             lastSft : Stamp, sftUpdates : Nat]
EventType == [tree : Prompt, parent : NodeId, created : 0..step, inFlight : BOOLEAN]

\* Every variable holds what the code's dataclasses declare, ids are ids
\* that were given out, and no stamp lies in the future.
TypeOK ==
  /\ nodeCount \in Nat /\ step \in Nat
  /\ count \in [Counters -> Nat]
  /\ DOMAIN trees \subseteq Prompt /\ \A k \in DOMAIN trees : trees[k] \in TreeType
  /\ DOMAIN nodes \subseteq NodeId /\ \A n \in DOMAIN nodes : nodes[n] \in NodeType
  /\ DOMAIN events \subseteq EventId /\ \A e \in DOMAIN events : events[e] \in EventType
  /\ queue \in [Prompt -> SUBSET EventId]
  /\ owed \subseteq EventId
  /\ lent \subseteq Prompt \X NodeId /\ sftLent \subseteq Prompt \X NodeId

\* The two indexes of the teacher work agree: the ids queued for a prompt are
\* exactly the pending and in-flight events of its tree, so that no event is
\* ever unreachable for the dispatcher and no queue holds a dead id
\* (_enqueue_event_locked, _remove_event_from_tree_queue_locked, the freeze
\* and the clean-up keep them in step).
QueueMirrorsEvents ==
  \A k \in Prompt : queue[k] = {e \in DOMAIN events : events[e].tree = k}

\* An event never outlives the node it will extend: clean-up removes no tree
\* that still has work, so the `tree is None` and `parent is None` branches of
\* on_teacher_response are unreachable.
EventsHaveParents ==
  \A e \in DOMAIN events : /\ events[e].tree \in DOMAIN trees
                           /\ events[e].parent \in NodesOf(events[e].tree)

\* Every tree still holds its root.
TreesHaveRoots == \A k \in DOMAIN trees : trees[k].root \in NodesOf(k)

\* Each tree is a tree: its root is the prompt itself, every other node
\* strictly extends its parent in the same tree, fits the context window,
\* carries a teacher suffix and is listed among its parent's children; no two
\* nodes of a tree are the same prompt state, although several answers for
\* one parent may be under way at once.
TreeShape ==
  /\ \A n \in DOMAIN nodes : nodes[n].tree \in DOMAIN trees
  /\ TreesHaveRoots
  /\ \A k \in DOMAIN trees :
       /\ \A n \in NodesOf(k) : nodes[n].parent = NoParent <=> n = trees[k].root
       /\ nodes[trees[k].root].prefix = << >>
  /\ \A n \in DOMAIN nodes : nodes[n].parent # NoParent =>
       /\ nodes[n].parent \in DOMAIN nodes /\ nodes[nodes[n].parent].tree = nodes[n].tree
       /\ ValidChild(nodes[nodes[n].parent].prefix, nodes[n].prefix)
       /\ nodes[n].suffix
  /\ \A n \in DOMAIN nodes :
       nodes[n].children = {m \in DOMAIN nodes : nodes[m].parent = n}
  /\ \A m, n \in DOMAIN nodes :
       nodes[m].tree = nodes[n].tree /\ nodes[m].prefix = nodes[n].prefix => m = n

\* Nothing is lost: an event that was ever enqueued is pending, in flight, or
\* counted under exactly one outcome.
EventAccounting ==
  count.enqueued = Cardinality(DOMAIN events) + count.success + count.failed
                   + count.staleParent + count.invalid + count.duplicate + count.cleared

\* An event is marked in flight exactly while a worker task holds it: none
\* stays marked because nobody owes its answer any more, and none that a task
\* still works on is offered to another.
InFlightIsOwed == \A e \in DOMAIN events : events[e].inFlight <=> e \in owed

\* Between sampling a node and recording its rollouts nothing the worker or
\* another observation does removes or retires it, so no rollout group is
\* dropped by the early returns of record_observation.
LentNodesStayActive ==
  \A r \in lent : r[1] \in DOMAIN trees /\ r[2] \in RolloutCandidates(r[1])

\* What is in use outlives whatever retires and cleans up around it: no event
\* loses the node it will extend, and no rollout group the node it was sampled
\* for.
NothingDangles == EventsHaveParents /\ LentNodesStayActive

\* Every dispatch hands over an event that no task holds: the count of
\* dispatches grows by the number of answers newly owed, so that no failed
\* trajectory costs two teacher requests at a time.
DispatchedOnce ==
  [][count'.dispatched - count.dispatched = Cardinality(owed' \ owed)]_vars

\* A retired node takes no new child: an answer that comes back after its
\* parent was retired is discarded as stale.
NoChildOfRetired ==
  [][\A n \in DOMAIN nodes' \ DOMAIN nodes :
       nodes'[n].parent # NoParent => nodes[nodes'[n].parent].active]_vars

\* A request to the teacher is made once and pays off only in time: no second
\* task is given the same event, and no answer revives a retired state.
OneUsefulAnswer == DispatchedOnce /\ NoChildOfRetired

=============================================================================
