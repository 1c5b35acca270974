-------------------------- MODULE PrefixChainPool --------------------------
(***************************************************************************)
(* The prefix chain pool of recipe/deep_grpo/pools/prefix_chain_pool.py    *)
(* with its two clients: the trainer's thread, which samples the learning  *)
(* chains at the start of a step and reports their rollouts at its end,    *)
(* and the teacher worker's thread (teacher_worker.py in chain mode),      *)
(* which drains the deepening queue into a cache of its own and works on   *)
(* as many requests as its semaphore has permits.  Only the pool is        *)
(* checkpointed: what the worker holds dies with the process, and          *)
(* load_state_dict re-enqueues the chains that were waiting for it.        *)
(*                                                                         *)
(* Every pool method holds the pool's lock throughout, so each is one      *)
(* action.  Abstractions: the outcome of a rollout group is the class of   *)
(* last_k_succ that the code branches on; of a node's failed rollouts only *)
(* their presence counts; the deepening queue, the worker's cache and its  *)
(* tasks are bags of prompts, since the worker drains the whole queue when *)
(* its cache is empty and no property depends on the order in between.     *)
(* Step numbers, the transition log and the counters are left out: no      *)
(* method of the pool reads them back.                                     *)
(***************************************************************************)
EXTENDS Integers, Sequences, FiniteSets

CONSTANTS
  Prompt,        \* prompt keys
  MaxDepth,      \* bound: prompt |-> the longest locked prefix a teacher answers with
  InjectSlots,   \* int(injection_ratio * batch size)
  MaxConcurrent, \* max_concurrent_annotations
  MaxRestarts    \* bound: restarts of the process

ASSUME ChainAssumption ==
  /\ MaxDepth \in [Prompt -> Nat] /\ InjectSlots \in Nat
  /\ MaxConcurrent \in Nat \ {0} /\ MaxRestarts \in Nat

VARIABLES
  chains,   \* _chains: prompt |-> PrefixChain
  queue,    \* _deepening_queue, as a bag: prompt |-> copies
  cache,    \* _chain_pending_cache of the worker, as a bag
  tasks,    \* the worker's running tasks, as a bag
  permits,  \* the permits left in the worker's semaphore
  lent,     \* prompt |-> depth of the node sampled in this step, unreported
  saved,    \* the last checkpoint: what state_dict returned
  restarts

vars == <<chains, queue, cache, tasks, permits, lent, saved, restarts>>

-----------------------------------------------------------------------------
(* Values.                                                                 *)

\* What the last observation of a node says of last_k_succ: None, 0, more,
\* or k_total (is_mastered).
Outcome == {"untried", "none", "some", "all"}

Node(d, failures) == [depth |-> d, last |-> "untried", failures |-> failures]

\* active_idx counts from 0.
ActiveNode(c) == c.nodes[c.active + 1]

NoBag == [k \in Prompt |-> 0]
Plus(bag, k) == [bag EXCEPT ![k] = @ + 1]
Minus(bag, k) == [bag EXCEPT ![k] = @ - 1]

Put(f, k, v) == [x \in DOMAIN f \cup {k} |-> IF x = k THEN v ELSE f[x]]

In(state) == {k \in DOMAIN chains : chains[k].state = state}

\* What the teacher made of a request: nothing, ids that do not start with
\* the prompt, or ids whose locked prefix is so long.
Failure == [kind |-> "failure"]
Misrouted == [kind |-> "misrouted"]
Deeper(d) == [kind |-> "ids", depth |-> d]
Answers(k) == {Failure, Misrouted} \cup {Deeper(d) : d \in 0..MaxDepth[k]}

-----------------------------------------------------------------------------
Init ==
  /\ chains = << >> /\ queue = NoBag
  /\ cache = NoBag /\ tasks = NoBag /\ permits = MaxConcurrent
  /\ lent = << >>
  /\ saved = [chains |-> << >>, queue |-> NoBag]
  /\ restarts = 0

\* Mutant: a prompt that failed again starts its chain again.
OnEveryMainFailure(k) ==
  /\ chains' = Put(chains, k, [nodes |-> <<Node(0, TRUE)>>, active |-> 0, state |-> "deepening"])
  /\ queue' = Plus(queue, k)
  /\ UNCHANGED <<cache, tasks, permits, lent, saved, restarts>>

\* on_main_failure: a chain is created once per prompt, waiting for a teacher.
OnMainFailure(k) ==
  /\ k \notin DOMAIN chains
  /\ chains' = Put(chains, k, [nodes |-> <<Node(0, TRUE)>>, active |-> 0, state |-> "deepening"])
  /\ queue' = Plus(queue, k)
  /\ UNCHANGED <<cache, tasks, permits, lent, saved, restarts>>

\* Mutant: chains that wait for the teacher are sampled as well.
LearningOrDeepening == In("learning") \cup In("deepening")

\* The chains sample() draws from.
Learning == In("learning")

\* _node_weight is zero: 4p(1-p) with p = 0 or 1.
Weightless(k) == ActiveNode(chains[k]).last \in {"none", "all"}

\* sample(n), n capped by active_chains_count(): any n of the candidates, the
\* weightless ones last and never alone.
Sample ==
  /\ lent = << >>
  /\ \E chosen \in SUBSET Learning :
       /\ Cardinality(chosen) = IF InjectSlots <= Cardinality(In("learning"))
                                THEN InjectSlots ELSE Cardinality(In("learning"))
       /\ \E k \in Learning : ~Weightless(k)
       /\ (\E k \in chosen : Weightless(k)) => \A k \in Learning \ chosen : Weightless(k)
       /\ lent' = [k \in chosen |-> ActiveNode(chains[k]).depth]
  /\ UNCHANGED <<chains, queue, cache, tasks, permits, saved, restarts>>

\* Mutant: the node below is used as it was left.
RetreatUnreset(c) ==
  LET kept == {i \in 1..(c.active + 1) : c.nodes[i].last # "all"}
      top == IF kept = {} THEN 0 ELSE CHOOSE i \in kept : \A j \in kept : j <= i
  IN [nodes |-> SubSeq(c.nodes, 1, top), active |-> top - 1,
      state |-> IF top = 0 THEN "completed" ELSE c.state]

\* _on_master: mastered nodes are popped from the active one down; the node
\* then active is reset, or there is none left.
Mastered(c) ==
  LET kept == {i \in 1..(c.active + 1) : c.nodes[i].last # "all"}
      top == IF kept = {} THEN 0 ELSE CHOOSE i \in kept : \A j \in kept : j <= i
      rest == SubSeq(c.nodes, 1, top) \o SubSeq(c.nodes, c.active + 2, Len(c.nodes))
  IN [nodes |-> IF top = 0 THEN rest ELSE [rest EXCEPT ![top] = Node(@.depth, FALSE)],
      active |-> top - 1,
      state |-> IF top = 0 THEN "completed" ELSE c.state]

\* The active node of c observed with outcome o.
Observed(c, o) == [c EXCEPT !.nodes[c.active + 1].last = o]

\* Its failed rollouts are kept for the teacher, if there are any.
Stuck(c, failures) ==
  [Observed(c, "none") EXCEPT !.nodes[c.active + 1].failures = failures, !.state = "deepening"]

\* record_observation: ignored unless the chain is learning.
RecordObservation(k, o, failures) ==
  /\ k \in DOMAIN lent
  /\ lent' = [j \in DOMAIN lent \ {k} |-> lent[j]]
  /\ \/ /\ k \notin In("learning")
        /\ UNCHANGED <<chains, queue>>
     \/ /\ k \in In("learning") /\ o = "all"
        /\ chains' = [chains EXCEPT ![k] = Mastered(Observed(@, "all"))]
        /\ UNCHANGED queue
     \/ /\ k \in In("learning") /\ o = "none"
        /\ chains' = [chains EXCEPT ![k] = Stuck(@, failures)]
        /\ queue' = Plus(queue, k)
     \/ /\ k \in In("learning") /\ o = "some"
        /\ chains' = [chains EXCEPT ![k] = Observed(@, "some")]
        /\ UNCHANGED queue
  /\ UNCHANGED <<cache, tasks, permits, saved, restarts>>

\* The step ends; groups without statistics were not reported.
EndStep ==
  /\ lent # << >> /\ lent' = << >>
  /\ UNCHANGED <<chains, queue, cache, tasks, permits, saved, restarts>>

-----------------------------------------------------------------------------
(* The teacher worker.                                                     *)

\* pending_teacher_requests drains the queue: a waiting chain with failed
\* rollouts is handed out, one without is abandoned, the rest is skipped.
HasFailures(k) == ActiveNode(chains[k]).failures
Hopeless == {k \in In("deepening") : queue[k] > 0 /\ ~HasFailures(k)}
Drained == [k \in Prompt |-> IF k \in In("deepening") /\ HasFailures(k) THEN queue[k] ELSE 0]

AbandonAll(S) == [k \in DOMAIN chains |->
                    IF k \in S THEN [chains[k] EXCEPT !.state = "abandoned"] ELSE chains[k]]

\* Mutant: the rest of a drained batch is forgotten.
DispatchFirst(batch) ==
  \/ \E k \in Prompt :
       /\ batch[k] > 0
       /\ cache' = NoBag
       /\ tasks' = Plus(tasks, k) /\ permits' = permits - 1
  \/ batch = NoBag /\ cache' = batch /\ UNCHANGED <<tasks, permits>>

\* One request of the batch goes to a new task, the rest stays cached; with an
\* empty batch the permit is given back.
Dispatch(batch) ==
  \/ \E k \in Prompt :
       /\ batch[k] > 0
       /\ cache' = Minus(batch, k)
       /\ tasks' = Plus(tasks, k) /\ permits' = permits - 1
  \/ batch = NoBag /\ cache' = batch /\ UNCHANGED <<tasks, permits>>

\* _fetch_next_work, by a worker that holds a permit.
FetchNextWork ==
  /\ permits > 0
  /\ \/ /\ cache = NoBag /\ queue # NoBag
        /\ chains' = AbandonAll(Hopeless)
        /\ queue' = NoBag
        /\ Dispatch(Drained)
     \/ /\ cache # NoBag
        /\ Dispatch(cache)
        /\ UNCHANGED <<chains, queue>>
  /\ UNCHANGED <<lent, saved, restarts>>

\* INV-2's check in on_teacher_response.
IsDeeper(c, d) == Len(c.nodes) > 0 => d > c.nodes[Len(c.nodes)].depth

\* The chain once the teacher answered a.
Answered(c, a) ==
  IF a.kind = "ids" /\ IsDeeper(c, a.depth)
  THEN [nodes |-> Append(c.nodes, Node(a.depth, FALSE)),
        active |-> Len(c.nodes), state |-> "learning"]
  ELSE [c EXCEPT !.state = "abandoned"]

\* _run_one_chain ends: on_teacher_response, ignored unless the chain still
\* waits for it, and the permit is released.
FinishTask(k, a) ==
  /\ tasks[k] > 0
  /\ tasks' = Minus(tasks, k) /\ permits' = permits + 1
  /\ chains' = IF k \in In("deepening") THEN [chains EXCEPT ![k] = Answered(@, a)] ELSE chains
  /\ UNCHANGED <<queue, cache, lent, saved, restarts>>

-----------------------------------------------------------------------------
(* Checkpoints.                                                            *)

\* state_dict, at the end of a step; the worker goes on meanwhile.
Save ==
  /\ lent = << >>
  /\ saved' = [chains |-> chains, queue |-> queue]
  /\ UNCHANGED <<chains, queue, cache, tasks, permits, lent, restarts>>

\* Mutant: the queue is restored as it was saved.
SavedQueue == saved.queue

\* load_state_dict's safety net: a chain that waits for the teacher without
\* being queued is queued again.
RestoredQueue ==
  [k \in Prompt |-> IF /\ k \in DOMAIN saved.chains /\ saved.chains[k].state = "deepening"
                       /\ saved.queue[k] = 0
                    THEN 1 ELSE saved.queue[k]]

\* The process dies at any point and a new one loads the checkpoint.
Restart ==
  /\ restarts < MaxRestarts /\ restarts' = restarts + 1
  /\ chains' = saved.chains /\ queue' = RestoredQueue
  /\ cache' = NoBag /\ tasks' = NoBag /\ permits' = MaxConcurrent
  /\ lent' = << >>
  /\ UNCHANGED saved

TrainerNext ==
  \/ \E k \in Prompt : OnMainFailure(k)
  \/ Sample
  \/ \E k \in Prompt, o \in Outcome \ {"untried"}, f \in BOOLEAN : RecordObservation(k, o, f)
  \/ EndStep
  \/ Save

WorkerNext ==
  \/ FetchNextWork
  \/ \E k \in Prompt : \E a \in Answers(k) : FinishTask(k, a)

Next == TrainerNext \/ WorkerNext \/ Restart

Spec == Init /\ [][Next]_vars

\* The worker's loop polls for ever, and a teacher call ends: it answers, its
\* retries are used up, or it times out.  Nothing is asked of the trainer.
FairSpec ==
  /\ Spec
  /\ WF_vars(FetchNextWork)
  /\ \A k \in Prompt : WF_vars(\E a \in Answers(k) : FinishTask(k, a))

-----------------------------------------------------------------------------
(* Properties.                                                             *)

NodeType == [depth : Nat, last : Outcome, failures : BOOLEAN]
ChainType == [nodes : Seq(NodeType), active : Nat \cup {-1},
              state : {"learning", "deepening", "completed", "abandoned"}]
PoolType(cs, q) ==
  /\ DOMAIN cs \subseteq Prompt /\ \A k \in DOMAIN cs : cs[k] \in ChainType
  /\ q \in [Prompt -> Nat]

\* Every variable, and the checkpoint, holds what the dataclasses declare.
TypeOK ==
  /\ PoolType(chains, queue) /\ PoolType(saved.chains, saved.queue)
  /\ cache \in [Prompt -> Nat] /\ tasks \in [Prompt -> Nat]
  /\ permits \in 0..MaxConcurrent
  /\ DOMAIN lent \subseteq Prompt /\ \A k \in DOMAIN lent : lent[k] \in 0..MaxDepth[k]
  /\ restarts \in 0..MaxRestarts

\* The invariants INV-1 to INV-4 of the pool's docstring (INV-1 read from left
\* to right, as the unit tests check it), and what they rest on: the active
\* node is always the deepest one, and only completed chains have none.
WellFormed(c) ==
  /\ c.active = Len(c.nodes) - 1
  /\ c.state = "completed" <=> c.nodes = << >>
  /\ c.state = "learning" => ActiveNode(c).last \in {"untried", "some"}
  /\ \A i \in 1..Len(c.nodes) : c.nodes[i].last # "all"
  /\ \A i, j \in 1..Len(c.nodes) : i < j => c.nodes[i].depth < c.nodes[j].depth
  /\ c.nodes # << >> => c.nodes[1].depth = 0

\* Chains stay well formed whatever order answers, reports and restarts come
\* in, and so does the checkpoint.
ChainsWellFormed ==
  /\ \A k \in DOMAIN chains : WellFormed(chains[k])
  /\ \A k \in DOMAIN saved.chains : WellFormed(saved.chains[k])

\* A report always reaches the node whose rollouts it describes, although
\* record_observation finds it only by prompt: between sample and report the
\* chain stays learning on that node.
ReportsReachTheirNode ==
  \A k \in DOMAIN lent :
    k \in In("learning") /\ ActiveNode(chains[k]).depth = lent[k]

\* A chain that waits for the teacher is in exactly one place of the pipeline,
\* once: the pool's queue, the worker's cache or a running task; and no other
\* chain is in any.  So no request is lost or answered twice, also across a
\* restart.
OneRequestPerWaitingChain ==
  \A k \in Prompt : queue[k] + cache[k] + tasks[k] = IF k \in In("deepening") THEN 1 ELSE 0

\* Every request for a teacher is decided sooner or later, in the run of the
\* process that made it or after a restart.
WaitingEnds ==
  \A k \in Prompt : k \in In("deepening") ~> k \notin In("deepening")

\* The pool implements the life cycle its docstring draws.
PhaseIn(cs) == [k \in Prompt |-> IF k \in DOMAIN cs THEN cs[k].state ELSE "absent"]
HeightIn(cs) == [k \in Prompt |-> IF k \in DOMAIN cs THEN Len(cs[k].nodes) ELSE 0]

Life == INSTANCE ChainLifecycle
          WITH phase <- PhaseIn(chains), height <- HeightIn(chains),
               kept <- <<PhaseIn(saved.chains), HeightIn(saved.chains)>>

\* Observations, answers, drains, checkpoints and restarts move each chain
\* only along the transitions of the docstring's state machine.
ImplementsLifecycle == Life!LifeSpec
=============================================================================
