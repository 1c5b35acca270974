# A TLA+ verification of DEEP-GRPO

DEEP-GRPO (`recipe/deep_grpo`, on a fork of verl) trains a language model with
GRPO and reinvests in the model's failures.  A failed trajectory goes to a
*teacher* model in the background; the longest prefix it shares with the
teacher's solution becomes a new prompt state, which later batches roll out
from; the teacher's continuation can be replayed with a supervised loss.  What
is injected, when, and what becomes of it is decided by in-memory pools that
two threads share, the trainer's and the teacher worker's, and that checkpoints
carry over a crash.  These modules model those pools, the worker and what its
tasks do, the part of the training loop that drives them, the checkpoints, and
the token-level search tree of the TreeRL baseline.

File names below are relative to `src/recipe/deep_grpo`, and `ray_trainer.py` is
`src/verl/trainer/ppo/ray_trainer.py`.

## 1. Inventory

### Parts, state, operations

| Part | State | Operations | What makes it correct |
|---|---|---|---|
| **Prefix forest pool**, `pools/prefix_forest_pool.py` (the released default) | one tree of prompt states per prompt; teacher events and per-tree queues of them; LRU stamps of trees and nodes; outcome counters | `sample`, `record_(root_)observation`, `pending_teacher_requests`, `on_teacher_response`, `cleanup_inactive_trees`, suffix-SFT sampling and recording, the end-of-epoch freeze, `state_dict` | trees stay trees of distinct valid states; no event is lost, doubled or orphaned; nothing lent out disappears; the samplers are LRU |
| **Prefix chain pool**, `pools/prefix_chain_pool.py` | one chain of nodes per prompt with a state (learning, deepening, completed, abandoned); the deepening queue | `on_main_failure`, `sample`, `record_observation`, `pending_teacher_requests`, `on_teacher_response`, `state_dict` | the docstring's INV-1 to INV-4 and state machine; one request per waiting chain, also across a restart |
| **Teacher worker**, `teacher_worker.py` | a daemon thread with an asyncio loop; a semaphore; running tasks; a cache of drained chain work; a stop event with a sentinel | `start`, `stop`, fetch, dispatch, the end of a task, drain, force-cancel | no permit leaks; no work is lost or doubled; work is taken; a stop ends the thread |
| **Checkpointing**, `_save_checkpoint`, `_maybe_save_best_checkpoint`, `_load_checkpoint` of `ray_trainer.py`; `src/verl/utils/checkpoint` | step folders with actor shards, dataloader state and pool pickles; the tracker file; the best-checkpoint record; rotation lists in the trainer and in the workers | save, rotate, save the best, resume | what the tracker names loads at every moment; rotation keeps its bound and the best step; a restart continues from the last durable step |
| **Training step**, `RayPPOTrainer.fit` | `global_steps`, the nodes lent to a batch, the epoch window | per step: clean-up, sample, publish the step to the worker, rollout, observations, clean-up, optional replay, update; per epoch: freeze and replay; validate and save | every sampled node is reported in its step; children are replayed in the epoch they were created in |
| **Flat-mode pools**, `failed_trajectory_pool.py`, `teacher_annotated_pool.py`, `synthetic_prompt_pool.py`, `branch_point_buffer.py` | lists of entries, parallel lists of steps, deques per prompt | add with eviction, sample (and remove), weights, `state_dict` | bounds hold, entry and step stay paired, draws are fair, an entry is in one place |
| **Teacher client and suffix synthesis**, `utils.py`, `teacher_suffix_utils.py`, `agent_loop/deep_grpo_agent_loop.py` | the rollouts and calls of one task | temperature schedule; split of a teacher solution at the longest common prefix; verification | prefix and suffix make up the verified solution; the limits agree; a task ends |
| **Partition and branching strategies**, `partition_strategy.py`, `branching_strategy.py` | a window of feedback (utility strategy) | cut a response into segments, select branch points | segments cover a response; a branch point can be continued |
| **TreeRL loop**, `agent_loop/treerl_agent_loop.py` | the tree of one rollout, by children and by parent pointers | generate, fork, rebuild, score, values, package | the tree keeps the generated texts; what is trained is what was scored |
| **Other agent loops**, `agent_loop/` | chains of one rollout | generate step by step, collect groups and failures | groups have the size that is configured |
| **verl** (`single_controller`, `workers`, `models`, other trainers, tools) | GPU and Ray state | inherited | outside this project |

### How they interact

```
 trainer thread                         pools (one lock each)        worker thread
 --------------                         ---------------------        -------------
 fit(): sample ------------------------> forest / chain / flat
        rollout of the lent nodes                |
        record_observation ------------------->  |  --- failed work --> _fetch_next_work
        cleanup_inactive_trees                   |                      tasks (<= permits)
        freeze at the end of an epoch            | <-- answers -------  on_teacher_response
        update_current_step ------------------------------------------> _current_step
        _save_checkpoint: state_dict of the pools -> disk -> load_state_dict in a new process
```

Every public method of a pool takes the pool's lock first and releases it last,
so a method is one atomic action; the interleaving that matters is between
methods.  The worker's loop is single-threaded, so there an action is what runs
between two `await`s.  A save is a sequence of file writes and an action is the
opening or the closing of one file.

### What is hard here

* An answer takes minutes; meanwhile its parent is retired, its tree cleaned up,
  its event frozen away, or a sibling answer brings the same state.
* The trainer samples a node at the start of a step and reports it at the end;
  in between the worker inserts children and the root's own group is recorded.
* Two indexes of the same events are kept by hand in five methods.
* LRU order is kept in stamps of the *training step*, many events of which fall
  into one step.
* A permit is acquired by one statement and released by another task, on a loop
  that is stopped, drained and cancelled from outside.
* The flat pools are counted in one call and sampled in the next, their entries
  age by parallel lists of steps, and a run may be resumed in another mode.
* The forks of a search tree rebuild it while other forks await their branches;
  half of its readers follow the children, half the parent pointers.
* A save consists of many writes; two components rotate folders independently; a
  crash leaves folders of an abandoned timeline that the resumed run overwrites.

Each hazard, with the line where it bites and the properties that cover it, is
in `PROJECT.json` under `hazards`.

## 2. Modules

| Module | Models | Extends or refines |
|---|---|---|
| `PrefixForestPool` | the forest and its most general client | |
| `MCPrefixForestPool` | symmetry of tokens, for model checking | extends it |
| `ForestLru` | history variables for the LRU promises | extends `MCPrefixForestPool` |
| `ForestTraining`, `MCForestTraining` | `fit()` in forest mode: its schedule, the worker's forest tasks, checkpoints and crashes | extends `PrefixForestPool` and is one of its clients |
| `PrefixForestPool_proofs` | inductive invariant and theorems; histories as orders of stamps, and the LRU theorem | extends `ForestLru` |
| `ForestTraining_proofs` | the pool's theorems carried over to `fit()`, and those of its schedule | extends `ForestTraining`, `PrefixForestPool_proofs` |
| `PrefixChainPool` | the chain pool with trainer, worker, save and restart | refines `ChainLifecycle` |
| `PrefixChainPool_proofs` | inductive invariant, theorems and the refinement | extends `PrefixChainPool` |
| `ChainLifecycle` | the docstring's state machine, per prompt | abstract |
| `TeacherWorker`, `MCTeacherWorker` | the worker's event loop | |
| `TeacherWorker_proofs` | inductive invariant and theorems | extends `TeacherWorker` |
| `Checkpointing`, `MCCheckpointing` | the trainer's saves, crashes, resumption | refines `CheckpointStore` |
| `Checkpointing_proofs` | invariants, theorems and the refinement | extends `Checkpointing` |
| `CheckpointStore` | a run with durable steps and crashes | abstract |
| `SuffixSynthesis`, `MCSuffixSynthesis` | one annotation task, from its failed rollouts to its report | |
| `SuffixSynthesis_proofs` | inductive invariant and theorems | extends `SuffixSynthesis` |
| `FlatPools` | the four flat pools as values and operators | |
| `BranchPoints` | partitions of a response and the choice of branch points | |
| `FlatTraining`, `MCFlatTraining` | `fit()` and the worker on the flat pools in three modes, checkpoints, crashes | extends `FlatPools` and `BranchPoints` |
| `FlatTraining_proofs` | invariants and theorems | extends `FlatTraining` |
| `EntropyTree`, `MCEntropyTree` | one tree of the TreeRL loop | |
| `EntropyTree_proofs` | inductive invariant and theorems | extends `EntropyTree` |

### PrefixForestPool

`trees`, `nodes`, `events`, `queue` and `count` are `_trees` (the nodes of all
trees in one function), `_events`, `_failed_by_tree` and the counters.  `step` is
the trainer's `global_steps`.  Three variables belong to the callers and state
their obligations: `lent` (sampled in this step, not yet reported), `owed` (events
a worker task is annotating) and `sftLent` (nodes of the replay batch).

Each method is an action of the same name: `Sample`, `RecordRootObservation`,
`RecordObservation`, `PendingTeacherRequests`, `OnTeacherResponse`,
`CleanupInactiveTrees`, `SampleSuffixSft`, `RecordSuffixSft`, `ClearTeacherEvents`
with `FrozenRoutes` (the two halves of the freeze), `MarkSuffixSftSampled`.  `Next`
lets the trainer and the worker call them in any order that their own data
allows: a node is reported only if it was sampled, an event answered once and
only if it was dispatched, the worker's copy of the step is any step so far.
`RayPPOTrainer.fit` calls in one of these orders, which `ForestTraining` checks, so
what holds here holds of it.

Abstractions: a prompt is its rank among the tree keys; a prompt state is the
sequence of tokens after the prompt, short here, compared token by token as in
`_is_strict_prefix`; uuids are counters, and where the code breaks a tie by
uuid the model chooses freely; a rollout group is its number of failures and of
collected failed trajectories.  Fields that no method reads back are left out.

`ForestLru` adds to it who was passed over for whom: a pair of two trees, or of two
nodes, from the step in which the second is served while the first waits, until
the first is served or stops waiting.  The pair also ends when the second is
removed.  A prompt that comes back later has a new tree, with stamps that say it
was never used, and goes before trees that have been waiting: the code's order
is one among the trees that are there, not among prompts.

### ForestTraining

`pc` is the next pool call of `fit()`: a step goes `batch` (clean-up), `count`, `sample`,
`publish`, `nodes` and `roots` (observations), `ready` and `replay` (replay after each
step), `update`, `record`, `save`, `next`; the phase at the end of an epoch goes
`sweep`, `passes` and, outside the loop, `epoch`.  The worker may act between any two
of them: `Fetch`, then `ReadStep`, when the arguments of `on_teacher_response` are
made, then `Respond`, when the call has the lock.  `yielded` and `skipped` are the
dataloader's place in its epoch and the part of it that an earlier process
consumed; the dataloader itself is external.  `saved` is the last whole checkpoint,
`Restart` loads it with `load_state_dict` and the repair of the queues.  `Save` has the
three causes of a checkpoint in one action, the periodic save, the plan that comes
close to its expiration and the best-checkpoint hook of a validation, because no call
of a pool lies between them in `fit()`; so a step may be saved whatever `save_freq` is.
A process resumed behind the last step trains one more, as the code does.
`bornBefore` and `ends` (restarts whose checkpoint found its epoch used up) are history
variables.  A setting is the replay schedule with the lengths of the epoch and the
run, the passes, the save frequency, the frequency of validations that may bring a new
best checkpoint, and whether the plan may expire.

### PrefixChainPool

`chains` and `queue` are the pool; `cache`, `tasks` and `permits` the chain-mode
worker; `lent` the nodes the trainer sampled; `saved` the last checkpoint.  The
outcome of a group is one of the classes of `k_succ` that the code branches on.
`FetchNextWork` is the worker's fetch, with the drain that abandons chains without
failures; `FinishTask` the end of `_run_one_chain`; `Restart` loses the worker's
part and runs `load_state_dict` with its safety net.

### TeacherWorker

`phase` is where `_async_main` is, `acquire` what became of `current_acquire`,
`permits` the semaphore's value; `batch` tells the chain mode, which drains its
pool into a cache, from the other two.  The finally clause is `Cleanup`,
`AcquireEnds`, `Drained` and `ForceCancel`.  A semaphore grant is an action of its
own, so that it races the sentinel.  `Start` needs a thread that ended: `stop()` forgets
one that drains for longer than the 10 seconds of its join, so in the code a second
`start()` could run beside it, but the trainer starts its worker once.

### Checkpointing

`disk` maps a step to its files and each file to the process that wrote it, 0
while it is torn.  `pc` is the place in `fit` and `_save_checkpoint`; `after` where a
save returns to (the best-checkpoint hook or the periodic save).  `shards` is the
workers' `previous_saved_paths`.  `Crash` may happen at every `pc`.  The settings
(how many to keep, whether the best is kept, frequencies) are chosen in `Init`
from `Configs` and never change.

### SuffixSynthesis

One task of the worker: `_run_one_chain` over several failed rollouts, or
`_run_one_legacy` and `_run_one_forest` with one.  `CallFails` and `CallAnswers` are
one attempt of `call_teacher_with_retry`, `Score` the verification.  Texts are
sequences of tokens; of a prompt only its length counts.  The four refusals
(nothing in common, too short a suffix, too long in all, too little room) are the
conjuncts of `IsUsable`, in terms of the operators that also make the split, so that
a limit that is checked on one text and stored with another would show.

### FlatPools, BranchPoints, FlatTraining

Each method of the four flat pools is an operator of `FlatPools`: `AddToList` with
both evictions, `AddToDeques`, `Freshest` and `TakenFrom`, the uniform and the
stratified draw, the draw of synthetic prompts with its weights.  A random
draw is the set of what may be drawn.  `BranchPoints` has the three partitions
and the selection; which of the expandable nodes is chosen is left open.

`FlatTraining` is `fit()` without the chain and forest pools: per step `plan` (count),
`draw`, `rollout`, `feed` (failures and branch points go into the pools), `usage`
(what the injected groups showed), then `save`, for any of the three causes named
above, with the two pickles `first` and `second` and the tracker.  The worker's `Fetch` and `Annotate` act in between.
`Restart` begins from the tracker's folder with any setting, so also in another
mode.  A failed trajectory is its step, its tree and its prompt, a longer prompt
the depth of what was appended.  Weights are integers, in thousandths.

### EntropyTree

`nodes` are the `TreeRLTreeNode` objects by identity, with `parent` and `children` as
the code keeps them; identity matters because a forked root stays the same
object.  `Chain` is the first response; `Select` picks the N places of a round, any
ones, since log-probabilities are not modelled; `Launch` is what a fork does before
it awaits its branches (it captures the prefixes), `Grow` what it does after.  Forks
of several leaves overlap freely.  `Score` follows the parent pointers, `Package` the
children, as the code does: `TextTo` and `PathsFrom` are recursive functions along
the one and the other, defined whatever the links say.  A node's children and the
samples are sets, since the order of siblings reaches neither texts nor rewards.
A token is named by the response it was generated
in, so that equal texts are never confused; `responses` is that history.  The M trees
of a prompt are independent until their average is subtracted.

## 3. Model checking

| Run | Instance | Shows |
|---|---|---|
| `forest` | 2 prompts, 2 tokens, 4 nodes, 2 events, one slot for each sampler, replay on | `TypeOK`, `TreeShape`: concurrent answers never make two equal states or a broken link; `QueueMirrorsEvents`, `NothingDangles`, `EventAccounting`, `OneUsefulAnswer`: no event is lost, doubled, orphaned or answered for a retired node, nothing lent out goes away; `WaitingIsServed`: while a tree or sibling waits, no other is served twice |
| `forest_dispatch_lru` | 2 trees, several events in one step | *violation* of `DispatchLru`, see section 5 |
| `forest_training` | 1 prompt, 3 nodes, 2 events, three settings: replay after each step with best checkpoints only, an epoch of two steps replayed in two passes and saved after each step, three steps in epochs of two with a plan that may expire; a crash anywhere | `PlansStillHold`, `PhaseSweepsClean`, `WindowIsEpoch`, `AgainOnlyFromTheEnd`: a child is trained at most once in each pass, and again only by a restart that found its epoch used up; `InFlightIsOwed`, and `IsPoolClient`: every step but a restart is a step of the general client |
| `forest_resume` | 3 steps in epochs of 2, a checkpoint at the end of the first | *violation* of `ReplayedInOneEpoch`, see section 5 |
| `chain` | 2 prompts, depth up to 2, 1 permit, 1 restart, fair worker | `ChainsWellFormed`, `ReportsReachTheirNode`, `OneRequestPerWaitingChain`, `ImplementsLifecycle`, and `WaitingEnds`: every request for a teacher is decided |
| `ckpt` | 5 steps, 3 processes, three settings | `TrackedIsWholeIfDurable`, `RetentionHolds`, `BestOnDiskUninterrupted`, `ImplementsStore` |
| `ckpt_keep_one` | 3 steps, 2 processes | *violation* of `TrackedIsWhole`, see section 5 |
| `worker` | 3 pieces of work, 2 permits, 2 stops, both ways of fetching | `PermitsConserved`, `WorkIsKept`, `WorkIsTaken`, `StopEnds` |
| `synthesis` | texts of up to 5 tokens over 2 words and the end-of-sequence token; 2 rollouts, 2 temperatures; every limit bites | `SplitIsExact`, `FitsModel`, `LongestFirst`, `TaskEnds` |
| `flat` | 1 prompt, 3 modes, up to 4 steps, lists of 2 or 3 entries, 1 task, 1 crash and restart | `AgesAreTrue`, `FullBranchBatches`, `InOnePlace`, `OnlyHopelessReachTeacher`, `BranchPointsExpandable`, `EvictsOldest`, `DrawsAreFair` |
| `flat_groups` | the same with different rollout sizes | *violation* of `GroupsHaveTheirSize`, see section 5 |
| `entropy_tree` | (N, L, T) = (2, 1, 2), (2, 2, 1) and (1, 3, 2), a model length of 10 | `LeavesAreSamples`, `ForksAreDistinct`, `TrainedIsScored` |

Some properties are conjunctions whose parts are defined and explained before
them: `NothingDangles`, `OneUsefulAnswer`, `WorkIsKept`, `PlansStillHold`, `SplitIsExact`,
`AgesAreTrue`, `DrawsAreFair`.

**Why the bounds are enough.**  The forest's conflicts are between two nodes (a
parent and its child, two siblings, two trees) and two events: an answer that is
overtaken by another answer to the same parent or by a retiring observation.
Four nodes hold two trees with a child each, or a root with two children and a
second tree; two prompts show what one tree's operations do to another's.  The
context limit is 1 or 2 tokens and answers may be one token longer, so that answers
that are too long, equal to the parent, duplicates and proper extensions all occur.
Several steps are needed only for the order of stamps; two distinct ones are.
The proofs below lift all bounds of this run for all its properties.

The chain needs depth 2 so that a mastered node has two below it, and one restart
because nothing survives it but `saved`.  `forest_training` needs
checkpoints inside an epoch and at its end and a step behind that end, so that a window
can take too much or too little, and a path of two children; what two trees do to one
another is the subject of `forest`.  Its crash may come at any place, also in the replay
phase, before or after a checkpoint and behind the last step.  A crash in `ckpt` needs at
most three processes to show: one that leaves files, one that overwrites some of
them, one that reads the mix.

In `flat` three failures meet two places, in two steps with a maximal age of one,
so that eviction by age and by size, a full and a short batch, and an add between
count and draw all occur; two trees are enough for a stratified draw to favour
one.  A restart changes the mode, so that each mode meets the files of the others.
In `synthesis` five tokens are enough for a common prefix, a difference, a suffix,
and the appended token on both sides of each limit.  In `entropy_tree` ten tokens
hold a prompt and three nested forks, with one position too late to get
branches; two forks in one leaf, in two leaves and in a branch of an earlier
round all occur.

Deadlock is not checked where bounds stop the model: the trainer would go on.

**Fairness.**  `chain` assumes that the worker goes on fetching (it polls
for ever) and that a call to the teacher ends: `call_teacher_with_retry` makes
finitely many attempts of at most 1800 s each.  `synthesis` assumes the same of each
attempt (an answer, an error or the timeout) and that the scorer returns, and shows
that then a task ends, which `chain` uses.  `worker` assumes less: the event
loop runs what is ready, timers included (the 0.5 s poll of the stop event, the
poll interval, the drain's 30 s); tasks may hang for ever, and nobody has to
feed, stop or restart the thread.  All other runs are about safety.

## 4. Proofs

`PrefixForestPool_proofs` proves, for every set of prompts and tokens and all
values of the other constants (`PoolAssumption`: prompts are finitely many
numbers, limits are natural numbers, a group is not empty), each of these as an
invariant or an action property of `Spec`:

| Theorem | Property |
|---|---|
| `Types` | `TypeOK` |
| `Shape` | `TreeShape` |
| `EventsReachable` | `QueueMirrorsEvents` and `InFlightIsOwed` |
| `InUseStays` | `NothingDangles` |
| `Accounting` | `EventAccounting` |
| `AnswersCount` | `OneUsefulAnswer`, from `OneDispatch` and `RetiredStayChildless` |

The inductive invariant is `TypeOK`, `TreeShape`, the agreement of the event
indexes (`QueueMirrorsEvents`, `EventsHaveParents` and `InFlightIsOwed`),
`LentNodesStayActive` and `EventAccounting`.  They need each other: that an
event's parent exists rests on the clean-up looking at all events of a tree,
whose removal keeps the queues right only if queues and events agree; that an
answer never adds a child to a tree without its root rests on `TreeShape`; that
the clean-up spares lent nodes rests on a lent node being active, which no
observation of *another* node changes.  `EventAccounting` needs `TypeOK` only, and
finiteness of the set of events.  One lemma per action carries each part; the
type proof has its own (`TypesGrow`) for what widens when ids and steps advance.

`TeacherWorker_proofs` proves `WorkerTypes` (`TypeOK`), `NoPermitLeaks`
(`PermitsConserved`) and `NoWorkLost` (`WorkIsKept`) for every finite set of work and
every positive number of permits.  The count of permits is inductive together with
`OnePlace` (a fetched piece is not already running, so its task is one task more)
and `RestsClean` (a thread that ended has no tasks, a sleeping loop holds no permit,
so a new semaphore starts full).

`SuffixSynthesis_proofs` proves `TaskTypes` (`TypeOK`), `ExactSplit` (`SplitIsExact`),
`Fitting` (`FitsModel`) and `LongestGoFirst` (`LongestFirst`) for all tokens, texts and
limits.  Lemmas about sequences come first: `MatchLen` is chosen by a unique
predicate (a least difference exists), prefix and rest concatenate to the text,
the appended token changes a length by at most one.  The inductive invariant adds
that the solution under verification is usable, that a stored annotation is the
cut of a usable solution, and that all rollouts tried are longer than those left.

The same module proves `LruHolds` of `ForestLru` (`WaitingIsServed`), for all three samplers and
every number of trees, nodes, slots and steps.  The invariant gives each history its
reason: whoever was passed over has the older stamp as long as it waits
(`TreesBehind`, `NodesBehind`, `SftBehind`).  For nodes this needs `StampsOrdered`,
because their stamps are also written by observations: in a tree that was not
sampled in this step no state was rolled out in it, and what is lent was sampled in
this step.  The only hypothesis is that all three histories are kept.

`PrefixChainPool_proofs` proves `ChainTypes`, `WellFormedness` (`ChainsWellFormed`),
`ReportsArrive` (`ReportsReachTheirNode`), `OneRequest`
(`OneRequestPerWaitingChain`) and `FollowsLifecycle` (`ImplementsLifecycle`), for
every finite set of prompts and any depth, number of permits and restarts.  Live
and saved chains share one predicate, so that `Restart` is no special case; a
queued or annotated prompt is one whose chain deepens, which is what keeps
its chain from moving between fetch and answer; the permits are
those of the tasks that run.  In the refinement every action maps to the
transitions of the chains it touches, and the drain and the safety net of
`load_state_dict` to abandonments.

`EntropyTree_proofs` is about one tree for every N, L, T, every length of prompt and
answers and every limit of the model:

| Theorem | Property | What it rests on |
|---|---|---|
| `TreeTypes` | `TypeOK` | which no run checks; the others need it |
| `TreeKeepsItsSamples` | `LeavesAreSamples` | there is one way down to each leaf (`OneWay`), and its text is the one upwards (`WayText`) |
| `TreeForksOnce` | `ForksAreDistinct` | `BranchedOnce`, inductive with the rest; `CountOK` charges the forks of a round before they are done |
| `TreeTrainsWhatItScored` | `TrainedIsScored` | who shares a token is below the node that holds it (`HoldersFacts`), and `SampleRewards` |

The inductive invariant (`IInv`) says of the objects that are linked both ways that
they form a tree (`ShapeOK`: a child's number is above its parent's, though for a root
the data moved), that no two segments share a token (`TokensOK`), what each
selected place may be (`ChosenOK`), and that there are two functions (`Links`): `above`,
the tokens before each object, and `own`, the response that each leaf ends, one to one.
What a fork captured before its await still fits because no rebuild changes the
tokens `above` an object that stays in the tree, and a leaf that is awaited stays a
leaf.  That a root is forked in place is a case of its own in most lemmas: its
object keeps its number and gets new children, and theirs get a new parent.  `PathsFrom`
and `TextTo` are recursive, and the library's induction cannot be used; the module
proves induction for sets of numbers once (`AllNaturals`, `LeastNatural`) and
uses it downwards and upwards, as the functions go.

`Checkpointing_proofs` proves `CheckpointTypes`, `StoreImplemented`
(`ImplementsStore`), `AlwaysResumable` (`TrackedIsWholeIfDurable`), `BestIsKept`
(`BestOnDiskUninterrupted`) and `Retention` (`RetentionHolds`), for every
configuration, every length of a run and every number of crashes.  They rest on where the
process is in a save (`Placed`): the tracker names either the folder before or the
folder that is complete already, and what rotation removes is neither the tracked
folder nor the best one.  `RetentionHolds` counts folders and not names, so its
invariant bounds the folders between two saves by the `Keep` newest, the best one
and the one in work.  `AlwaysResumable` is the comment's promise with the three
conditions that the violations of `ckpt_keep_one` and section 5 show to be needed.

`ForestTraining_proofs` is about `fit()` and its worker, with crashes anywhere and
restarts from any checkpoint, for every dataset and all settings:

| Theorem | Property | Beyond the pool's invariant it needs |
|---|---|---|
| `TrainingTypes` | `TrainingTypeOK` | `Control` (what each place in `fit()` says of its variables) and `SavedLoader` |
| `InFlightStaysOwed`, `PoolStaysSound` | `InFlightIsOwed`; all invariants of the pool | that the checkpoint satisfies them too (an instance of the pool's module over `saved`), and that the repair of the queues restores what a lost worker owed |
| `FitIsPoolClient` | `IsPoolClient` | every step but a restart is one of the general client |
| `PlansStayFeasible` | `PlansStillHold` | what was counted only grows until it is sampled; what was frozen is not trained by others |
| `CleanPhases` | `PhaseSweepsClean` | an answer the worker still carries is about an event that is gone (`Told`) |
| `WindowsAreEpochs` | `WindowIsEpoch` | who was born before the epoch, and how far the worker's step may lag |
| `ReplaysAreBounded` | `AgainOnlyFromTheEnd` | how often each node was replayed in each pass (`Once`), beyond what restarts from an epoch's end allow (`Spent`) |
| `ReplayedOnce` | `ReplayedInOneEpoch`, if `ends` stays 0 | the theorem before |

The first client of the pool's proofs is general (`ClientStep`, `Next` without its
bounds), so one lemma per training step, that it is a `ClientStep`, brings in the
whole invariant.  `ReplaysAreBounded` has no condition on settings or crashes: an
expiring plan or a best score may put a checkpoint behind any step, so none on
`save_freq` could exclude the checkpoints of an epoch's end, and the theorem counts the
restarts from them instead (`ends`).  With none, which `ReplayedOnce` assumes of
the run, what is left is the promise that `forest_resume` violates with one.
`TrainingAssumption` asks for a teacher
mini-batch that is not empty if replay is on, as `fit()` asserts before it begins.

`FlatTraining_proofs` is about the flat pools under `fit()` in all three modes, with the
worker in between, crashes anywhere and restarts in another mode:

| Theorem | Property | What it rests on |
|---|---|---|
| `WellFormed` | `TypeOK /\ StepsPaired` | `IInv`: what each pool, file and batch holds is of a step and a process that were (`Past`) |
| `BranchBatchesAreFull` | `FullBranchBatches` | between count and draw an eviction makes room for a deposit only, so the count never falls below what was counted (`QuotaOK`) |
| `TeacherGetsHopeless` | `OnlyHopelessReachTeacher` | what each mode may leave in the pools that share a file (`ModesOK`) |
| `BranchPointsStayExpandable` | `BranchPointsExpandable` | lengths of chains and nodes of every partition, from `PartitionAssumption` |
| `EvictionsAreOldest` | `EvictsOldest` | both evictions cut a prefix of a list whose steps do not decrease |
| `TreesShareFairly` | the stratified half of `DrawsAreFair` | after each turn of the loop the laps are even (`Even`), however many trees have run dry; once it has enough nothing changes |
| `DrawsStayFair` | `DrawsAreFair`, if `MasteredWeighsLeast` | what is left out of a prompt's share weighs no more than what is in it |
| `AgesHold` | `AgesAreTrue`, which excepts the first step of a third process (section 5) | `AgesInv`: when the buffer last aged, in memory and in the tracked folder |
| `OnePlace` | `InOnePlace` | `PlacesInv`: lists without repetition, apart from each other, in memory and in the two files |

`IInv` is inductive by itself, `AgesInv` and `PlacesInv` are inductive relative to it.
Of the constants, the proofs need `FlatAssumption` and `PartitionAssumption`, and
`DrawsStayFair` also that no other entry weighs as little as a mastered one
(`MasteredWeighsLeast`).  Floors and rollouts of the code's defaults do; a prior may
not, since an annotation that matched nearly all of a solution is weighted close to
nothing, and then a mastered entry of the same prompt goes before it.  TLC checks that
the instances of `flat` and `flat_groups` satisfy it (`MCWeights`).  One
conjunct of `FlatAssumption` narrows what is claimed: a pool's size is the same in all
processes of a mode, since `load_state_dict` does not evict and a smaller size
would hold from the next `add` on only.

Only model-checked:

* liveness (`WaitingEnds`, `WorkIsTaken`, `StopEnds`, `TaskEnds`), which needs fairness and
  `ENABLED`;
* that the properties are violated where section 5 says so.

Every other property of a passing run is stated by a theorem.

## 5. Where code and documentation differ

* `forest_dispatch_lru`.  `pending_teacher_requests` stamps the training step.  The
  worker asks for one item at a time, many times in a step; among trees stamped
  in the same step the oldest wins again and again, so a tree with a waiting
  failure is passed over twice for the same other tree.  The module's docstring
  calls the dispatch a tree-balanced LRU sampler.  It is one between steps.
* `ckpt_keep_one`.  Without best checkpoints and with one checkpoint to keep, the
  workers delete the old shards before they write the new ones, while the
  tracker still names the old folder; a comment in `_save_checkpoint` says that a
  resumable checkpoint exists at all times.
* `forest_resume`.  The freeze swaps its bounds if the second is smaller.  A process
  that resumes from the checkpoint of an epoch's last batch gets no batch from the
  dataloader, so the phase after the loop runs with the first step S + 1 and the
  last step S; swapped, the window takes the children of step S, which had all
  their passes before the checkpoint.  The docstring speaks of the nodes of one
  epoch.  `ReplaysAreBounded` proves that each such restart repeats the passes of a
  node at most once, and `ReplayedOnce` that a run without one keeps the promise.
  No choice of `save_freq` excludes such checkpoints, since an expiring plan and the
  best-checkpoint hook save after other steps too.
* `flat_groups`.  `_run_train_one_stage` rolls out each prompt of a batch
  `prefix_rollout_n` times and `_run_synthetic_entry` each injected prompt `rollout_n`
  times; the comment in `fit()` says it the other way round.  With
  equal sizes, the default, nothing shows.  The chain and forest modes use the
  same two methods.

More observations have no run of their own.

* After a restart in the middle of an epoch the window begins at the first step of
  the new process, so that children of the epoch's earlier steps, and those
  answered before the worker is told the new step, are in no window (`WindowIsEpoch`
  excludes them by `skipped = 0`).
* An empty pool is not pickled and an old pickle is not deleted, so one that a
  crashed process left in a folder, torn or whole, survives the save of that
  folder by a process whose pool is empty (`Checkpointing` models it with
  `emptyPools`); in `flat` it brings entries back that were trained.
* A prompt whose tree was removed comes back as one that was never used, and goes
  before the trees that wait; if prompts come back often enough, a tree
  may wait long (`WaitingIsServed` is about trees, not prompts).
* The pools are pickled one after the other: an entry that is annotated between
  the two dumps is in both (`InOnePlace` excludes both cases by `tracked.whole`).
* A new best step is saved, which rotates the old best folder away, before the
  record is rewritten.  A crash in between leaves a record whose folder is gone, and
  the resumed run protects that step and no longer the new one
  (`BestOnDiskUninterrupted` speaks of the first process).
* A force-cancelled task reports nothing: its work counts as `dropped` in `WorkIsKept`,
  and in the pools it would wait until a restart.  A teacher that hangs keeps the permits
  of its calls through their retries, so the worker may stand still with a full
  semaphore, which `WorkIsTaken` exempts.
* The branch point buffer evicts after sampling, so entries are sampled at an age
  of `max_age + 1`; its docstring says that they expire after `max_age` steps.  Carried
  through a run of another mode it is saved and loaded without ageing, so the first
  step of a third process, again in regular mode, may sample points that are
  older by the whole second run (`SampledAge` excludes that step; without its
  condition TLC finds it with `MaxRuns = 3`).
* The failed pool of legacy mode ages only when something fails.
* An annotation's informed prior takes the success rate of its parent as 0, though
  the parent may have been rolled out with success since it failed
  (`teacher_worker.py:199`).
* A loaded list is not cut to a `max_size` that was lowered in between.
* The priority mode of the failed pool promises a round-robin over prompts; with
  fetches of one entry each fetch begins a new round.  Its docstring says that old
  entries are never sampled; they are when the teacher drains the pool faster
  than it fills.
* Nothing in `fit()` calls `teacher_worker.stop()`: the thread is a daemon and ends
  with the process.

`TrackedIsWholeIfDurable` states the conditions under which the promise of the
comment does hold: automatic resumption, pools that are not empty, and either
best checkpoints or more than one to keep.  It is about the folder that the tracker
names.  The tracker itself is rewritten in place: a crash in between leaves it torn,
and the next start raises (`Fail`) even under these conditions.

## 6. Plan

Done: the forest with its training step, the chain, the worker, the checkpoints,
the flat pools with theirs, suffix synthesis, the partitions, and the TreeRL tree;
proofs about all of them.  What is left: the chain mode of `fit()` with its schedule,
as `ForestTraining` has it.

## 7. Not modelled

Generation itself, rewards and data preparation produce numbers and text; the
pools see an outcome of them, which the models choose freely.  So do the fitted
regression of the utility strategy and the log-probabilities that rank fork
places: both only weight a choice.  The advantage computation, loss and optimizer
are numeric.  The step-by-step agent loops with their tools (retriever, code
executor) keep no state beyond one rollout.

verl's runtime, engines, tools, other trainers and other recipes are inherited and
hold none of the state above; they are most of the repository's lines (the recipe
and the parts of `ray_trainer.py`, the checkpoint managers and the agent loop
that it changed are a small share), which is why the modelled share of all lines
stays small.  The request balancer of the rollout workers keeps a heap of
request counts that it never decrements and sticks a request id to a server; no
property of the recipe depends on it.  The critic and remote storage are left
out of checkpointing because GRPO uses no critic and the recipe saves locally.
Cancellation of the worker's `_async_main` from outside is left out because nothing
does it.
