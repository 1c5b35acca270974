--------------------------- MODULE ForestTraining ---------------------------
(***************************************************************************)
(* The prefix forest under the schedule that really drives it: the forest  *)
(* branch of RayPPOTrainer.fit in verl/trainer/ppo/ray_trainer.py, with    *)
(* its suffix replay in both schedules, the forest-mode tasks of           *)
(* teacher_worker.py, and checkpoints of the pool with crashes.            *)
(*                                                                         *)
(* A step of the trainer is one call of a pool method, with the trainer's  *)
(* own computation up to the next call; between any two of them the        *)
(* worker's thread may act.  The worker passes its copy of the step to     *)
(* on_teacher_response and reads it before the call gets the pool's lock,  *)
(* so reading and answering are two steps.                                 *)
(*                                                                         *)
(* The dataloader is external: it yields epochLen batches in an epoch and, *)
(* loaded from a checkpoint, goes on behind the last batch it had yielded; *)
(* total_epochs are enough for all steps.  A checkpoint is taken and       *)
(* loaded whole here; how it becomes whole on disk is the subject of       *)
(* Checkpointing.                                                          *)
(***************************************************************************)
EXTENDS PrefixForestPool

CONSTANTS
  Settings,    \* settings of a run to consider
  MaxRestarts  \* bound: crashes

\* suffix_sft_maturation.schedule, or "off" if suffix SFT is disabled;
\* len(train_dataloader); total_training_steps; epoch_passes; save_freq, 0
\* for none; test_freq if the best checkpoint is kept, otherwise 0; whether
\* the server's plan may come close to its expiration.
SettingType == [schedule : {"off", "post_step", "epoch_local"}, epochLen : Nat \ {0},
                totalSteps : Nat \ {0}, passes : Nat \ {0}, saveFreq : Nat, bestFreq : Nat, expires : BOOLEAN]

ASSUME TrainingAssumption ==
  /\ Settings \subseteq SettingType
  /\ \A c \in Settings : c.totalSteps + MaxRestarts < MaxStep
  /\ \A c \in Settings : c.schedule # "off" => SftSlots > 0  \* teacher_mini_batch_size
  /\ MaxRestarts \in Nat

VARIABLES
  setting,     \* the configuration of this run
  pc,          \* the next pool call of fit()
  after,       \* where fit() goes on after an epoch-local phase
  quota,       \* nodes to ask for, counted before they are sampled
  feed,        \* prompts of the batch whose outcome is still to be recorded
  todo,        \* trained routes still to be recorded
  left,        \* routes of the snapshot that this pass has not trained yet
  pass,        \* passes over the snapshot begun
  yielded,     \* batches the dataloader has yielded of its epoch
  skipped,     \* those of them an earlier process consumed
  epochStart,  \* epoch_start_step
  bornBefore,  \* history: node ids given out when the epoch began
  workerStep,  \* the worker's _current_step
  read,        \* event |-> the step the worker read for its answer
  saved,       \* the last checkpoint
  restarts,    \* crashes so far
  ends         \* history: restarts that found their epoch used up

loopVars == <<yielded, skipped, epochStart, bornBefore>>
stepVars == <<quota, feed>>
replayVars == <<after, todo, left, pass>>
workerVars == <<workerStep, read>>
runVars == <<setting, saved, restarts, ends>>
trainingVars == <<vars, pc, loopVars, stepVars, replayVars, workerVars, runVars>>

-----------------------------------------------------------------------------
Goto(place) == pc' = place

\* is_last_step
IsLastStep == step >= setting.totalSteps

\* is_epoch_last_batch: batch_idx counts from 0 in every process.
IsEpochLastBatch == yielded - skipped >= setting.epochLen

\* A checkpoint of this state.  A forest without trees is not written, so
\* that its counters begin again.
Snapshot ==
  [trees |-> trees, nodes |-> nodes, events |-> events, queue |-> queue,
   nodeCount |-> IF trees = << >> THEN 0 ELSE nodeCount,
   count |-> IF trees = << >> THEN [c \in Counters |-> 0] ELSE count,
   step |-> step, yielded |-> yielded]

TrainingInit ==
  /\ Init
  /\ setting \in Settings
  /\ pc = "start" /\ after = "save"
  /\ quota = 0 /\ feed = {} /\ todo = {} /\ left = {} /\ pass = 0
  /\ yielded = 0 /\ skipped = 0 /\ epochStart = 0 /\ bornBefore = 0
  /\ workerStep = 0 /\ read = << >>
  /\ saved = Snapshot /\ restarts = 0 /\ ends = 0

-----------------------------------------------------------------------------
(* The loops of fit().                                                     *)

\* An epoch of the for loop begins with the dataloader where it stands.
BeginEpoch(s, consumed) ==
  /\ epochStart' = s /\ bornBefore' = nodeCount
  /\ yielded' = consumed /\ skipped' = consumed
  /\ Goto("batch")

\* "we start from step 1": of the first process or after the loaded step.
Start ==
  /\ pc = "start"
  /\ NextStep /\ BeginEpoch(step + 1, yielded)
  /\ UNCHANGED <<stepVars, replayVars, workerVars, runVars>>

MoreBatches == yielded < setting.epochLen

\* The next batch, and the clean-up before anything is sampled.
Batch ==
  /\ pc = "batch" /\ MoreBatches
  /\ yielded' = yielded + 1
  /\ CleanupInactiveTrees
  /\ Goto("count")
  /\ UNCHANGED <<skipped, epochStart, bornBefore, stepVars, replayVars, workerVars, runVars>>

\* Mutant: the trees are counted, ready or not.
TreesToSample == DOMAIN trees

\* prefix_injection_ready_trees_count
TreesReady == ReadyTrees

\* target_synth
Count ==
  /\ pc = "count"
  /\ quota' = AtMost(InjectSlots, TreesReady)
  /\ Goto("sample")
  /\ UNCHANGED <<vars, loopVars, feed, replayVars, workerVars, runVars>>

SampleBatch ==
  /\ pc = "sample"
  /\ IF quota > 0 THEN Sample(quota) ELSE UNCHANGED vars
  /\ Goto("publish")
  /\ UNCHANGED <<loopVars, stepVars, replayVars, workerVars, runVars>>

\* Mutant: the worker is told the step that comes next.
CurrentStepAhead == step + 1

\* The argument of update_current_step.
CurrentStep == step

\* update_current_step, then the rollout of the batch with what was sampled.
Publish ==
  /\ pc = "publish"
  /\ workerStep' = CurrentStep
  /\ feed' \in SUBSET Prompt
  /\ Goto("nodes")
  /\ UNCHANGED <<vars, loopVars, quota, replayVars, read, runVars>>

\* The outcomes of the injected nodes.  A group without rewards is skipped.
RecordNode ==
  /\ pc = "nodes"
  /\ \E r \in lent, o \in Outcomes : RecordObservation(r[1], r[2], o[1], o[2])
  /\ UNCHANGED <<pc, loopVars, stepVars, replayVars, workerVars, runVars>>

\* The outcomes of the prompts themselves, merged per prompt.
RecordRoot ==
  /\ pc \in {"nodes", "roots"} /\ Goto("roots")
  /\ \E k \in feed, o \in Outcomes :
       /\ feed' = feed \ {k}
       /\ k \in DOMAIN trees \/ nodeCount < MaxNodes \/ o[2] = 0
       /\ RecordRootObservation(k, o[1], o[2])
  /\ UNCHANGED <<loopVars, quota, replayVars, workerVars, runVars>>

Tidy ==
  /\ pc \in {"nodes", "roots"} /\ feed = {}
  /\ CleanupInactiveTrees
  /\ Goto(IF setting.schedule = "post_step" THEN "ready" ELSE "update")
  /\ UNCHANGED <<loopVars, stepVars, replayVars, workerVars, runVars>>

-----------------------------------------------------------------------------
(* Replay after each step: _sample_current_forest_suffix_sft_batch, the    *)
(* filter for stale rows, and the record after update_actor.               *)

\* Full mini-batches only, of distinct trees; max_batches_per_step is 1.
CountReplay ==
  /\ pc = "ready"
  /\ quota' = IF Cardinality(SftReadyTrees) >= SftSlots THEN SftSlots ELSE 0
  /\ Goto("replay")
  /\ UNCHANGED <<vars, loopVars, feed, replayVars, workerVars, runVars>>

SampleReplay ==
  /\ pc = "replay"
  /\ IF quota > 0 THEN SampleSuffixSft(quota) ELSE UNCHANGED vars
  /\ Goto("update")
  /\ UNCHANGED <<loopVars, stepVars, replayVars, workerVars, runVars>>

Trainable(routes) == {r \in routes : SftTrainable(r[1], r[2])}

\* Stale rows are dropped, then what is no full mini-batch; the rest counts
\* only if all workers took the step.
Update ==
  /\ pc = "update"
  /\ \E succeeded \in BOOLEAN :
       todo' = IF /\ setting.schedule = "post_step" /\ succeeded
                  /\ Cardinality(Trainable(sftLent)) = SftSlots
               THEN sftLent ELSE {}
  /\ Goto("record")
  /\ UNCHANGED <<vars, loopVars, stepVars, after, left, pass, workerVars, runVars>>

Record ==
  /\ pc \in {"record", "passes"}
  /\ \E r \in todo : RecordSuffixSft(r[1], r[2]) /\ todo' = todo \ {r}
  /\ UNCHANGED <<pc, loopVars, stepVars, after, left, pass, workerVars, runVars>>

-----------------------------------------------------------------------------
(* _run_epoch_local_suffix_sft_phase                                       *)

\* freeze_suffix_sft_epoch_and_clear_teacher_events puts the two ends of the
\* epoch in order first.
Freeze(lo, hi) ==
  /\ ClearTeacherEvents
  /\ sftLent' = IF hi < lo THEN FrozenRoutes(hi, lo) ELSE FrozenRoutes(lo, hi)
  /\ Goto("sweep")
  /\ UNCHANGED <<stepVars, todo, left, pass, workerVars, runVars>>

\* The step ends.  The phase runs if this looks like the epoch's last batch.
EndStep ==
  /\ pc = "record" /\ todo = {}
  /\ IF setting.schedule = "epoch_local" /\ (IsEpochLastBatch \/ IsLastStep)
     THEN Freeze(epochStart, step) /\ after' = "save"
     ELSE /\ Goto("save")
          /\ UNCHANGED <<vars, stepVars, replayVars, workerVars, runVars>>
  /\ UNCHANGED loopVars

\* The dataloader is exhausted.  The phase runs here if it did not run in the
\* loop, as in an epoch that began with batches skipped.
EndEpoch ==
  /\ pc = "batch" /\ ~MoreBatches
  /\ IF setting.schedule = "epoch_local" /\ ~IsEpochLastBatch
     THEN Freeze(epochStart, step - 1) /\ after' = "epoch" /\ UNCHANGED loopVars
     ELSE /\ BeginEpoch(step, 0)
          /\ UNCHANGED <<vars, stepVars, replayVars, workerVars, runVars>>

\* After the phase at the end of an epoch.
NewEpoch ==
  /\ pc = "epoch"
  /\ BeginEpoch(step, 0)
  /\ UNCHANGED <<vars, stepVars, replayVars, workerVars, runVars>>

TreesOf(routes) == {r[1] : r \in routes}

\* Mutant: the trees that only waited for answers stay.
SweepNothing ==
  /\ UNCHANGED vars

\* cleanup_inactive_trees
SweepTrees == CleanupInactiveTrees

\* The clean-up after the freeze, and the test for a full mini-batch.
Sweep ==
  /\ pc = "sweep"
  /\ SweepTrees
  /\ IF Cardinality(TreesOf(sftLent)) < SftSlots
     THEN Goto(after) /\ UNCHANGED <<left, pass>>
     ELSE Goto("passes") /\ left' = sftLent /\ pass' = 1
  /\ UNCHANGED <<after, todo, loopVars, stepVars, workerVars, runVars>>

\* _iter_epoch_local_suffix_sft_batches: mini-batches of distinct trees.
MiniBatches == {b \in SUBSET left : /\ Cardinality(b) = SftSlots
                                    /\ Cardinality(TreesOf(b)) = Cardinality(b)}

\* _run_forest_suffix_sft_teacher_only_update: nothing is trained unless all
\* routes still are trainable, or recorded unless all workers took the step.
TrainMiniBatch ==
  /\ pc = "passes" /\ todo = {}
  /\ \E b \in MiniBatches :
       /\ left' = left \ b
       /\ IF Trainable(b) = b
          THEN /\ MarkSuffixSftSampled(b)
               /\ \E succeeded \in BOOLEAN : todo' = IF succeeded THEN b ELSE {}
          ELSE UNCHANGED <<vars, todo>>
  /\ UNCHANGED <<pc, loopVars, stepVars, after, pass, workerVars, runVars>>

NextPass ==
  /\ pc = "passes" /\ todo = {} /\ MiniBatches = {}
  /\ IF pass < setting.passes
     THEN left' = sftLent /\ pass' = pass + 1 /\ UNCHANGED pc
     ELSE left' = {} /\ pass' = 0 /\ Goto(after)
  /\ UNCHANGED <<vars, loopVars, stepVars, after, todo, workerVars, runVars>>

-----------------------------------------------------------------------------
(* Checkpoints.                                                            *)

Due(freq) == freq > 0 /\ (IsLastStep \/ step % freq = 0)

\* A checkpoint is written in every save_freq-th step, before the plan
\* expires, and with each new best score of a validation.
IsSaved(expiring, better) ==
  \/ Due(setting.saveFreq)
  \/ setting.saveFreq > 0 /\ setting.expires /\ expiring
  \/ Due(setting.bestFreq) /\ better

\* The best checkpoint comes first, and the step is then not saved again; no
\* call of the trainer lies between the two places.  After the last crash of
\* the model nothing is loaded and nothing need be kept.
Save ==
  /\ pc = "save" /\ Goto("next")
  /\ \E expiring, better \in BOOLEAN :
       saved' = IF restarts < MaxRestarts /\ IsSaved(expiring, better) THEN Snapshot ELSE saved
  /\ UNCHANGED <<vars, loopVars, stepVars, replayVars, workerVars, setting, restarts, ends>>

\* global_steps += 1, and out of the loop after the last step.
Advance ==
  /\ pc = "next"
  /\ NextStep
  /\ Goto(IF IsLastStep THEN "done" ELSE "batch")
  /\ UNCHANGED <<loopVars, stepVars, replayVars, workerVars, runVars>>

\* Mutant: an event stays in flight although its task died.
SavedEvents == saved.events

\* load_state_dict keeps the events of the trees and makes each of them
\* dispatchable again.
RestoredEvents ==
  [e \in {d \in DOMAIN saved.events : saved.events[d].tree \in DOMAIN saved.trees} |->
     [saved.events[e] EXCEPT !.inFlight = FALSE]]

\* _repair_event_queues_locked: events in no queue join their tree's, and ids
\* that are no events go.
RepairedQueue ==
  [k \in Prompt |->
     {e \in DOMAIN RestoredEvents :
        \/ e \in saved.queue[k]
        \/ RestoredEvents[e].tree = k /\ \A j \in Prompt : e \notin saved.queue[j]}]

\* load_state_dict, and what the new process does not remember.
Restored ==
  /\ trees' = saved.trees /\ nodes' = saved.nodes /\ nodeCount' = saved.nodeCount
  /\ events' = RestoredEvents /\ queue' = RepairedQueue /\ count' = saved.count
  /\ step' = saved.step
  /\ owed' = {} /\ lent' = {} /\ sftLent' = {}

\* The process dies anywhere; the next one loads the last checkpoint.  Without
\* one it begins as TrainingInit does.  After the last step it trains one more.
Restart ==
  /\ restarts < MaxRestarts /\ restarts' = restarts + 1
  /\ pc # "done" /\ saved.step > 0
  /\ ends' = IF saved.yielded >= setting.epochLen THEN ends + 1 ELSE ends
  /\ Restored
  /\ yielded' = saved.yielded /\ skipped' = 0 /\ epochStart' = 0 /\ bornBefore' = 0
  /\ workerStep' = saved.step /\ read' = << >>
  /\ after' = "save" /\ quota' = 0 /\ feed' = {} /\ todo' = {} /\ left' = {} /\ pass' = 0
  /\ Goto("start")
  /\ UNCHANGED <<setting, saved>>

-----------------------------------------------------------------------------
(* The worker's forest tasks.                                              *)

\* _fetch_next_work.  The stamp only orders later dispatches.
Fetch ==
  /\ PendingTeacherRequests(DispatchSlots, workerStep)
  /\ UNCHANGED workerVars

\* The annotation is there and the arguments of on_teacher_response are made.
ReadStep ==
  /\ \E e \in owed \ DOMAIN read : read' = Put(read, e, workerStep)
  /\ UNCHANGED <<vars, workerStep>>

Respond ==
  /\ \E e \in DOMAIN read, a \in Answers :
       /\ Verdict(e, a) = {"success"} => nodeCount < MaxNodes
       /\ OnTeacherResponse(e, a, read[e])
       /\ read' = Without(read, {e})
  /\ UNCHANGED workerStep

TrainerStep ==
  \/ Start \/ Batch \/ Count \/ SampleBatch \/ Publish
  \/ RecordNode \/ RecordRoot \/ Tidy
  \/ CountReplay \/ SampleReplay \/ Update \/ Record
  \/ EndStep \/ EndEpoch \/ NewEpoch \/ Sweep \/ TrainMiniBatch \/ NextPass
  \/ Save \/ Advance

WorkerStep ==
  /\ pc # "done"
  /\ Fetch \/ ReadStep \/ Respond
  /\ UNCHANGED <<pc, loopVars, stepVars, replayVars, runVars>>

Done == pc = "done" /\ UNCHANGED trainingVars

TrainingNext == TrainerStep \/ WorkerStep \/ Restart \/ Done

TrainingSpec == TrainingInit /\ [][TrainingNext]_trainingVars

-----------------------------------------------------------------------------
(* Properties.                                                             *)

Places == {"start", "batch", "count", "sample", "publish", "nodes", "roots", "ready", "replay",
           "update", "record", "sweep", "passes", "epoch", "save", "next", "done"}

\* The trainer's and the worker's own variables stay in range; in particular
\* no more batches are drawn than an epoch has, and the worker never is ahead.
TrainingTypeOK ==
  /\ setting \in Settings /\ pc \in Places /\ after \in {"save", "epoch"}
  /\ quota \in Nat /\ feed \subseteq Prompt
  /\ todo \subseteq sftLent /\ left \subseteq sftLent /\ pass \in 0..setting.passes
  /\ yielded \in 0..setting.epochLen /\ skipped \in 0..yielded
  /\ epochStart \in 0..step /\ bornBefore \in 0..nodeCount
  /\ workerStep \in 0..step /\ DOMAIN read \subseteq owed
  /\ \A e \in DOMAIN read : read[e] \in 0..workerStep
  /\ restarts \in 0..MaxRestarts /\ ends \in 0..restarts

\* What PrefixForestPool shows of any client holds of this one: every step of
\* the trainer and the worker is a step of the most general client, and only
\* a restart is not.
IsPoolClient == [][Next \/ Restored]_vars

\* What the trainer counted is still there when it asks for it, although the
\* worker acts in between: the assertion in
\* _sample_current_forest_suffix_sft_batch never fails and target_synth nodes
\* are really injected.
CountsStillHold ==
  /\ pc = "sample" => quota <= Cardinality(Eligible)
  /\ pc = "replay" => quota <= Cardinality(SftReadyTrees)

\* What was sampled or frozen for replay is still trainable when its turn
\* comes, passes later: no mini-batch is dropped as stale.
ReplayStaysTrainable ==
  \/ pc \in {"update", "record"} /\ setting.schedule = "post_step"
  \/ pc \in {"sweep", "passes"}
  => \A r \in sftLent : SftTrainable(r[1], r[2])

\* The trainer plans ahead of what it does; the worker never spoils a plan.
PlansStillHold == CountsStillHold /\ ReplayStaysTrainable

\* A frozen epoch leaves no teacher work and no tree without a hard state, and
\* the answers that come back during its replay bring neither.
PhaseSweepsClean ==
  pc \in {"passes", "epoch"} =>
    events = << >> /\ \A k \in DOMAIN trees : \E n \in NodesOf(k) : nodes[n].active

\* In epoch-local replay the window of an epoch is the epoch: exactly the
\* children inserted since it began carry a step of it, although the worker
\* stamps them with its own, older copy of the step.  An epoch that a
\* restarted process continues has no such claim on its first children.
WindowIsEpoch ==
  setting.schedule = "epoch_local" /\ pc # "start" =>
    \A n \in DOMAIN nodes : nodes[n].parent # NoParent =>
      /\ nodes[n].created >= epochStart => n > bornBefore
      /\ skipped = 0 /\ n > bornBefore => nodes[n].created >= epochStart

\* Freezing takes the nodes of one epoch, so that over the whole run, crashes
\* included, each node is trained at most once in each of the passes.
ReplayedInOneEpoch ==
  setting.schedule = "epoch_local" => \A n \in DOMAIN nodes : nodes[n].sftUpdates <= setting.passes

\* What is left of that when a process goes on from a checkpoint that is as old
\* as its epoch: each such restart can repeat the passes of a node once, and
\* no other course of steps, answers, checkpoints and crashes does.
AgainOnlyFromTheEnd ==
  setting.schedule = "epoch_local" =>
    \A n \in DOMAIN nodes : nodes[n].sftUpdates <= (1 + ends) * setting.passes
=============================================================================
