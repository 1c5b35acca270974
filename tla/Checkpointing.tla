--------------------------- MODULE Checkpointing ---------------------------
(***************************************************************************)
(* Checkpoints of a training run: RayPPOTrainer.fit, _save_checkpoint,     *)
(* _maybe_save_best_checkpoint and _load_checkpoint of                     *)
(* verl/trainer/ppo/ray_trainer.py, find_latest_ckpt_path of               *)
(* verl/utils/checkpoint/checkpoint_manager.py, and the rotation in        *)
(* FSDPCheckpointManager.save_checkpoint.                                  *)
(*                                                                         *)
(* One save writes the actor's shards, the dataloader's state and the      *)
(* pools' pickles of one global_step_* folder, then the tracker file that  *)
(* names the folder, and then deletes old folders; a new best validation   *)
(* score triggers a save and then a record.  Every file is opened with     *)
(* truncation and written in place, so that each write is two actions, and *)
(* the process may crash between any two.  A file is abstracted to the     *)
(* number of the process that wrote it, 0 while it is torn.  A loader that *)
(* reads a torn file raises, and so does the load of missing shards.       *)
(* Left out: the critic, which GRPO does not use, and remote storage.      *)
(***************************************************************************)
EXTENDS Integers, FiniteSets, Sequences

CONSTANTS
  Configs,     \* the settings a run may have, see Setting
  TotalSteps,  \* total_training_steps
  MaxRuns,     \* bound: processes started, the first one included
  MaxScore     \* bound: validation scores are 1..MaxScore

Setting == [
  keep : Nat,             \* max_actor_ckpt_to_keep; 0 for None
  saveBest : BOOLEAN,     \* save_best_checkpoint
  saveFreq : Nat,         \* save_freq; 0 to save no periodic checkpoints
  testFreq : Nat,         \* test_freq; 0 to switch validation off
  resumePath : BOOLEAN,   \* a restart may have resume_mode = resume_path
  emptyPools : BOOLEAN]   \* pools may be empty when a checkpoint is saved

ASSUME CheckpointAssumption ==
  /\ Configs \subseteq Setting
  /\ TotalSteps \in Nat \ {0} /\ MaxRuns \in Nat \ {0} /\ MaxScore \in Nat

VARIABLES
  config,   \* the settings, the same in all runs
  \* on disk
  disk,     \* step |-> (file |-> the run that wrote it, 0 while torn)
  tracker,  \* latest_checkpointed_iteration.txt; step 0 before the first save
  record,   \* best_checkpoint.json; step 0 before the first best
  \* in the trainer's process
  pc,       \* where fit() is
  after,    \* where it goes on after _save_checkpoint
  run,      \* number of this process
  step,     \* global_steps
  last,     \* _last_checkpoint_step; 0 for None
  best,     \* _best_val_step and _best_val_score; step 0 for None
  shards    \* previous_saved_paths of the actor's workers, oldest first

files == <<disk, tracker, record>>
process == <<config, after, run, step, last, best, shards>>
vars == <<config, disk, tracker, record, pc, after, run, step, last, best, shards>>

-----------------------------------------------------------------------------
(* Values.  A run resumed at the last step trains one step more, so steps  *)
(* can pass TotalSteps by one for each restart.                            *)
Step == 1..(TotalSteps + MaxRuns)
File == {"actor", "data", "pools"}
Score == 1..MaxScore
None == [step |-> 0, score |-> 0]

Put(f, k, v) == [x \in DOMAIN f \cup {k} |-> IF x = k THEN v ELSE f[x]]
Without(f, S) == [x \in DOMAIN f \ S |-> f[x]]

IsLast == step >= TotalSteps
Due(freq) == freq > 0 /\ (IsLast \/ step % freq = 0)

\* Mutant: the workers rotate also when the best checkpoint is to be kept.
WorkerKeepAlways == config.keep

\* worker_max_actor_keep
WorkerKeep == IF config.saveBest THEN 0 ELSE config.keep

-----------------------------------------------------------------------------
Init ==
  /\ config \in Configs
  /\ disk = << >> /\ tracker = [step |-> 0, whole |-> TRUE]
  /\ record = [step |-> 0, score |-> 0, whole |-> TRUE]
  /\ pc = "down" /\ after = "none" /\ run = 0
  /\ step = 0 /\ last = 0 /\ best = None /\ shards = << >>

Goto(place) == pc' = place

\* The batch of a step: rollout, update, epoch-local phase.
Train ==
  /\ pc = "train" /\ Goto("validate")
  /\ UNCHANGED <<files, process>>

\* Validation, if it is due, and the beginning of _maybe_save_best_checkpoint.
\* The metric to compare may be missing.
Validate ==
  /\ pc = "validate"
  /\ \E score \in Score, found \in BOOLEAN :
       IF /\ Due(config.testFreq) /\ config.saveBest
          /\ found /\ (best.step = 0 \/ score > best.score)
         THEN /\ best' = [step |-> step, score |-> score]
              /\ Goto("save") /\ after' = "record"
         ELSE /\ Goto("periodic") /\ UNCHANGED <<best, after>>
  /\ UNCHANGED <<config, files, run, step, last, shards>>

\* The periodic save; a plan close to its expiration forces one.
Periodic ==
  /\ pc = "periodic"
  /\ \E esi \in BOOLEAN :
       IF config.saveFreq > 0 /\ (Due(config.saveFreq) \/ esi) THEN Goto("save") /\ after' = "next"
                               ELSE Goto("next") /\ UNCHANGED after
  /\ UNCHANGED <<config, files, run, step, last, best, shards>>

\* The end of a step.
NextStep ==
  /\ pc = "next"
  /\ step' = step + 1
  /\ IF IsLast THEN Goto("done") ELSE Goto("train")
  /\ UNCHANGED <<config, files, after, run, last, best, shards>>

-----------------------------------------------------------------------------
(* _save_checkpoint.                                                       *)

\* Mutant: the step just saved by the best-checkpoint hook is saved again.
AlreadySavedNever == FALSE

\* The step is already on disk.
AlreadySaved == last = step

\* How many of the workers' earlier saves go before the new one is written.
Expired == IF WorkerKeep > 0 /\ Len(shards) >= WorkerKeep THEN Len(shards) - WorkerKeep + 1 ELSE 0

\* The guard, and the rotation the workers do before they write.
SaveBegin ==
  /\ pc = "save"
  /\ IF AlreadySaved THEN Goto(after) /\ UNCHANGED <<disk, shards>>
     ELSE LET gone == {shards[i] : i \in 1..Expired} IN
          /\ Goto("actor")
          /\ disk' = [s \in DOMAIN disk |-> IF s \in gone THEN Without(disk[s], {"actor"}) ELSE disk[s]]
          /\ shards' = SubSeq(shards, Expired + 1, Len(shards))
  /\ UNCHANGED <<config, tracker, record, after, run, step, last, best>>

\* A file of this step's folder is opened for writing, and closed.
Folder == IF step \in DOMAIN disk THEN disk[step] ELSE << >>
Open(file) == disk' = Put(disk, step, Put(Folder, file, 0))
Close(file) == disk' = Put(disk, step, Put(Folder, file, run))

OpenActor ==
  /\ pc = "actor" /\ Open("actor") /\ Goto("actor+")
  /\ UNCHANGED <<tracker, record, process>>
CloseActor ==
  /\ pc = "actor+" /\ Close("actor") /\ Goto("data")
  /\ shards' = Append(shards, step)
  /\ UNCHANGED <<config, tracker, record, after, run, step, last, best>>
OpenData ==
  /\ pc = "data" /\ Open("data") /\ Goto("data+")
  /\ UNCHANGED <<tracker, record, process>>
CloseData ==
  /\ pc = "data+" /\ Close("data") /\ Goto("pools")
  /\ UNCHANGED <<tracker, record, process>>

\* Pools are pickled only if they are not empty.
OpenPools ==
  /\ pc = "pools"
  /\ \/ Open("pools") /\ Goto("pools+")
     \/ config.emptyPools /\ UNCHANGED disk /\ Goto("tracker")
  /\ UNCHANGED <<tracker, record, process>>
ClosePools ==
  /\ pc = "pools+" /\ Close("pools") /\ Goto("tracker")
  /\ UNCHANGED <<tracker, record, process>>

OpenTracker ==
  /\ pc = "tracker" /\ Goto("tracker+")
  /\ tracker' = [step |-> step, whole |-> FALSE]
  /\ UNCHANGED <<disk, record, process>>

CloseTracker ==
  /\ pc = "tracker+" /\ Goto("rotate")
  /\ tracker' = [step |-> step, whole |-> TRUE]
  /\ last' = step
  /\ UNCHANGED <<config, disk, record, after, run, step, best, shards>>

\* Mutant: step_dirs[Keep:], all but the oldest.
StaleNewest == {s \in DOMAIN disk : s <= step /\ Cardinality({t \in DOMAIN disk : t < s}) >= config.keep}

\* Mutant: one folder too many is kept.
StaleLate == {s \in DOMAIN disk : s <= step /\ Cardinality({t \in DOMAIN disk : s < t /\ t <= step}) > config.keep + 1}

\* step_dirs[:-Keep]: all but the newest Keep folders up to this step.
Stale == {s \in DOMAIN disk : s <= step /\ Cardinality({t \in DOMAIN disk : s < t /\ t <= step}) >= config.keep}

\* Whole folders are deleted, the best one excepted.
Rotate ==
  /\ pc = "rotate" /\ Goto(after)
  /\ disk' = IF config.keep = 0 THEN disk ELSE Without(disk, Stale \ {best.step})
  /\ UNCHANGED <<tracker, record, process>>

-----------------------------------------------------------------------------
(* The end of _maybe_save_best_checkpoint.                                 *)

OpenRecord ==
  /\ pc = "record" /\ Goto("record+")
  /\ record' = [step |-> best.step, score |-> best.score, whole |-> FALSE]
  /\ UNCHANGED <<disk, tracker, process>>

CloseRecord ==
  /\ pc = "record+" /\ Goto("periodic")
  /\ record' = [step |-> best.step, score |-> best.score, whole |-> TRUE]
  /\ UNCHANGED <<disk, tracker, process>>

-----------------------------------------------------------------------------
(* Crashes, and _load_checkpoint.                                          *)

Crash ==
  /\ pc \notin {"down", "failed", "done"} /\ Goto("down")
  /\ UNCHANGED <<files, process>>

\* find_latest_ckpt_path, or the folder the user names.
Found == ({tracker.step} \cap DOMAIN disk) \cup (IF config.resumePath THEN DOMAIN disk ELSE {})

\* The files of folder s load.
Loadable(s) == "actor" \in DOMAIN disk[s] /\ \A file \in DOMAIN disk[s] : disk[s][file] # 0

\* A process starts, finds no folder to load and begins at step 1.
Scratch ==
  /\ tracker.whole /\ tracker.step \notin DOMAIN disk
  /\ Goto("train") /\ step' = 1
  /\ last' = 0 /\ best' = None /\ shards' = << >> /\ after' = "none"

\* It loads a folder, and the record of the best step unless that lies ahead.
Resume ==
  /\ tracker.whole /\ record.whole
  /\ \E s \in Found :
       /\ Loadable(s)
       /\ Goto("train") /\ step' = s + 1
       /\ best' = IF record.step <= s THEN [step |-> record.step, score |-> record.score] ELSE None
  /\ last' = 0 /\ shards' = << >> /\ after' = "none"

\* A file it has to read is torn, or the shards are gone.
Fail ==
  /\ \/ ~tracker.whole
     \/ Found # {} /\ ~record.whole
     \/ \E s \in Found : ~Loadable(s)
  /\ Goto("failed") /\ UNCHANGED <<after, step, last, best, shards>>

Start ==
  /\ pc = "down" /\ run < MaxRuns /\ run' = run + 1
  /\ Scratch \/ Resume \/ Fail
  /\ UNCHANGED <<config, files>>

Next ==
  \/ Start \/ Train \/ Validate \/ Periodic \/ NextStep
  \/ SaveBegin \/ OpenActor \/ CloseActor \/ OpenData \/ CloseData \/ OpenPools \/ ClosePools
  \/ OpenTracker \/ CloseTracker \/ Rotate
  \/ OpenRecord \/ CloseRecord
  \/ Crash

Spec == Init /\ [][Next]_vars

-----------------------------------------------------------------------------
(* Properties.                                                             *)

\* The type invariant.
TypeOK ==
  /\ DOMAIN disk \subseteq Step
  /\ \A s \in DOMAIN disk : DOMAIN disk[s] \subseteq File /\ \A f \in DOMAIN disk[s] : disk[s][f] \in 0..MaxRuns
  /\ tracker \in [step : Step \cup {0}, whole : BOOLEAN]
  /\ record \in [step : Step \cup {0}, score : Score \cup {0}, whole : BOOLEAN]
  /\ pc \in {"down", "failed", "train", "validate", "periodic", "next", "save", "actor", "actor+", "data", "data+",
              "pools", "pools+", "tracker", "tracker+", "rotate", "record", "record+", "done"}
  /\ after \in {"none", "record", "next"} /\ run \in 0..MaxRuns
  /\ step \in Step \cup {0} /\ last \in Step \cup {0}
  /\ best \in [step : Step \cup {0}, score : Score \cup {0}]
  /\ shards \in Seq(Step)

\* "a complete, resumable checkpoint exists on disk at all times" (comment in
\* _save_checkpoint): from the first save on, at every moment, also within a
\* save, the folder the tracker names loads.
TrackedIsWhole == tracker.step # 0 => tracker.step \in DOMAIN disk /\ Loadable(tracker.step)

\* That holds with automatic resumption and pools that are not empty, unless
\* the workers rotate and keep one save only.
Durable == ~config.resumePath /\ ~config.emptyPools /\ (config.saveBest \/ config.keep # 1)
TrackedIsWholeIfDurable == Durable => TrackedIsWhole

\* Retention: once a process has saved, at most the newest Keep folders and
\* the best one are left of the steps it has passed, whatever earlier
\* processes had written there.
RetentionHolds ==
  (config.keep > 0 /\ pc = "train" /\ last # 0)
    => Cardinality({s \in DOMAIN disk : s <= last}) <= config.keep + (IF config.saveBest THEN 1 ELSE 0)

\* "keeps the best-scoring step alongside the newest one; the best step and
\* score are recorded" (README): between steps the folder of the best step
\* the process knows is on disk with its shards, and the record names it.
BestOnDisk ==
  (pc = "train" /\ best.step # 0)
    => /\ best.step \in DOMAIN disk /\ Loadable(best.step)
       /\ record = [step |-> best.step, score |-> best.score, whole |-> TRUE]

\* And so it is in a run that is not interrupted, whatever rotation deletes.
BestOnDiskUninterrupted == run = 1 => BestOnDisk

\* The abstract store, for automatic resumption: the last step a process has
\* completed, and the step in the tracker file, torn or not.
Completed ==
  IF pc \in {"down", "failed"} THEN tracker.step
  ELSE IF pc \in {"train", "done"} THEN step - 1 ELSE step

Store == INSTANCE CheckpointStore
           WITH position <- IF config.resumePath THEN 0 ELSE Completed,
                durable <- IF config.resumePath THEN 0 ELSE tracker.step

\* A restart continues from the last step that was made durable, and nothing
\* but a completed save makes a step durable.
ImplementsStore == Store!StoreSpec
=============================================================================
