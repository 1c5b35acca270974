------------------------ MODULE ForestTraining_proofs ------------------------
(***************************************************************************)
(* Proofs about ForestTraining, for every dataset, schedule of checkpoints *)
(* and number of restarts.  The invariant of PrefixForestPool carries over *)
(* from its general client to the schedule of fit() and its worker, and    *)
(* across restarts; what the schedule promises beyond it is built on that. *)
(***************************************************************************)
EXTENDS ForestTraining, PrefixForestPool_proofs

Schedule(s) == setting.schedule = s

-----------------------------------------------------------------------------
(* Where fit() is.                                                         *)

\* What the place in fit() says about its variables.
Control ==
  /\ pc # "passes" => left = {}
  /\ pc \notin {"record", "passes"} => todo = {}
  /\ pc = "record" /\ todo # {} => Schedule("post_step")
  /\ pc \in {"ready", "replay"} => Schedule("post_step")
  /\ pc \in {"sweep", "passes", "epoch"} => Schedule("epoch_local")
  /\ pc = "epoch" => after = "epoch"
  /\ pc = "passes" => pass > 0
  /\ pc = "sample" => quota \in 0..InjectSlots
  /\ pc = "replay" => quota \in {0, SftSlots}
  /\ pc \notin {"start", "batch", "sweep", "passes", "epoch"} => yielded > 0
  /\ pc \in {"sweep", "passes"} /\ after = "save" => yielded > 0

\* And the checkpoint about the dataloader.
SavedLoader ==
  /\ saved.yielded \in 0..setting.epochLen /\ saved.nodeCount \in Nat /\ saved.step \in Nat
  /\ saved.step > 0 => saved.yielded > 0

Flow == TrainingTypeOK /\ Control /\ SavedLoader

LEMMA Typing ==
  ASSUME TypeOK, Flow
  PROVE  /\ step \in Nat /\ nodeCount \in Nat /\ workerStep \in Nat /\ epochStart \in Nat /\ pass \in Nat
         /\ setting \in SettingType /\ setting.epochLen \in Nat \ {0} /\ setting.passes \in Nat \ {0}
         /\ setting.totalSteps \in Nat \ {0} /\ setting.totalSteps < MaxStep
         /\ yielded \in Nat /\ skipped \in Nat /\ MaxRestarts \in Nat /\ restarts \in Nat
         /\ InjectSlots \in Nat /\ SftSlots \in Nat /\ bornBefore \in Nat
         /\ setting.schedule # "off" => SftSlots > 0
BY TrainingAssumption, PoolAssumption
   DEF TypeOK, Flow, TrainingTypeOK, TrainingAssumption, PoolAssumption, SettingType

\* AtMost is the smaller of a number and the size of a finite set.
LEMMA AtMostBound ==
  ASSUME NEW n \in Nat, NEW S, IsFiniteSet(S)
  PROVE  AtMost(n, S) \in 0..n /\ AtMost(n, S) <= Cardinality(S) /\ Cardinality(S) \in Nat
<1> DEFINE c == Cardinality(S)
<1>1. c \in Nat
  BY FS_CardinalityType
<1>2. AtMost(n, S) = IF n <= c THEN n ELSE c
  BY DEF AtMost
<1> HIDE DEF c
<1>3. AtMost(n, S) \in 0..n /\ AtMost(n, S) <= c
  BY <1>1, <1>2
<1> QED BY <1>1, <1>3 DEF c

LEMMA TreesFinite ==
  ASSUME TypeOK
  PROVE  IsFiniteSet(DOMAIN trees) /\ IsFiniteSet(ReadyTrees) /\ IsFiniteSet(SftReadyTrees) /\ IsFiniteSet(Eligible)
<1>1. IsFiniteSet(DOMAIN trees)
  BY PoolAssumption, FS_Subset DEF TypeOK, PoolAssumption
<1>2. ReadyTrees \subseteq DOMAIN trees /\ SftReadyTrees \subseteq DOMAIN trees /\ Eligible \subseteq DOMAIN trees
  BY DEF ReadyTrees, SftReadyTrees, Eligible
<1> QED BY <1>1, <1>2, FS_Subset

-----------------------------------------------------------------------------
(* Every step but a restart is one of the pool's client.                   *)

Steps == TrainerStep \/ WorkerStep \/ UNCHANGED trainingVars

LEMMA StepsAre == ASSUME [TrainingNext]_trainingVars PROVE Steps \/ Restart
BY DEF TrainingNext, Steps, Done

LEMMA IsClientStep ==
  ASSUME TypeOK, Flow, Steps
  PROVE  ClientStep
<1>0. InjectSlots \in Nat /\ SftSlots \in Nat /\ left \subseteq sftLent /\ todo \subseteq sftLent
  BY Typing DEF Flow, TrainingTypeOK
<1>1. CASE UNCHANGED vars
  BY <1>1 DEF ClientStep
<1>2. CASE Start \/ Advance \/ Batch \/ Tidy \/ Sweep
  BY <1>2 DEF Start, Advance, Batch, Tidy, Sweep, SweepTrees, ClientStep
<1>3. CASE SampleBatch
  <2>1. quota \in 0..InjectSlots
    BY <1>3 DEF SampleBatch, Flow, Control
  <2>2. quota > 0 => quota \in 1..InjectSlots
    BY <1>0, <2>1
  <2> QED BY <1>1, <1>3, <2>2 DEF SampleBatch, ClientStep
<1>4. CASE RecordNode \/ RecordRoot
  BY <1>4 DEF RecordNode, RecordRoot, ClientStep, Flow, TrainingTypeOK
<1>5. CASE SampleReplay
  BY <1>1, <1>5 DEF SampleReplay, Flow, Control, ClientStep
<1>6. CASE Record
  BY <1>0, <1>6 DEF Record, ClientStep
<1>7. CASE EndStep \/ EndEpoch
  <2>1. \A lo, hi : Freeze(lo, hi) => ClientStep
    BY DEF Freeze, ClientStep
  <2> QED BY <1>1, <1>7, <2>1 DEF EndStep, EndEpoch
<1>8. CASE TrainMiniBatch
  <2>1. PICK b \in MiniBatches : MarkSuffixSftSampled(b) \/ UNCHANGED vars
    BY <1>8 DEF TrainMiniBatch
  <2>2. b \in FullBatches
    BY <1>0 DEF MiniBatches, FullBatches
  <2> QED BY <1>1, <2>1, <2>2 DEF ClientStep
<1>9. CASE WorkerStep
  <2>1. workerStep \in TeacherSteps /\ \A e \in DOMAIN read : e \in owed /\ read[e] \in TeacherSteps
    BY Typing DEF Flow, TrainingTypeOK, TeacherSteps
  <2>2. CASE Fetch
    BY <2>1, <2>2 DEF Fetch, ClientStep
  <2>3. CASE ReadStep
    BY <1>1, <2>3 DEF ReadStep
  <2>4. CASE Respond
    BY <2>1, <2>4 DEF Respond, ClientStep
  <2> QED BY <1>9, <2>2, <2>3, <2>4 DEF WorkerStep
<1>10. CASE Count \/ Publish \/ CountReplay \/ Update \/ NewEpoch \/ NextPass \/ Save \/ UNCHANGED trainingVars
  BY <1>1, <1>10 DEF Count, Publish, CountReplay, Update, NewEpoch, NextPass, Save, trainingVars
<1> QED BY <1>2, <1>3, <1>4, <1>5, <1>6, <1>7, <1>8, <1>9, <1>10 DEF Steps, TrainerStep

-----------------------------------------------------------------------------
(* The invariant about fit()'s place is inductive.                         *)

LEMMA InitFlow == TrainingInit => Flow
BY TrainingAssumption, PoolAssumption
   DEF TrainingInit, Init, Flow, TrainingTypeOK, Control, SavedLoader, Snapshot, Places,
       TrainingAssumption, PoolAssumption, SettingType

LEMMA NextFlow ==
  ASSUME TypeOK, Flow, Steps \/ Restart
  PROVE  Flow'
<1> USE DEF Goto
<1>0. /\ step \in Nat /\ nodeCount \in Nat /\ workerStep \in Nat /\ epochStart \in Nat /\ pass \in Nat
      /\ setting.epochLen \in Nat \ {0} /\ setting.passes \in Nat \ {0}
      /\ yielded \in Nat /\ skipped \in Nat /\ MaxRestarts \in Nat /\ restarts \in Nat
      /\ InjectSlots \in Nat /\ SftSlots \in Nat /\ bornBefore \in Nat
  BY Typing
<1> DEFINE Kept == UNCHANGED <<sftLent, owed, step, nodeCount>>
<1>1. CASE Start
  BY <1>0, <1>1 DEF Start, BeginEpoch, NextStep, poolVars, stepVars, replayVars, workerVars, runVars,
         Flow, TrainingTypeOK, Control, SavedLoader, Places
<1>2. CASE Batch
  BY <1>0, <1>2 DEF Batch, MoreBatches, CleanupInactiveTrees, stepVars, replayVars, workerVars, runVars,
         Flow, TrainingTypeOK, Control, SavedLoader, Places
<1>3. CASE Count
  <2>1. AtMost(InjectSlots, TreesReady) \in 0..InjectSlots
    BY <1>0, TreesFinite, AtMostBound DEF TreesReady
  <2> QED BY <1>0, <1>3, <2>1 DEF Count, vars, loopVars, replayVars, workerVars, runVars,
         Flow, TrainingTypeOK, Control, SavedLoader, Places
<1>4. CASE SampleBatch
  <2>1. Kept
    BY <1>4 DEF SampleBatch, Sample, SampleEffect, vars
  <2> QED BY <1>0, <1>4, <2>1 DEF SampleBatch, loopVars, stepVars, replayVars, workerVars, runVars,
         Flow, TrainingTypeOK, Control, SavedLoader, Places
<1>5. CASE Publish
  BY <1>0, <1>5 DEF Publish, CurrentStep, vars, loopVars, replayVars, runVars,
         Flow, TrainingTypeOK, Control, SavedLoader, Places
<1>6. CASE RecordNode
  <2>1. UNCHANGED <<sftLent, owed, step, nodeCount>>
    BY <1>6 DEF RecordNode, RecordObservation, poolVars
  <2> QED BY <1>0, <1>6, <2>1 DEF RecordNode, loopVars, stepVars, replayVars, workerVars, runVars,
         Flow, TrainingTypeOK, Control, SavedLoader, Places
<1>7. CASE RecordRoot
  <2>1. UNCHANGED <<sftLent, owed, step>> /\ (nodeCount' = nodeCount \/ nodeCount' = nodeCount + 1)
    BY <1>7 DEF RecordRoot, RecordRootObservation, poolVars
  <2>2. feed' \subseteq Prompt
    BY <1>7 DEF RecordRoot, Flow, TrainingTypeOK
  <2> QED BY <1>0, <1>7, <2>1, <2>2 DEF RecordRoot, loopVars, replayVars, workerVars, runVars,
         Flow, TrainingTypeOK, Control, SavedLoader, Places
<1>8. CASE Tidy
  BY <1>0, <1>8 DEF Tidy, CleanupInactiveTrees, loopVars, stepVars, replayVars, workerVars, runVars,
         Flow, TrainingTypeOK, Control, SavedLoader, Places, Schedule
<1>9. CASE CountReplay
  BY <1>0, <1>9 DEF CountReplay, vars, loopVars, replayVars, workerVars, runVars,
         Flow, TrainingTypeOK, Control, SavedLoader, Places, Schedule
<1>10. CASE SampleReplay
  <2>1. UNCHANGED <<owed, step, nodeCount>>
    BY <1>10 DEF SampleReplay, SampleSuffixSft, vars
  <2>2. todo = {} /\ left = {}
    BY <1>10 DEF SampleReplay, Flow, Control
  <2> QED BY <1>0, <1>10, <2>1, <2>2 DEF SampleReplay, loopVars, stepVars, replayVars, workerVars, runVars,
         Flow, TrainingTypeOK, Control, SavedLoader, Places, Schedule
<1>11. CASE Update
  BY <1>0, <1>11 DEF Update, vars, loopVars, stepVars, workerVars, runVars,
         Flow, TrainingTypeOK, Control, SavedLoader, Places, Schedule
<1>12. CASE Record
  <2>1. Kept
    BY <1>12 DEF Record, RecordSuffixSft
  <2> QED BY <1>0, <1>12, <2>1 DEF Record, loopVars, stepVars, workerVars, runVars,
         Flow, TrainingTypeOK, Control, SavedLoader, Places, Schedule
<1>13. ASSUME NEW lo, NEW hi, Freeze(lo, hi), pc \in {"record", "batch"}, todo = {}, Schedule("epoch_local"),
              \/ after' = "save" /\ pc = "record"
              \/ after' = "epoch",
              UNCHANGED loopVars
       PROVE  Flow'
  BY <1>0, <1>13 DEF Freeze, ClearTeacherEvents, loopVars, stepVars, workerVars, runVars,
         Flow, TrainingTypeOK, Control, SavedLoader, Places, Schedule
<1>14. CASE EndStep
  <2>1. CASE Goto("save") /\ UNCHANGED <<vars, stepVars, replayVars, workerVars, runVars>>
    BY <1>0, <1>14, <2>1 DEF EndStep, vars, loopVars, stepVars, replayVars, workerVars, runVars,
         Flow, TrainingTypeOK, Control, SavedLoader, Places, Schedule
  <2> QED BY <1>13, <1>14, <2>1 DEF EndStep, Schedule
<1>15. CASE EndEpoch
  <2>1. CASE BeginEpoch(step, 0) /\ UNCHANGED <<vars, stepVars, replayVars, workerVars, runVars>>
    BY <1>0, <1>15, <2>1 DEF EndEpoch, BeginEpoch, vars, stepVars, replayVars, workerVars, runVars,
         Flow, TrainingTypeOK, Control, SavedLoader, Places, Schedule
  <2>2. todo = {}
    BY <1>15 DEF EndEpoch, Flow, Control
  <2> QED BY <1>13, <1>15, <2>1, <2>2 DEF EndEpoch, Schedule
<1>16. CASE NewEpoch
  BY <1>0, <1>16 DEF NewEpoch, BeginEpoch, vars, stepVars, replayVars, workerVars, runVars,
         Flow, TrainingTypeOK, Control, SavedLoader, Places, Schedule
<1>17. CASE Sweep
  BY <1>0, <1>17 DEF Sweep, SweepTrees, CleanupInactiveTrees, loopVars, stepVars, workerVars, runVars,
         Flow, TrainingTypeOK, Control, SavedLoader, Places, Schedule
<1>18. CASE TrainMiniBatch
  <2>1. Kept
    BY <1>18 DEF TrainMiniBatch, MarkSuffixSftSampled, vars
  <2>2. todo' \subseteq sftLent /\ left' \subseteq sftLent
    BY <1>18 DEF TrainMiniBatch, MiniBatches, Flow, TrainingTypeOK
  <2> QED BY <1>0, <1>18, <2>1, <2>2 DEF TrainMiniBatch, loopVars, stepVars, workerVars, runVars,
         Flow, TrainingTypeOK, Control, SavedLoader, Places, Schedule
<1>19. CASE NextPass
  BY <1>0, <1>19 DEF NextPass, vars, loopVars, stepVars, workerVars, runVars,
         Flow, TrainingTypeOK, Control, SavedLoader, Places, Schedule
<1>20. CASE Save
  <2>1. SavedLoader'
    BY <1>0, <1>20 DEF Save, Snapshot, vars, loopVars, Flow, SavedLoader, Control, TrainingTypeOK
  <2> QED BY <1>0, <1>20, <2>1 DEF Save, vars, loopVars, stepVars, replayVars, workerVars,
         Flow, TrainingTypeOK, Control, Places, Schedule
<1>21. CASE Advance
  BY <1>0, <1>21 DEF Advance, NextStep, poolVars, loopVars, stepVars, replayVars, workerVars, runVars,
         Flow, TrainingTypeOK, Control, SavedLoader, Places, Schedule
<1>22. CASE WorkerStep
  <2>1. CASE Fetch
    <3>1. UNCHANGED <<sftLent, step, nodeCount>> /\ owed \subseteq owed'
      BY <2>1 DEF Fetch, PendingTeacherRequests, DispatchEffect
    <3> QED BY <1>0, <1>22, <2>1, <3>1 DEF WorkerStep, Fetch, loopVars, stepVars, replayVars, workerVars,
           runVars, Flow, TrainingTypeOK, Control, SavedLoader, Places, Schedule
  <2>2. CASE ReadStep
    BY <1>0, <1>22, <2>2 DEF WorkerStep, ReadStep, Put, vars, loopVars, stepVars, replayVars, workerVars,
           runVars, Flow, TrainingTypeOK, Control, SavedLoader, Places, Schedule
  <2>3. CASE Respond
    <3>1. PICK e \in DOMAIN read, a \in Answers : OnTeacherResponse(e, a, read[e]) /\ read' = Without(read, {e})
      BY <2>3 DEF Respond
    <3>2. UNCHANGED <<sftLent, step>> /\ owed' = owed \ {e} /\ (nodeCount' = nodeCount \/ nodeCount' = nodeCount + 1)
      BY <3>1 DEF OnTeacherResponse
    <3>3. DOMAIN read' = DOMAIN read \ {e} /\ \A d \in DOMAIN read' : read'[d] = read[d]
      BY <3>1 DEF Without, Restrict
    <3>4. UNCHANGED <<pc, yielded, skipped, epochStart, bornBefore, quota, feed, after, todo, left, pass,
                      workerStep, setting, saved, restarts, ends>>
      BY <1>22, <2>3 DEF WorkerStep, Respond, loopVars, stepVars, replayVars, runVars
    <3>5. bornBefore \in 0..nodeCount' /\ DOMAIN read' \subseteq owed' /\ \A d \in DOMAIN read' : read'[d] \in 0..workerStep
      BY <1>0, <3>2, <3>3 DEF Flow, TrainingTypeOK
    <3> QED BY <3>2, <3>4, <3>5 DEF Flow, TrainingTypeOK, Control, SavedLoader, Schedule
  <2> QED BY <1>22, <2>1, <2>2, <2>3 DEF WorkerStep
<1>23. CASE Restart
  <2>1. ends' \in 0..restarts' /\ restarts' \in 0..MaxRestarts
    <3>1. restarts \in 0..MaxRestarts /\ ends \in 0..restarts /\ MaxRestarts \in Nat
      BY TrainingAssumption DEF Flow, TrainingTypeOK, TrainingAssumption
    <3>2. restarts' = restarts + 1 /\ restarts < MaxRestarts /\ ends' \in {ends, ends + 1}
      BY <1>23 DEF Restart
    <3> QED BY <3>1, <3>2
  <2> QED BY <1>0, <1>23, <2>1 DEF Restart, Restored, Flow, TrainingTypeOK, Control, SavedLoader, Places, Schedule
<1>24. CASE UNCHANGED trainingVars
  BY <1>24 DEF trainingVars, vars, loopVars, stepVars, replayVars, workerVars, runVars,
         Flow, TrainingTypeOK, Control, SavedLoader, Schedule
<1> QED BY <1>1, <1>2, <1>3, <1>4, <1>5, <1>6, <1>7, <1>8, <1>9, <1>10, <1>11, <1>12, <1>14, <1>15, <1>16,
           <1>17, <1>18, <1>19, <1>20, <1>21, <1>22, <1>23, <1>24 DEF Steps, TrainerStep

-----------------------------------------------------------------------------
(* The pool's invariant, restarts included.                                *)

\* The pool in the last checkpoint.
Stored == INSTANCE PrefixForestPool
            WITH trees <- saved.trees, nodes <- saved.nodes, nodeCount <- saved.nodeCount,
                 events <- saved.events, queue <- saved.queue, count <- saved.count,
                 step <- saved.step, owed <- {}, lent <- {}, sftLent <- {}

SavedPool ==
  /\ Stored!TypeOK /\ Stored!TreeShape
  /\ Stored!QueueMirrorsEvents /\ Stored!EventsHaveParents /\ Stored!EventAccounting

LEMMA StoredSize == \A S : Stored!Cardinality(S) = Cardinality(S)
BY DEF Stored!Cardinality, Cardinality

LEMMA SavedStays ==
  ASSUME SavedPool, saved' = saved
  PROVE  SavedPool'
<1>1. Stored!TypeOK'
  BY DEF SavedPool, Stored!TypeOK, Stored!NodeId, Stored!EventId, Stored!Stamp, Stored!TreeType,
         Stored!NodeType, Stored!EventType, Stored!Counters, Stored!NoParent
<1>2. Stored!TreeShape'
  BY DEF SavedPool, Stored!TreeShape, Stored!TreesHaveRoots, Stored!NodesOf, Stored!ValidChild,
         Stored!StrictlyExtends, Stored!NoParent
<1>3. Stored!QueueMirrorsEvents'
  BY DEF SavedPool, Stored!QueueMirrorsEvents
<1>4. Stored!EventsHaveParents'
  BY DEF SavedPool, Stored!EventsHaveParents, Stored!NodesOf
<1>5. Stored!EventAccounting'
  BY DEF SavedPool, Stored!EventAccounting
<1> QED BY <1>1, <1>2, <1>3, <1>4, <1>5 DEF SavedPool

LEMMA SnapshotIsPool ==
  ASSUME Inv, saved' = Snapshot
  PROVE  SavedPool'
<1>1. /\ saved'.trees = trees /\ saved'.nodes = nodes /\ saved'.events = events /\ saved'.queue = queue
      /\ saved'.nodeCount = (IF trees = << >> THEN 0 ELSE nodeCount)
      /\ saved'.count = (IF trees = << >> THEN [c \in Counters |-> 0] ELSE count)
      /\ saved'.step = step
  BY DEF Snapshot
<1>2. CASE trees # << >>
  <2>1. saved'.nodeCount = nodeCount /\ saved'.count = count
    BY <1>1, <1>2
  <2>2. Stored!TypeOK'
    <3>1. Stored!NodeId' = NodeId /\ Stored!EventId' = EventId /\ Stored!Stamp' = Stamp
      BY <1>1, <2>1 DEF NodeId, EventId, Stamp, Stored!NodeId, Stored!EventId, Stored!Stamp
    <3>2. Stored!TreeType' = TreeType
      BY <1>1, <3>1 DEF TreeType, Stored!TreeType
    <3>3. Stored!NodeType' = NodeType
      BY <1>1, <3>1 DEF NodeType, Stored!NodeType, NoParent, Stored!NoParent
    <3>4. Stored!EventType' = EventType
      BY <1>1, <3>1 DEF EventType, Stored!EventType
    <3>5. Stored!Counters = Counters /\ TypeOK
      BY DEF Counters, Stored!Counters, Inv
    <3> QED BY <1>1, <2>1, <3>1, <3>2, <3>3, <3>4, <3>5 DEF TypeOK, Stored!TypeOK
  <2>3. Stored!TreeShape'
    BY <1>1 DEF Inv, TreeShape, TreesHaveRoots, NodesOf, ValidChild, StrictlyExtends, NoParent,
           Stored!TreeShape, Stored!TreesHaveRoots, Stored!NodesOf, Stored!ValidChild, Stored!StrictlyExtends,
           Stored!NoParent
  <2>4. Stored!QueueMirrorsEvents'
    BY <1>1 DEF Inv, EventIndexes, QueueMirrorsEvents, Stored!QueueMirrorsEvents
  <2>5. Stored!EventsHaveParents'
    BY <1>1 DEF Inv, EventIndexes, EventsHaveParents, NodesOf, Stored!EventsHaveParents, Stored!NodesOf
  <2>6. Stored!EventAccounting'
    <3>1. EventAccounting
      BY DEF Inv
    <3> QED BY <1>1, <2>1, <3>1, StoredSize DEF EventAccounting, Stored!EventAccounting
  <2> QED BY <2>2, <2>3, <2>4, <2>5, <2>6 DEF SavedPool
<1>3. CASE trees = << >>
  <2>1. DOMAIN trees = {} /\ saved'.nodeCount = 0 /\ saved'.count = [c \in Counters |-> 0]
    BY <1>1, <1>3
  <2>2. DOMAIN nodes = {}
    BY <2>1 DEF Inv, TreeShape
  <2>3. DOMAIN events = {}
    BY <2>1 DEF Inv, EventIndexes, EventsHaveParents
  <2>4. queue \in [Prompt -> SUBSET {}] /\ step \in Nat
    BY <2>3 DEF Inv, TypeOK, EventIndexes, QueueMirrorsEvents
  <2>5. Cardinality({}) = 0
    BY FS_EmptySet
  <2>6. Stored!TypeOK'
    BY <1>1, <2>1, <2>2, <2>3, <2>4 DEF Stored!TypeOK, Stored!NodeId, Stored!EventId, Stored!Counters, Counters
  <2>7. Stored!TreeShape'
    BY <1>1, <2>1, <2>2 DEF Stored!TreeShape, Stored!TreesHaveRoots, Stored!NodesOf
  <2>8. Stored!QueueMirrorsEvents'
    BY <1>1, <2>3, <2>4 DEF Stored!QueueMirrorsEvents
  <2>9. Stored!EventsHaveParents'
    BY <1>1, <2>3 DEF Stored!EventsHaveParents
  <2>10. Stored!EventAccounting'
    <3>1. Cardinality(DOMAIN saved'.events) = 0
      BY <1>1, <2>3, <2>5
    <3>2. \A c \in Counters : saved'.count[c] = 0
      BY <2>1
    <3>3. /\ saved'.count.enqueued = 0 /\ saved'.count.success = 0 /\ saved'.count.failed = 0
          /\ saved'.count.staleParent = 0 /\ saved'.count.invalid = 0 /\ saved'.count.duplicate = 0
          /\ saved'.count.cleared = 0
      BY <3>2 DEF Counters
    <3> QED BY <3>1, <3>3, StoredSize DEF Stored!EventAccounting
  <2> QED BY <2>6, <2>7, <2>8, <2>9, <2>10 DEF SavedPool
<1> QED BY <1>2, <1>3

\* What load_state_dict makes of it satisfies the invariant of the pool.
LEMMA RestartInv ==
  ASSUME SavedPool, Restored
  PROVE  Inv'
<1>1. /\ trees' = saved.trees /\ nodes' = saved.nodes /\ nodeCount' = saved.nodeCount
      /\ count' = saved.count /\ step' = saved.step
      /\ owed' = {} /\ lent' = {} /\ sftLent' = {}
  BY DEF Restored
<1>2. /\ DOMAIN events' = DOMAIN saved.events
      /\ \A e \in DOMAIN events' : events'[e] = [saved.events[e] EXCEPT !.inFlight = FALSE]
  BY DEF Restored, RestoredEvents, SavedPool, Stored!EventsHaveParents
<1>3. \A e \in DOMAIN events' : saved.events[e] \in Stored!EventType
  BY <1>2 DEF SavedPool, Stored!TypeOK
<1>4. \A e \in DOMAIN events' :
        /\ events'[e] \in EventType' /\ ~events'[e].inFlight
        /\ events'[e].tree = saved.events[e].tree /\ events'[e].parent = saved.events[e].parent
  BY <1>1, <1>2, <1>3 DEF Stored!EventType, EventType, Stored!NodeId, NodeId
<1>5. \A k \in Prompt : queue'[k] = saved.queue[k]
  <2>1. \A k \in Prompt : saved.queue[k] = {e \in DOMAIN saved.events : saved.events[e].tree = k}
    BY DEF SavedPool, Stored!QueueMirrorsEvents
  <2>2. \A k \in Prompt : queue'[k] =
          {e \in DOMAIN events' :
             \/ e \in saved.queue[k]
             \/ events'[e].tree = k /\ \A j \in Prompt : e \notin saved.queue[j]}
    BY DEF Restored, RepairedQueue
  <2>3. \A k \in Prompt : \A e : e \in queue'[k] <=> e \in saved.queue[k]
    BY <1>2, <1>4, <2>1, <2>2
  <2> QED BY <2>1, <2>2, <2>3
<1>6. DOMAIN queue' = Prompt /\ queue' = [k \in Prompt |-> queue'[k]]
  BY DEF Restored, RepairedQueue
<1>7. TypeOK'
  <2>1. queue' \in [Prompt -> SUBSET EventId']
    BY <1>1, <1>5, <1>6 DEF SavedPool, Stored!TypeOK, Stored!EventId, EventId
  <2>2. DOMAIN events' \subseteq EventId'
    BY <1>1, <1>2 DEF SavedPool, Stored!TypeOK, Stored!EventId, EventId
  <2>3. /\ nodeCount' \in Nat /\ step' \in Nat /\ count' \in [Counters -> Nat]
        /\ DOMAIN trees' \subseteq Prompt /\ \A k \in DOMAIN trees' : trees'[k] \in TreeType'
        /\ DOMAIN nodes' \subseteq NodeId' /\ \A n \in DOMAIN nodes' : nodes'[n] \in NodeType'
    BY <1>1 DEF SavedPool, Stored!TypeOK, Stored!NodeId, Stored!Stamp, Stored!TreeType, Stored!NodeType,
           Stored!Counters, NodeId, Stamp, TreeType, NodeType, Counters, NoParent, Stored!NoParent
  <2> QED BY <1>1, <1>4, <2>1, <2>2, <2>3 DEF TypeOK
<1>8. TreeShape'
  BY <1>1 DEF SavedPool, TreeShape, TreesHaveRoots, NodesOf, ValidChild, StrictlyExtends, NoParent,
         Stored!TreeShape, Stored!TreesHaveRoots, Stored!NodesOf, Stored!ValidChild, Stored!StrictlyExtends,
         Stored!NoParent
<1>9. EventIndexes'
  <2>1. QueueMirrorsEvents'
    BY <1>2, <1>4, <1>5 DEF SavedPool, QueueMirrorsEvents, Stored!QueueMirrorsEvents
  <2>2. EventsHaveParents'
    BY <1>1, <1>2, <1>4 DEF SavedPool, EventsHaveParents, Stored!EventsHaveParents, NodesOf, Stored!NodesOf
  <2>3. InFlightIsOwed'
    BY <1>1, <1>4 DEF InFlightIsOwed
  <2> QED BY <2>1, <2>2, <2>3 DEF EventIndexes
<1>10. LentNodesStayActive'
  BY <1>1 DEF LentNodesStayActive
<1>11. EventAccounting'
  BY <1>1, <1>2, StoredSize DEF SavedPool, EventAccounting, Stored!EventAccounting
<1> QED BY <1>7, <1>8, <1>9, <1>10, <1>11 DEF Inv

LEMMA NextPool ==
  ASSUME Inv, Flow, SavedPool, Steps \/ Restart
  PROVE  Inv' /\ SavedPool'
<1>1. PoolAssumption
  BY PoolAssumption
<1>2. CASE Steps
  <2>1. TypeOK
    BY DEF Inv
  <2>2. Inv'
    BY <1>1, <1>2, <2>1, IsClientStep, ClientInv
  <2>3. saved' = saved \/ saved' = Snapshot
    BY <1>2 DEF Steps, TrainerStep, WorkerStep, Start, Batch, Count, SampleBatch, Publish, RecordNode, RecordRoot,
           Tidy, CountReplay, SampleReplay, Update, Record, EndStep, EndEpoch, NewEpoch, Sweep, TrainMiniBatch,
           NextPass, Save, Advance, Freeze, runVars, trainingVars
  <2>4. CASE saved' = saved
    BY <2>2, <2>4, SavedStays
  <2> QED BY <2>2, <2>3, <2>4, SnapshotIsPool
<1>3. CASE Restart
  <2>1. Restored /\ saved' = saved
    BY <1>3 DEF Restart
  <2> QED BY <2>1, SavedStays, RestartInv
<1> QED BY <1>2, <1>3

LEMMA InitPool == TrainingInit => Inv /\ SavedPool
<1> SUFFICES ASSUME TrainingInit PROVE Inv /\ SavedPool
  OBVIOUS
<1>1. Inv
  BY PoolAssumption, InitInv DEF TrainingInit
<1>2. /\ saved.trees = << >> /\ saved.nodes = << >> /\ saved.events = << >>
      /\ saved.nodeCount = 0 /\ saved.step = 0
      /\ saved.count = [c \in Counters |-> 0] /\ saved.queue = [k \in Prompt |-> {}]
  BY DEF TrainingInit, Init, Snapshot
<1>3. DOMAIN saved.trees = {} /\ DOMAIN saved.nodes = {} /\ DOMAIN saved.events = {} /\ Cardinality({}) = 0
  BY <1>2, FS_EmptySet
<1>4. Stored!TypeOK
  BY <1>2, <1>3 DEF Stored!TypeOK, Stored!Counters, Counters
<1>5. Stored!TreeShape
  BY <1>2, <1>3 DEF Stored!TreeShape, Stored!TreesHaveRoots, Stored!NodesOf
<1>6. Stored!QueueMirrorsEvents /\ Stored!EventsHaveParents
  BY <1>2, <1>3 DEF Stored!QueueMirrorsEvents, Stored!EventsHaveParents
<1>7. Stored!EventAccounting
  <2>1. \A c \in Counters : saved.count[c] = 0
    BY <1>2
  <2>2. /\ saved.count.enqueued = 0 /\ saved.count.success = 0 /\ saved.count.failed = 0
        /\ saved.count.staleParent = 0 /\ saved.count.invalid = 0 /\ saved.count.duplicate = 0
        /\ saved.count.cleared = 0
    BY <2>1 DEF Counters
  <2> QED BY <1>3, <2>2, StoredSize DEF Stored!EventAccounting
<1> QED BY <1>1, <1>4, <1>5, <1>6, <1>7 DEF SavedPool

LEMMA PoolHolds == TrainingSpec => [](Inv /\ Flow /\ SavedPool)
<1>1. TrainingInit => Inv /\ Flow /\ SavedPool
  BY InitFlow, InitPool
<1>2. (Inv /\ Flow /\ SavedPool) /\ [TrainingNext]_trainingVars => (Inv /\ Flow /\ SavedPool)'
  BY StepsAre, NextFlow, NextPool DEF Inv
<1> QED BY <1>1, <1>2, PTL DEF TrainingSpec

\* The trainer's and the worker's own variables stay in their ranges (the loop
\* of fit(), update_current_step): in particular the worker's copy of the step
\* is never ahead of the trainer.
THEOREM TrainingTypes == TrainingSpec => []TrainingTypeOK
<1>1. Flow => TrainingTypeOK
  BY DEF Flow
<1> QED BY <1>1, PoolHolds, PTL

\* Under the schedule of fit() and its worker, with crashes anywhere and
\* restarts from any checkpoint, an event is in flight exactly while a worker
\* task owes its answer (load_state_dict, pending_teacher_requests).
THEOREM InFlightStaysOwed == TrainingSpec => []InFlightIsOwed
<1>1. Inv => InFlightIsOwed
  BY DEF Inv, EventIndexes
<1> QED BY <1>1, PoolHolds, PTL

\* So do all the promises of the pool: what its general client cannot break,
\* neither the schedule of fit() nor a checkpoint and a restart break.
THEOREM PoolStaysSound ==
  TrainingSpec => [](TypeOK /\ TreeShape /\ QueueMirrorsEvents /\ NothingDangles /\ EventAccounting)
<1>1. Inv => TypeOK /\ TreeShape /\ QueueMirrorsEvents /\ NothingDangles /\ EventAccounting
  BY DEF Inv, EventIndexes, NothingDangles
<1> QED BY <1>1, PoolHolds, PTL
-----------------------------------------------------------------------------
(* What a call of the pool does to the nodes that are there.               *)

\* Nothing goes, retires or moves.
NodesStay ==
  /\ DOMAIN trees \subseteq DOMAIN trees' /\ DOMAIN nodes \subseteq DOMAIN nodes'
  /\ \A n \in DOMAIN nodes : /\ nodes'[n].tree = nodes[n].tree /\ nodes'[n].parent = nodes[n].parent
                             /\ nodes'[n].suffix = nodes[n].suffix /\ nodes'[n].active = nodes[n].active

\* Then no candidate is lost.
LEMMA CandidatesStay ==
  ASSUME NodesStay
  PROVE  /\ ReadyTrees \subseteq ReadyTrees' /\ SftReadyTrees \subseteq SftReadyTrees'
         /\ \A k, n : SftTrainable(k, n) => SftTrainable(k, n)'
<1>1. \A k : RolloutCandidates(k) \subseteq RolloutCandidates(k)' /\ SftCandidates(k) \subseteq SftCandidates(k)'
  BY DEF NodesStay, SftCandidates, RolloutCandidates, NodesOf
<1> QED BY <1>1 DEF NodesStay, ReadyTrees, SftReadyTrees, SftTrainable

LEMMA StampsStay ==
  ASSUME TypeOK,
         \/ \E n : Sample(n)
         \/ \E n, s : PendingTeacherRequests(n, s)
         \/ SampleSuffixSft(SftSlots)
         \/ \E r \in sftLent : RecordSuffixSft(r[1], r[2])
         \/ ClearTeacherEvents
         \/ (\E routes \in FullBatches : MarkSuffixSftSampled(routes))
         \/ UNCHANGED vars
  PROVE  NodesStay
BY StampSameShape, StampSameActive DEF NodesStay, SameShape, SameActive

LEMMA AnswersStay ==
  ASSUME TypeOK, NEW e, NEW a, NEW s, OnTeacherResponse(e, a, s)
  PROVE  NodesStay
<1>1. CASE NewChildStep(e, a, s)
  <2> DEFINE c == nodeCount'
             k == events[e].tree
             p == events[e].parent
             new == a.prefix
  <2>1. Joins(c, k, p, new) /\ \A n \in DOMAIN nodes : nodes'[n].active = nodes[n].active
    BY <1>1, NewChildJoins
  <2> HIDE DEF c, k, p, new
  <2> QED BY <2>1 DEF Joins, NodesStay
<1>2. CASE UNCHANGED <<trees, nodes, nodeCount>>
  BY <1>2 DEF NodesStay
<1> QED BY <1>1, <1>2, AnswerCases

LEMMA WorkerStays ==
  ASSUME TypeOK, WorkerStep
  PROVE  NodesStay
<1>1. CASE Fetch
  BY <1>1, StampsStay DEF Fetch
<1>2. CASE ReadStep
  BY <1>2, StampsStay DEF ReadStep
<1>3. CASE Respond
  <2>1. PICK e \in DOMAIN read, a \in Answers : OnTeacherResponse(e, a, read[e])
    BY <1>3 DEF Respond
  <2> QED BY <2>1, AnswersStay
<1> QED BY <1>1, <1>2, <1>3 DEF WorkerStep

\* A tree with a candidate survives the clean-up.
LEMMA CleanupKeeps ==
  ASSUME CleanupInactiveTrees, NEW k, NEW n, SftTrainable(k, n)
  PROVE  SftTrainable(k, n)'
<1>1. k \notin Removable
  BY DEF SftTrainable, SftCandidates, RolloutCandidates, Removable
<1>2. /\ DOMAIN trees' = DOMAIN trees \ Removable
      /\ DOMAIN nodes' = {m \in DOMAIN nodes : nodes[m].tree \notin Removable}
      /\ \A m \in DOMAIN nodes' : nodes'[m] = nodes[m]
  BY DEF CleanupInactiveTrees, Without, Restrict
<1> QED BY <1>1, <1>2 DEF SftTrainable, SftCandidates, RolloutCandidates, NodesOf

\* A node's birth is never rewritten, and only a recorded optimizer step counts
\* as one; a node that is new has a new id and no optimizer step.
SameBirth(n) ==
  /\ nodes'[n].created = nodes[n].created /\ nodes'[n].parent = nodes[n].parent
  /\ nodes'[n].tree = nodes[n].tree /\ nodes'[n].suffix = nodes[n].suffix

Newborn(n) ==
  /\ n \notin DOMAIN nodes /\ n = nodeCount + 1 /\ nodeCount' = nodeCount + 1
  /\ nodes'[n].sftUpdates = 0

LEMMA ObserveBirths ==
  ASSUME NEW ns, NEW k, NEW n \in DOMAIN ns, NEW bad, NEW m, ns[n] \in NodeType',
         Observe(ns, k, n, bad, m)
  PROVE  /\ DOMAIN nodes' = DOMAIN ns
         /\ \A x \in DOMAIN ns :
              /\ nodes'[x].created = ns[x].created /\ nodes'[x].parent = ns[x].parent
              /\ nodes'[x].tree = ns[x].tree /\ nodes'[x].suffix = ns[x].suffix
              /\ nodes'[x].sftUpdates = ns[x].sftUpdates
<1> DEFINE new == [ns[n] EXCEPT !.lastRollout = step, !.active = (bad > 0)]
<1>1. nodes' = [ns EXCEPT ![n] = new]
  BY DEF Observe
<1>2. /\ new.created = ns[n].created /\ new.parent = ns[n].parent /\ new.tree = ns[n].tree
      /\ new.suffix = ns[n].suffix /\ new.sftUpdates = ns[n].sftUpdates
  BY DEF NodeType
<1> HIDE DEF new
<1> QED BY <1>1, <1>2

LEMMA StampBirths ==
  ASSUME TypeOK,
         \/ NextStep
         \/ \E n : Sample(n)
         \/ \E n, s : PendingTeacherRequests(n, s)
         \/ SampleSuffixSft(SftSlots)
         \/ ClearTeacherEvents
         \/ (\E routes \in FullBatches : MarkSuffixSftSampled(routes))
         \/ UNCHANGED vars
  PROVE  /\ DOMAIN nodes' = DOMAIN nodes /\ nodeCount' = nodeCount
         /\ \A n \in DOMAIN nodes : SameBirth(n) /\ nodes'[n].sftUpdates = nodes[n].sftUpdates
<1> USE DEF SameBirth
<1>0. \A n \in DOMAIN nodes : nodes[n] \in NodeType
  BY DEF TypeOK
<1>1. CASE NextStep \/ ClearTeacherEvents \/ UNCHANGED vars
  BY <1>1 DEF NextStep, ClearTeacherEvents, vars, poolVars
<1>2. CASE \E n : Sample(n)
  <2>1. PICK chosen, pick : SampleEffect(chosen, pick)
    BY <1>2 DEF Sample
  <2> QED BY <1>0, <2>1 DEF SampleEffect, NodeType
<1>3. CASE \E n, s : PendingTeacherRequests(n, s)
  <2>1. PICK out, s : DispatchEffect(out, s)
    BY <1>3 DEF PendingTeacherRequests
  <2> QED BY <1>0, <2>1 DEF DispatchEffect, NodeType
<1>4. CASE SampleSuffixSft(SftSlots) \/ (\E routes \in FullBatches : MarkSuffixSftSampled(routes))
  <2>1. PICK routes : StampSft(routes) /\ nodeCount' = nodeCount
    BY <1>4 DEF SampleSuffixSft, MarkSuffixSftSampled
  <2> QED BY <1>0, <2>1 DEF StampSft, NodeType
<1> QED BY <1>1, <1>2, <1>3, <1>4

LEMMA RecordBirths ==
  ASSUME TypeOK, NEW k, NEW n, RecordSuffixSft(k, n)
  PROVE  /\ DOMAIN nodes' = DOMAIN nodes /\ nodeCount' = nodeCount
         /\ \A m \in DOMAIN nodes :
              SameBirth(m) /\ (nodes'[m].sftUpdates = nodes[m].sftUpdates
                               \/ (m = n /\ nodes'[m].sftUpdates = nodes[m].sftUpdates + 1))
<1>0. \A m \in DOMAIN nodes : nodes[m] \in NodeType
  BY DEF TypeOK
<1>1. nodeCount' = nodeCount /\ (nodes' = nodes \/ nodes' = [nodes EXCEPT ![n].sftUpdates = @ + 1])
  BY DEF RecordSuffixSft
<1>2. CASE nodes' = nodes
  BY <1>1, <1>2 DEF SameBirth
<1>3. CASE nodes' = [nodes EXCEPT ![n].sftUpdates = @ + 1]
  <2>1. DOMAIN nodes' = DOMAIN nodes
    BY <1>3
  <2>2. \A m \in DOMAIN nodes \ {n} : nodes'[m] = nodes[m]
    BY <1>3
  <2>3. n \in DOMAIN nodes => nodes'[n] = [nodes[n] EXCEPT !.sftUpdates = nodes[n].sftUpdates + 1]
    BY <1>3
  <2>4. n \in DOMAIN nodes => SameBirth(n) /\ nodes'[n].sftUpdates = nodes[n].sftUpdates + 1
    BY <1>0, <2>3 DEF SameBirth, NodeType
  <2> QED BY <1>1, <2>1, <2>2, <2>4 DEF SameBirth
<1> QED BY <1>1, <1>2, <1>3

LEMMA AnswerBirths ==
  ASSUME TypeOK, NEW e, NEW a, NEW s, OnTeacherResponse(e, a, s)
  PROVE  /\ \A n \in DOMAIN nodes : n \in DOMAIN nodes' /\ SameBirth(n)
                                    /\ nodes'[n].sftUpdates = nodes[n].sftUpdates
         /\ \A n \in DOMAIN nodes' \ DOMAIN nodes :
              Newborn(n) /\ nodes'[n].created = s /\ e \in DOMAIN events
<1>1. CASE NewChildStep(e, a, s)
  <2> DEFINE c == nodeCount'
             k == events[e].tree
             p == events[e].parent
             child == NewNode(k, p, a.prefix, TRUE, s)
             new == Put(nodes, c, child)
  <2>1. c \notin DOMAIN nodes /\ nodeCount' = nodeCount + 1
    BY <1>1, FreshNode DEF NewChildStep
  <2>2. p \in DOMAIN nodes /\ e \in DOMAIN events
    BY <1>1, SuccessMeans DEF NewChildStep, ParentLives, NodesOf
  <2>3. DOMAIN new = DOMAIN nodes \cup {c} /\ new[c] = child /\ \A n \in DOMAIN nodes : new[n] = nodes[n]
    BY <2>1 DEF Put
  <2>4. nodes' = [new EXCEPT ![p].children = @ \cup {c}]
    BY <1>1 DEF NewChildStep, WithChild
  <2>5. DOMAIN nodes' = DOMAIN nodes \cup {c} /\ nodes'[c] = child
        /\ nodes'[p] = [nodes[p] EXCEPT !.children = @ \cup {c}]
        /\ \A n \in DOMAIN nodes \ {p} : nodes'[n] = nodes[n]
    <3> HIDE DEF new, child, c, p
    <3> QED BY <2>1, <2>2, <2>3, <2>4
  <2>6. child.created = s /\ child.sftUpdates = 0
    BY DEF NewNode
  <2>7. nodes[p] \in NodeType
    BY <2>2 DEF TypeOK
  <2>8. SameBirth(p) /\ nodes'[p].sftUpdates = nodes[p].sftUpdates
    <3> HIDE DEF c, p
    <3> QED BY <2>5, <2>7 DEF NodeType, SameBirth
  <2> HIDE DEF c, p, k, child, new
  <2>9. \A n \in DOMAIN nodes : n \in DOMAIN nodes' /\ SameBirth(n) /\ nodes'[n].sftUpdates = nodes[n].sftUpdates
    BY <2>5, <2>8 DEF SameBirth
  <2>10. \A n \in DOMAIN nodes' \ DOMAIN nodes : n = c
    BY <2>5
  <2>11. Newborn(c) /\ nodes'[c].created = s
    BY <2>1, <2>5, <2>6 DEF Newborn, c
  <2> QED BY <2>2, <2>9, <2>10, <2>11
<1>2. CASE UNCHANGED <<trees, nodes, nodeCount>>
  BY <1>2 DEF SameBirth
<1> QED BY <1>1, <1>2, AnswerCases

LEMMA RootBirths ==
  ASSUME TypeOK, TreeShape, NEW k \in Prompt, NEW bad, NEW m, RecordRootObservation(k, bad, m)
  PROVE  /\ \A n \in DOMAIN nodes : n \in DOMAIN nodes' /\ SameBirth(n)
                                    /\ nodes'[n].sftUpdates = nodes[n].sftUpdates
         /\ \A n \in DOMAIN nodes' \ DOMAIN nodes : Newborn(n) /\ nodes'[n].parent = NoParent
<1>1. CASE k \in DOMAIN trees /\ Observe(nodes, k, trees[k].root, bad, m)
  <2> DEFINE n == trees[k].root
  <2>1. n \in DOMAIN nodes /\ nodes[n] \in NodeType
    BY <1>1 DEF TreeShape, TreesHaveRoots, NodesOf, TypeOK
  <2>2. UNCHANGED nodeCount /\ step' = step
    BY <1>1 DEF RecordRootObservation
  <2>3. NodeType' = NodeType
    BY <2>2, <1>1 DEF NodeType, NodeId, Stamp, RecordRootObservation
  <2> HIDE DEF n
  <2>4. Observe(nodes, k, n, bad, m)
    BY <1>1 DEF n
  <2> QED BY <2>1, <2>3, <2>4, ObserveBirths DEF SameBirth
<1>2. CASE NewTreeStep(k, bad, m)
  <2> DEFINE c == nodeCount'
             root == NewNode(k, NoParent, << >>, FALSE, step)
             ns == Put(nodes, c, root)
  <2>1. c \notin DOMAIN nodes /\ nodeCount' = nodeCount + 1
    BY <1>2, FreshNode DEF NewTreeStep
  <2>2. DOMAIN ns = DOMAIN nodes \cup {c} /\ ns[c] = root /\ \A n \in DOMAIN nodes : ns[n] = nodes[n]
    BY <2>1 DEF Put
  <2>3. Observe(ns, k, c, bad, m)
    BY <1>2 DEF NewTreeStep
  <2>4. step' = step /\ step \in Nat /\ nodeCount \in Nat
    BY DEF RecordRootObservation, TypeOK
  <2>5. root \in NodeType'
    BY <2>1, <2>4 DEF NewNode, NodeType, NodeId, Stamp, NoParent, Never
  <2>6. root.parent = NoParent /\ root.sftUpdates = 0
    BY DEF NewNode
  <2> HIDE DEF c, ns, root
  <2>7. c \in DOMAIN ns /\ ns[c] \in NodeType'
    BY <2>2, <2>5
  <2>8. /\ DOMAIN nodes' = DOMAIN ns
        /\ \A x \in DOMAIN ns :
             /\ nodes'[x].created = ns[x].created /\ nodes'[x].parent = ns[x].parent
             /\ nodes'[x].tree = ns[x].tree /\ nodes'[x].suffix = ns[x].suffix
             /\ nodes'[x].sftUpdates = ns[x].sftUpdates
    BY <2>3, <2>7, ObserveBirths
  <2>9. \A n \in DOMAIN nodes : n \in DOMAIN nodes' /\ SameBirth(n) /\ nodes'[n].sftUpdates = nodes[n].sftUpdates
    BY <2>2, <2>8 DEF SameBirth
  <2>10. \A n \in DOMAIN nodes' \ DOMAIN nodes : n = c
    BY <2>2, <2>8
  <2>11. Newborn(c) /\ nodes'[c].parent = NoParent
    BY <2>1, <2>2, <2>6, <2>8 DEF Newborn, c
  <2> QED BY <2>9, <2>10, <2>11
<1>3. CASE UNCHANGED poolVars
  BY <1>3 DEF poolVars, SameBirth
<1> QED BY <1>1, <1>2, <1>3, RootObservationCases

LEMMA ObservationBirths ==
  ASSUME TypeOK, NEW k, NEW n, NEW bad, NEW m, RecordObservation(k, n, bad, m)
  PROVE  /\ DOMAIN nodes' = DOMAIN nodes /\ nodeCount' = nodeCount
         /\ \A x \in DOMAIN nodes : SameBirth(x) /\ nodes'[x].sftUpdates = nodes[x].sftUpdates
<1>0. nodeCount' = nodeCount /\ step' = step
  BY DEF RecordObservation, poolVars
<1>1. CASE k \in DOMAIN trees /\ n \in NodesOf(k) /\ Observe(nodes, k, n, bad, m)
  <2>1. n \in DOMAIN nodes /\ nodes[n] \in NodeType
    BY <1>1 DEF NodesOf, TypeOK
  <2>2. NodeType' = NodeType
    BY <1>0 DEF NodeType, NodeId, Stamp
  <2> QED BY <1>0, <1>1, <2>1, <2>2, ObserveBirths DEF SameBirth
<1>2. CASE UNCHANGED poolVars
  BY <1>2 DEF poolVars, SameBirth
<1> QED BY <1>1, <1>2, ObservationCases

LEMMA CleanupBirths ==
  ASSUME CleanupInactiveTrees
  PROVE  /\ DOMAIN nodes' \subseteq DOMAIN nodes /\ DOMAIN trees' \subseteq DOMAIN trees
         /\ \A n \in DOMAIN nodes' : nodes'[n] = nodes[n]
         /\ \A k \in DOMAIN trees' : trees'[k] = trees[k]
         /\ nodeCount' = nodeCount /\ step' = step
BY DEF CleanupInactiveTrees, Without, Restrict
-----------------------------------------------------------------------------
(* Before the batch of a step is trained.                                  *)

\* From the start of a step until the worker hears of it.
Early == pc \in {"batch", "count", "sample", "publish", "epoch"} \/ (pc \in {"sweep", "passes"} /\ after = "epoch")

\* Nothing yet carries this step: no node was born in it, and until the batch
\* is sampled no tree was used.
Young ==
  Early => /\ workerStep < step
           /\ \A n \in DOMAIN nodes : nodes[n].created < step
           /\ pc # "publish" => \A k \in DOMAIN trees : trees[k].lastRollout # step

LEMMA RolloutStampKept ==
  ASSUME TypeOK,
         \/ \E n, s : PendingTeacherRequests(n, s)
         \/ \E e, a, s : OnTeacherResponse(e, a, s)
         \/ \E r \in sftLent : RecordSuffixSft(r[1], r[2])
         \/ ClearTeacherEvents
         \/ (\E routes \in FullBatches : MarkSuffixSftSampled(routes))
         \/ CleanupInactiveTrees
         \/ UNCHANGED vars
  PROVE  \A k \in DOMAIN trees' : k \in DOMAIN trees /\ trees'[k].lastRollout = trees[k].lastRollout
<1>0. \A k \in DOMAIN trees : trees[k] \in TreeType
  BY DEF TypeOK
<1>1. CASE (\E e, a, s : OnTeacherResponse(e, a, s)) \/ (\E r \in sftLent : RecordSuffixSft(r[1], r[2]))
           \/ ClearTeacherEvents \/ UNCHANGED vars
  BY <1>1 DEF OnTeacherResponse, RecordSuffixSft, ClearTeacherEvents, vars
<1>2. CASE CleanupInactiveTrees
  BY <1>2, CleanupBirths
<1>3. CASE \E n, s : PendingTeacherRequests(n, s)
  <2>1. PICK out, s : DispatchEffect(out, s)
    BY <1>3 DEF PendingTeacherRequests
  <2> QED BY <1>0, <2>1 DEF DispatchEffect, TreeType
<1>4. CASE \E routes \in FullBatches : MarkSuffixSftSampled(routes)
  <2>1. PICK routes : StampSft(routes)
    BY <1>4 DEF MarkSuffixSftSampled
  <2> QED BY <1>0, <2>1 DEF StampSft, TreeType
<1> QED BY <1>1, <1>2, <1>3, <1>4

\* Calls during which a young forest stays young.
LEMMA YoungCall ==
  ASSUME TypeOK, Early, Young, pc # "publish", UNCHANGED <<step, workerStep>>,
         \/ \E r \in sftLent : RecordSuffixSft(r[1], r[2])
         \/ ClearTeacherEvents
         \/ (\E routes \in FullBatches : MarkSuffixSftSampled(routes))
         \/ CleanupInactiveTrees
         \/ UNCHANGED vars
  PROVE  Young'
<1>1. \A k \in DOMAIN trees' : k \in DOMAIN trees /\ trees'[k].lastRollout = trees[k].lastRollout
  BY RolloutStampKept
<1>2. \A n \in DOMAIN nodes' : n \in DOMAIN nodes /\ nodes'[n].created = nodes[n].created
  BY StampBirths, RecordBirths, CleanupBirths DEF SameBirth
<1> QED BY <1>1, <1>2 DEF Young

LEMMA NextYoung ==
  ASSUME TypeOK, TreeShape, Flow, Young, Steps \/ Restart
  PROVE  Young'
<1> USE DEF Goto
<1>0. /\ step \in Nat /\ workerStep \in 0..step
      /\ \A n \in DOMAIN nodes : nodes[n].created \in 0..step
      /\ \A k \in DOMAIN trees : trees[k].lastRollout \in -1..step
  BY DEF TypeOK, Flow, TrainingTypeOK, NodeType, TreeType, Stamp
<1>1. CASE Start \/ Advance
  BY <1>0, <1>1 DEF Start, Advance, NextStep, poolVars, workerVars, Young
<1>2. CASE Batch \/ Sweep
  <2>1. CleanupInactiveTrees /\ UNCHANGED <<step, workerStep>> /\ (Early' => Early /\ pc # "publish")
    BY <1>2 DEF Batch, Sweep, SweepTrees, CleanupInactiveTrees, workerVars, Early, Flow, Control, TrainingTypeOK
  <2> QED BY <2>1, YoungCall DEF Young
<1>3. CASE Count \/ NewEpoch \/ NextPass
  <2>1. UNCHANGED vars /\ UNCHANGED <<step, workerStep>> /\ (Early' => Early /\ pc # "publish")
    BY <1>3 DEF Count, NewEpoch, NextPass, BeginEpoch, vars, workerVars, Early, Flow, Control, TrainingTypeOK
  <2> QED BY <2>1, YoungCall DEF Young
<1>4. CASE SampleBatch
  <2>1. UNCHANGED <<step, workerStep>> /\ Early /\ pc' = "publish"
    BY <1>4 DEF SampleBatch, Sample, SampleEffect, vars, workerVars, Early
  <2>2. \A n \in DOMAIN nodes' : n \in DOMAIN nodes /\ nodes'[n].created = nodes[n].created
    BY <1>4, StampBirths DEF SampleBatch, SameBirth
  <2> QED BY <2>1, <2>2 DEF Young
<1>5. CASE EndStep
  <2>1. ~Early'
    BY <1>5 DEF EndStep, Freeze, Early
  <2> QED BY <2>1 DEF Young
<1>6. CASE EndEpoch
  <2>1. UNCHANGED <<step, workerStep>> /\ Early /\ pc # "publish" /\ (ClearTeacherEvents \/ UNCHANGED vars)
    BY <1>6 DEF EndEpoch, Freeze, ClearTeacherEvents, vars, workerVars, Early
  <2> QED BY <2>1, YoungCall
<1>7. CASE TrainMiniBatch
  <2>0. SftSlots \in Nat /\ left \subseteq sftLent
    BY Typing DEF Flow, TrainingTypeOK
  <2>1. PICK b \in MiniBatches : MarkSuffixSftSampled(b) \/ UNCHANGED vars
    BY <1>7 DEF TrainMiniBatch
  <2>2. b \in FullBatches
    BY <2>0 DEF MiniBatches, FullBatches
  <2>3. UNCHANGED <<step, workerStep>> /\ (Early' => Early /\ pc # "publish")
    BY <1>7, <2>1 DEF TrainMiniBatch, MarkSuffixSftSampled, vars, workerVars, Early
  <2> QED BY <2>1, <2>2, <2>3, YoungCall DEF Young
<1>8. CASE Record
  <2>1. PICK r \in todo : RecordSuffixSft(r[1], r[2])
    BY <1>8 DEF Record
  <2>2. r \in sftLent
    BY DEF Flow, TrainingTypeOK
  <2>3. UNCHANGED <<step, workerStep>> /\ (Early' => Early /\ pc # "publish")
    BY <1>8, <2>1 DEF Record, RecordSuffixSft, workerVars, Early
  <2> QED BY <2>1, <2>2, <2>3, YoungCall DEF Young
<1>9. CASE Publish \/ RecordNode \/ RecordRoot \/ Tidy \/ CountReplay \/ SampleReplay \/ Update \/ Save \/ Restart
  <2>1. ~Early'
    BY <1>9 DEF Publish, RecordNode, RecordRoot, Tidy, CountReplay, SampleReplay, Update, Save, Restart, Early
  <2> QED BY <2>1 DEF Young
<1>10. CASE WorkerStep
  <2>1. UNCHANGED <<pc, after>> /\ Early' = Early
    BY <1>10 DEF WorkerStep, replayVars, Early
  <2>2. step' = step /\ workerStep' = workerStep
    BY <1>10 DEF WorkerStep, Fetch, ReadStep, Respond, PendingTeacherRequests, DispatchEffect,
           OnTeacherResponse, vars, workerVars
  <2>3. CASE Fetch \/ ReadStep
    <3>1. (\E n, s : PendingTeacherRequests(n, s)) \/ UNCHANGED vars
      BY <2>3 DEF Fetch, ReadStep
    <3>2. \A k \in DOMAIN trees' : k \in DOMAIN trees /\ trees'[k].lastRollout = trees[k].lastRollout
      BY <3>1, RolloutStampKept
    <3>3. \A n \in DOMAIN nodes' : n \in DOMAIN nodes /\ nodes'[n].created = nodes[n].created
      BY <3>1, StampBirths DEF SameBirth
    <3> QED BY <2>1, <2>2, <3>2, <3>3 DEF Young
  <2>4. CASE Respond
    <3>1. PICK e \in DOMAIN read, a \in Answers : OnTeacherResponse(e, a, read[e])
      BY <2>4 DEF Respond
    <3>2. read[e] \in 0..workerStep
      BY DEF Flow, TrainingTypeOK
    <3>3. \A k \in DOMAIN trees' : k \in DOMAIN trees /\ trees'[k].lastRollout = trees[k].lastRollout
      BY <3>1, RolloutStampKept
    <3>4. \A n \in DOMAIN nodes' : \/ n \in DOMAIN nodes /\ nodes'[n].created = nodes[n].created
                                   \/ nodes'[n].created = read[e]
      BY <3>1, AnswerBirths DEF SameBirth
    <3>5. Early => \A n \in DOMAIN nodes' : nodes'[n].created < step
      BY <1>0, <3>2, <3>4 DEF Young
    <3> QED BY <2>1, <2>2, <3>3, <3>5 DEF Young
  <2> QED BY <1>10, <2>3, <2>4 DEF WorkerStep
<1>11. CASE UNCHANGED trainingVars
  BY <1>11 DEF trainingVars, vars, workerVars, replayVars, Young, Early
<1> QED BY <1>1, <1>2, <1>3, <1>4, <1>5, <1>6, <1>7, <1>8, <1>9, <1>10, <1>11 DEF Steps, TrainerStep
-----------------------------------------------------------------------------
(* What was counted or sampled is still there when its turn comes.         *)

\* With replay after each step, nothing is out for replay before it.
Unused ==
  Schedule("post_step") /\ pc \in {"batch", "count", "sample", "publish", "nodes", "roots", "ready", "replay"} =>
    sftLent = {} /\ \A k \in DOMAIN trees : trees[k].lastSft # step

LEMMA SftStampKept ==
  ASSUME TypeOK, step' = step,
         \/ \E n : Sample(n)
         \/ \E k, bad, m : RecordRootObservation(k, bad, m)
         \/ \E k, n, bad, m : RecordObservation(k, n, bad, m)
         \/ \E n, s : PendingTeacherRequests(n, s)
         \/ \E e, a, s : OnTeacherResponse(e, a, s)
         \/ CleanupInactiveTrees
         \/ UNCHANGED vars
  PROVE  /\ sftLent' = sftLent
         /\ \A k \in DOMAIN trees' : \/ k \in DOMAIN trees /\ trees'[k].lastSft = trees[k].lastSft
                                     \/ trees'[k].lastSft = Never
<1>0. \A k \in DOMAIN trees : trees[k] \in TreeType
  BY DEF TypeOK
<1>1. CASE (\E e, a, s : OnTeacherResponse(e, a, s)) \/ (\E k, n, bad, m : RecordObservation(k, n, bad, m))
           \/ UNCHANGED vars
  BY <1>1 DEF OnTeacherResponse, RecordObservation, vars, poolVars
<1>2. CASE CleanupInactiveTrees
  BY <1>2, CleanupBirths DEF CleanupInactiveTrees
<1>3. CASE \E n, s : PendingTeacherRequests(n, s)
  <2>1. PICK out, s : DispatchEffect(out, s)
    BY <1>3 DEF PendingTeacherRequests
  <2> QED BY <1>0, <2>1 DEF DispatchEffect, TreeType
<1>4. CASE \E n : Sample(n)
  <2>1. PICK chosen, pick : SampleEffect(chosen, pick)
    BY <1>4 DEF Sample
  <2> QED BY <1>0, <2>1 DEF SampleEffect, TreeType
<1>5. CASE \E k, bad, m : RecordRootObservation(k, bad, m)
  <2>1. PICK k, bad, m : RecordRootObservation(k, bad, m)
    BY <1>5
  <2>2. sftLent' = sftLent /\ (UNCHANGED trees \/ trees' = Put(trees, k, NewTree(nodeCount')))
    BY <2>1 DEF RecordRootObservation, poolVars
  <2> QED BY <2>2 DEF Put, NewTree
<1> QED BY <1>1, <1>2, <1>3, <1>4, <1>5

LEMMA UnusedCall ==
  ASSUME TypeOK, Unused, UNCHANGED <<step, setting>>,
         pc \in {"batch", "count", "sample", "publish", "nodes", "roots", "ready", "replay"},
         \/ \E n : Sample(n)
         \/ \E k, bad, m : RecordRootObservation(k, bad, m)
         \/ \E k, n, bad, m : RecordObservation(k, n, bad, m)
         \/ \E n, s : PendingTeacherRequests(n, s)
         \/ \E e, a, s : OnTeacherResponse(e, a, s)
         \/ CleanupInactiveTrees
         \/ UNCHANGED vars
  PROVE  Unused'
<1>1. step \in Nat
  BY DEF TypeOK
<1> QED BY <1>1, SftStampKept DEF Unused, Schedule, Never

LEMMA NextUnused ==
  ASSUME TypeOK, Flow, Unused, Steps \/ Restart
  PROVE  Unused'
<1> USE DEF Goto
<1> DEFINE Before == {"batch", "count", "sample", "publish", "nodes", "roots", "ready", "replay"}
<1>1. CASE Start \/ Advance
  <2>1. step \in Nat /\ \A k \in DOMAIN trees : trees[k].lastSft \in -1..step
    BY DEF TypeOK, TreeType, Stamp
  <2> QED BY <1>1, <2>1 DEF Start, Advance, NextStep, poolVars, Unused
<1>2. CASE Batch \/ Tidy \/ Count \/ CountReplay \/ Publish \/ SampleBatch
  <2>1. /\ pc \in Before /\ UNCHANGED <<step, setting>>
        /\ (\E n : Sample(n)) \/ CleanupInactiveTrees \/ UNCHANGED vars
    BY <1>2 DEF Batch, Tidy, Count, CountReplay, Publish, SampleBatch, CleanupInactiveTrees, Sample, SampleEffect,
           runVars, vars
  <2> QED BY <2>1, UnusedCall
<1>3. CASE RecordNode \/ RecordRoot
  <2>1. /\ pc \in Before /\ UNCHANGED <<step, setting>>
        /\ (\E k, bad, m : RecordRootObservation(k, bad, m)) \/ (\E k, n, bad, m : RecordObservation(k, n, bad, m))
    BY <1>3 DEF RecordNode, RecordRoot, RecordRootObservation, RecordObservation, runVars
  <2> QED BY <2>1, UnusedCall
<1>4. CASE EndEpoch
  <2>1. CASE Schedule("post_step")
    <3>1. pc \in Before /\ UNCHANGED <<step, setting>> /\ UNCHANGED vars
      BY <1>4, <2>1 DEF EndEpoch, Schedule, runVars, vars
    <3> QED BY <3>1, UnusedCall
  <2>2. CASE ~Schedule("post_step")
    BY <1>4, <2>2 DEF EndEpoch, Freeze, Schedule, runVars, Unused
  <2> QED BY <2>1, <2>2
<1>5. CASE SampleReplay \/ Update \/ EndStep \/ Save \/ Restart
  <2>1. pc' \notin Before
    BY <1>5 DEF SampleReplay, Update, EndStep, Freeze, Save, Restart
  <2> QED BY <2>1 DEF Unused
<1>6. CASE Record \/ NewEpoch \/ Sweep \/ TrainMiniBatch \/ NextPass
  <2>1. pc' \notin Before \/ ~Schedule("post_step")'
    BY <1>6 DEF Record, NewEpoch, Sweep, TrainMiniBatch, NextPass, runVars, Flow, Control, Schedule
  <2> QED BY <2>1 DEF Unused
<1>7. CASE WorkerStep
  <2>1. UNCHANGED <<pc, setting>>
    BY <1>7 DEF WorkerStep, runVars
  <2>2. /\ step' = step
        /\ (\E n, s : PendingTeacherRequests(n, s)) \/ (\E e, a, s : OnTeacherResponse(e, a, s)) \/ UNCHANGED vars
    <3>1. step' = step
      BY <1>7 DEF WorkerStep, Fetch, ReadStep, Respond, PendingTeacherRequests, DispatchEffect, OnTeacherResponse, vars
    <3>2. (\E n, s : PendingTeacherRequests(n, s)) \/ (\E e, a, s : OnTeacherResponse(e, a, s)) \/ UNCHANGED vars
      BY <1>7 DEF WorkerStep, Fetch, ReadStep, Respond
    <3> QED BY <3>1, <3>2
  <2>3. CASE pc \in Before
    BY <2>1, <2>2, <2>3, UnusedCall
  <2>4. CASE pc \notin Before
    BY <2>1, <2>4 DEF Unused
  <2> QED BY <2>3, <2>4
<1>8. CASE UNCHANGED trainingVars
  BY <1>8 DEF trainingVars, vars, runVars, Unused, Schedule
<1> QED BY <1>1, <1>2, <1>3, <1>4, <1>5, <1>6, <1>7, <1>8 DEF Steps, TrainerStep

\* What was counted is there: the worker only adds candidates.
Counted ==
  /\ pc = "sample" => quota <= Cardinality(ReadyTrees)
  /\ pc = "replay" => quota <= Cardinality(SftReadyTrees)

LEMMA NextCounted ==
  ASSUME TypeOK, TypeOK', Flow, Counted, Steps \/ Restart
  PROVE  Counted'
<1> USE DEF Goto
<1>1. CASE Count
  <2>1. quota' <= Cardinality(ReadyTrees) /\ UNCHANGED vars /\ pc' = "sample"
    BY <1>1, Typing, TreesFinite, AtMostBound DEF Count, TreesReady
  <2>2. ReadyTrees' = ReadyTrees
    BY <2>1 DEF vars, ReadyTrees, RolloutCandidates, NodesOf
  <2> QED BY <2>1, <2>2 DEF Counted
<1>2. CASE CountReplay
  <2> DEFINE size == Cardinality(SftReadyTrees)
  <2>1. quota' = (IF size >= SftSlots THEN SftSlots ELSE 0) /\ UNCHANGED vars /\ pc' = "replay"
    BY <1>2 DEF CountReplay
  <2>2. size \in Nat /\ SftSlots \in Nat
    BY Typing, TreesFinite, FS_CardinalityType
  <2>3. SftReadyTrees' = SftReadyTrees
    BY <2>1 DEF vars, SftReadyTrees, SftCandidates, RolloutCandidates, NodesOf
  <2> HIDE DEF size
  <2>4. quota' <= size
    BY <2>1, <2>2
  <2> QED BY <2>1, <2>3, <2>4 DEF Counted, size
<1>3. CASE WorkerStep
  <2>1. UNCHANGED <<pc, quota>>
    BY <1>3 DEF WorkerStep, stepVars
  <2>2. ReadyTrees \subseteq ReadyTrees' /\ SftReadyTrees \subseteq SftReadyTrees'
    BY <1>3, WorkerStays, CandidatesStay
  <2>3. IsFiniteSet(ReadyTrees') /\ IsFiniteSet(SftReadyTrees')
    <3>1. IsFiniteSet(DOMAIN trees')
      BY PoolAssumption, FS_Subset DEF TypeOK, PoolAssumption
    <3>2. ReadyTrees' \subseteq DOMAIN trees' /\ SftReadyTrees' \subseteq DOMAIN trees'
      BY DEF ReadyTrees, SftReadyTrees
    <3> QED BY <3>1, <3>2, FS_Subset
  <2>4. /\ Cardinality(ReadyTrees) <= Cardinality(ReadyTrees')
        /\ Cardinality(SftReadyTrees) <= Cardinality(SftReadyTrees')
    BY <2>2, <2>3, FS_Subset
  <2>5. /\ Cardinality(ReadyTrees) \in Nat /\ Cardinality(ReadyTrees') \in Nat
        /\ Cardinality(SftReadyTrees) \in Nat /\ Cardinality(SftReadyTrees') \in Nat
    BY <2>3, TreesFinite, FS_CardinalityType
  <2>6. (pc = "sample" \/ pc = "replay") => quota \in Nat
    BY DEF Flow, TrainingTypeOK
  <2>7. \A q, a, b \in Nat : q <= a /\ a <= b => q <= b
    OBVIOUS
  <2>8. pc = "sample" => quota <= Cardinality(ReadyTrees')
    BY <2>4, <2>5, <2>6, <2>7 DEF Counted
  <2>9. pc = "replay" => quota <= Cardinality(SftReadyTrees')
    BY <2>4, <2>5, <2>6, <2>7 DEF Counted
  <2> QED BY <2>1, <2>8, <2>9 DEF Counted
<1>4. CASE UNCHANGED trainingVars
  <2>1. UNCHANGED <<pc, quota>> /\ ReadyTrees' = ReadyTrees /\ SftReadyTrees' = SftReadyTrees
    BY <1>4 DEF trainingVars, vars, stepVars, ReadyTrees, SftReadyTrees, SftCandidates, RolloutCandidates, NodesOf
  <2> QED BY <2>1 DEF Counted
<1>5. CASE ~(Count \/ CountReplay \/ WorkerStep \/ UNCHANGED trainingVars)
  <2>1. pc' # "sample" /\ pc' # "replay"
    BY <1>5 DEF Steps, TrainerStep, Start, Batch, SampleBatch, Publish, RecordNode, RecordRoot,
           Tidy, SampleReplay, Update, Record, EndStep, EndEpoch, NewEpoch, BeginEpoch, Sweep, TrainMiniBatch,
           NextPass, Save, Advance, Freeze, Restart, Flow, TrainingTypeOK
  <2> QED BY <2>1 DEF Counted
<1> QED BY <1>1, <1>2, <1>3, <1>4, <1>5

\* What was sampled or frozen for replay stays a candidate.
LEMMA NextTrainable ==
  ASSUME TypeOK, TreeShape, Flow, Unused, ReplayStaysTrainable, Steps \/ Restart
  PROVE  ReplayStaysTrainable'
<1> USE DEF Goto
<1> DEFINE Replay == \/ pc \in {"update", "record"} /\ setting.schedule = "post_step"
                     \/ pc \in {"sweep", "passes"}
<1>1. ASSUME sftLent' \subseteq sftLent, Replay' => Replay,
             \A k, n : SftTrainable(k, n) => SftTrainable(k, n)'
      PROVE  ReplayStaysTrainable'
  BY <1>1 DEF ReplayStaysTrainable
<1>2. ASSUME NodesStay, sftLent' \subseteq sftLent, Replay' => Replay
      PROVE  ReplayStaysTrainable'
  BY <1>1, <1>2, CandidatesStay
<1>3. CASE SampleReplay
  <2>1. CASE SampleSuffixSft(quota)
    <3>1. PICK chosen \in SUBSET SftReadyTrees : \E pick \in [chosen -> DOMAIN nodes] :
            /\ \A k \in chosen : pick[k] \in LeastUsed(SftCandidates(k), NodeSftKey)
            /\ sftLent' = {<<k, pick[k]>> : k \in chosen}
      BY <2>1 DEF SampleSuffixSft
    <3>2. PICK pick \in [chosen -> DOMAIN nodes] :
            /\ \A k \in chosen : pick[k] \in LeastUsed(SftCandidates(k), NodeSftKey)
            /\ sftLent' = {<<k, pick[k]>> : k \in chosen}
      BY <3>1
    <3>3. \A r \in sftLent' : SftTrainable(r[1], r[2])
      BY <3>2 DEF SftTrainable, SftReadyTrees, LeastUsed
    <3>4. quota = SftSlots \/ quota = 0
      BY <1>3 DEF SampleReplay, Flow, Control
    <3>5. quota = SftSlots
      BY <2>1, <3>4 DEF SampleSuffixSft
    <3>6. NodesStay
      BY <2>1, <3>5, StampsStay
    <3> QED BY <3>3, <3>6, CandidatesStay DEF ReplayStaysTrainable
  <2>2. CASE UNCHANGED vars
    <3>1. sftLent' = {} \/ ~Schedule("post_step")'
      BY <1>3, <2>2 DEF SampleReplay, Unused, vars, runVars, Schedule
    <3>2. pc' = "update"
      BY <1>3 DEF SampleReplay
    <3> QED BY <3>1, <3>2 DEF ReplayStaysTrainable, Schedule
  <2> QED BY <1>3, <2>1, <2>2 DEF SampleReplay
<1>4. ASSUME NEW lo, NEW hi, Freeze(lo, hi)
      PROVE  ReplayStaysTrainable'
  <2>1. NodesStay
    BY <1>4, StampsStay DEF Freeze
  <2>2. \A a, b : \A r \in FrozenRoutes(a, b) : SftTrainable(r[1], r[2])
    BY DEF FrozenRoutes, SftTrainable, TreeShape
  <2>3. \A r \in sftLent' : SftTrainable(r[1], r[2])
    BY <1>4, <2>2 DEF Freeze
  <2> QED BY <2>1, <2>3, CandidatesStay DEF ReplayStaysTrainable
<1>5. CASE EndStep \/ EndEpoch
  <2>1. (\E lo, hi : Freeze(lo, hi)) \/ pc' \in {"save", "batch"}
    BY <1>5 DEF EndStep, EndEpoch, BeginEpoch
  <2>2. pc' \in {"save", "batch"} => ReplayStaysTrainable'
    BY DEF ReplayStaysTrainable
  <2> QED BY <1>4, <2>1, <2>2
<1>6. CASE Sweep
  <2>1. CleanupInactiveTrees /\ sftLent' = sftLent /\ Replay
    BY <1>6 DEF Sweep, SweepTrees, CleanupInactiveTrees
  <2> QED BY <1>1, <2>1, CleanupKeeps
<1>7. CASE Update \/ NextPass \/ UNCHANGED trainingVars
  <2>1. UNCHANGED vars /\ (Replay' => Replay)
    BY <1>7 DEF Update, NextPass, trainingVars, runVars, Flow, TrainingTypeOK
  <2>2. NodesStay /\ sftLent' = sftLent
    BY <2>1, StampsStay DEF vars
  <2> QED BY <1>2, <2>1, <2>2
<1>8. CASE TrainMiniBatch
  <2>0. SftSlots \in Nat /\ left \subseteq sftLent
    BY Typing DEF Flow, TrainingTypeOK
  <2>1. PICK b \in MiniBatches : MarkSuffixSftSampled(b) \/ UNCHANGED vars
    BY <1>8 DEF TrainMiniBatch
  <2>2. b \in FullBatches
    BY <2>0 DEF MiniBatches, FullBatches
  <2>3. sftLent' = sftLent /\ Replay
    BY <1>8, <2>1 DEF TrainMiniBatch, MarkSuffixSftSampled, vars
  <2> QED BY <1>2, <2>1, <2>2, <2>3, StampsStay
<1>9. CASE Record
  <2>1. PICK r \in todo : RecordSuffixSft(r[1], r[2])
    BY <1>9 DEF Record
  <2>2. r \in sftLent
    BY DEF Flow, TrainingTypeOK
  <2>3. sftLent' = sftLent /\ (Replay' => Replay)
    BY <1>9, <2>1 DEF Record, RecordSuffixSft, runVars
  <2> QED BY <1>2, <2>1, <2>2, <2>3, StampsStay
<1>10. CASE WorkerStep
  <2>1. Replay' => Replay
    BY <1>10 DEF WorkerStep, runVars
  <2>2. sftLent' = sftLent
    BY <1>10 DEF WorkerStep, Fetch, ReadStep, Respond, PendingTeacherRequests, DispatchEffect,
           OnTeacherResponse, vars
  <2> QED BY <1>2, <1>10, <2>1, <2>2, WorkerStays
<1>11. CASE Start \/ Batch \/ Count \/ SampleBatch \/ Publish \/ RecordNode \/ RecordRoot \/ CountReplay
            \/ NewEpoch \/ Save \/ Advance \/ Restart
  <2>1. ~Replay'
    BY <1>11 DEF Start, BeginEpoch, Batch, Count, SampleBatch, Publish, RecordNode, RecordRoot, CountReplay,
           NewEpoch, Save, Advance, Restart
  <2> QED BY <2>1 DEF ReplayStaysTrainable
<1>12. CASE Tidy
  <2>1. ~Replay'
    BY <1>12 DEF Tidy, runVars
  <2> QED BY <2>1 DEF ReplayStaysTrainable
<1> HIDE DEF Replay
<1> QED BY <1>3, <1>5, <1>6, <1>7, <1>8, <1>9, <1>10, <1>11, <1>12 DEF Steps, TrainerStep

LEMMA PlansHold == TrainingSpec => [](Young /\ Unused /\ Counted /\ ReplayStaysTrainable)
<1> DEFINE Base == Inv /\ Flow /\ SavedPool
           Plans == Young /\ Unused /\ Counted /\ ReplayStaysTrainable
<1>1. TrainingInit => Plans
  BY DEF TrainingInit, Young, Early, Unused, Counted, ReplayStaysTrainable
<1>2. Base /\ Base' /\ Plans /\ [TrainingNext]_trainingVars => Plans'
  BY StepsAre, NextYoung, NextUnused, NextCounted, NextTrainable DEF Inv
<1>3. TrainingSpec => []Base
  BY PoolHolds
<1> QED BY <1>1, <1>2, <1>3, PTL DEF TrainingSpec

\* Between counting what can be sampled and sampling it, and between sampling
\* or freezing suffixes for replay and training them passes later, whatever the
\* worker's thread does leaves the plan feasible: the assertion of
\* _sample_current_forest_suffix_sft_batch never fails and no mini-batch of
\* _run_epoch_local_suffix_sft_phase is dropped as stale.
THEOREM PlansStayFeasible == TrainingSpec => []PlansStillHold
<1>1. Flow /\ Young /\ Counted => CountsStillHold
  <2> SUFFICES ASSUME Flow, Young, Counted PROVE CountsStillHold
    OBVIOUS
  <2>1. ASSUME pc = "sample" PROVE Eligible = ReadyTrees
    BY <2>1 DEF Young, Early, Eligible, ReadyTrees
  <2> QED BY <2>1 DEF Counted, CountsStillHold
<1>2. Flow /\ Young /\ Counted /\ ReplayStaysTrainable => PlansStillHold
  BY <1>1 DEF PlansStillHold
<1> QED BY <1>2, PoolHolds, PlansHold, PTL
-----------------------------------------------------------------------------
(* The teacher's events across the phases of fit().                        *)

NoEvents == DOMAIN events = {}

\* Only the observations of rollouts bring events, after the worker heard of
\* their step.
Told == pc \in {"nodes", "roots"} => workerStep = step

\* The freeze leaves none.
Frozen == pc \in {"sweep", "passes", "epoch"} => events = << >>

LEMMA EventsShrink ==
  ASSUME \/ NextStep
         \/ \E n : Sample(n)
         \/ \E n, s : PendingTeacherRequests(n, s)
         \/ \E e, a, s : OnTeacherResponse(e, a, s)
         \/ CleanupInactiveTrees
         \/ \E n : SampleSuffixSft(n)
         \/ \E k, n : RecordSuffixSft(k, n)
         \/ ClearTeacherEvents
         \/ \E routes : MarkSuffixSftSampled(routes)
         \/ UNCHANGED vars
  PROVE  DOMAIN events' \subseteq DOMAIN events
<1>1. CASE \E n : Sample(n)
  BY <1>1 DEF Sample, SampleEffect
<1>2. CASE \E n, s : PendingTeacherRequests(n, s)
  BY <1>2 DEF PendingTeacherRequests, DispatchEffect
<1>3. CASE \E e, a, s : OnTeacherResponse(e, a, s)
  BY <1>3 DEF OnTeacherResponse, PopEvent, Without, Restrict
<1>4. CASE ClearTeacherEvents
  BY <1>4 DEF ClearTeacherEvents
<1>5. CASE NextStep \/ CleanupInactiveTrees \/ UNCHANGED vars
  BY <1>5 DEF NextStep, poolVars, CleanupInactiveTrees, vars
<1>6. CASE (\E n : SampleSuffixSft(n)) \/ (\E k, n : RecordSuffixSft(k, n)) \/ (\E routes : MarkSuffixSftSampled(routes))
  BY <1>6 DEF SampleSuffixSft, RecordSuffixSft, MarkSuffixSftSampled
<1> QED BY <1>1, <1>2, <1>3, <1>4, <1>5, <1>6

LEMMA StepEvents ==
  ASSUME Steps, pc \notin {"nodes", "roots"} \/ WorkerStep
  PROVE  DOMAIN events' \subseteq DOMAIN events
<1>1. CASE Start \/ Advance
  BY <1>1, EventsShrink DEF Start, Advance
<1>2. CASE Batch \/ Sweep
  BY <1>2, EventsShrink DEF Batch, Sweep, SweepTrees
<1>3. CASE SampleBatch \/ SampleReplay
  BY <1>3, EventsShrink DEF SampleBatch, SampleReplay
<1>4. CASE EndStep \/ EndEpoch
  BY <1>4, EventsShrink DEF EndStep, EndEpoch, Freeze
<1>5. CASE TrainMiniBatch \/ Record
  BY <1>5, EventsShrink DEF TrainMiniBatch, Record
<1>6. CASE Count \/ Publish \/ CountReplay \/ Update \/ NewEpoch \/ NextPass \/ Save \/ UNCHANGED trainingVars
  BY <1>6, EventsShrink DEF Count, Publish, CountReplay, Update, NewEpoch, NextPass, Save, trainingVars
<1>7. CASE WorkerStep
  <2>1. CASE Fetch
    BY <2>1, EventsShrink DEF Fetch
  <2>2. CASE ReadStep
    BY <2>2, EventsShrink DEF ReadStep
  <2>3. CASE Respond
    BY <2>3, EventsShrink DEF Respond
  <2> QED BY <1>7, <2>1, <2>2, <2>3 DEF WorkerStep
<1>8. CASE RecordNode \/ RecordRoot \/ Tidy
  <2>1. pc \in {"nodes", "roots"}
    BY <1>8 DEF RecordNode, RecordRoot, Tidy
  <2> QED BY <1>7, <2>1
<1> QED BY <1>1, <1>2, <1>3, <1>4, <1>5, <1>6, <1>7, <1>8 DEF Steps, TrainerStep

LEMMA TidyEvents == ASSUME Tidy PROVE DOMAIN events' = DOMAIN events
BY DEF Tidy, CleanupInactiveTrees

\* Without events the worker changes nothing of the forest.
LEMMA QuietWorker ==
  ASSUME NoEvents, WorkerStep
  PROVE  UNCHANGED <<trees, nodes, nodeCount>> /\ (events = << >> => events' = << >>)
<1>1. CASE Fetch
  <2>1. \A k : SelectedEvents(k) = {}
    BY DEF NoEvents, SelectedEvents, Dispatchable
  <2> QED BY <1>1, <2>1 DEF Fetch, PendingTeacherRequests
<1>2. CASE ReadStep
  BY <1>2 DEF ReadStep, vars
<1>3. CASE Respond
  <2>1. PICK e \in DOMAIN read, a \in Answers : OnTeacherResponse(e, a, read[e])
    BY <1>3 DEF Respond
  <2>2. Verdict(e, a) # {"success"}
    BY DEF NoEvents, Verdict
  <2>3. events' = [d \in DOMAIN events \ {e} |-> events[d]]
    BY <2>1 DEF OnTeacherResponse, PopEvent, Without, Restrict
  <2>4. events = << >> => events' = << >>
    BY <2>3
  <2> QED BY <2>1, <2>2, <2>4 DEF OnTeacherResponse
<1> QED BY <1>1, <1>2, <1>3 DEF WorkerStep

LEMMA NextTold ==
  ASSUME Told, Flow, Steps \/ Restart
  PROVE  Told'
<1> USE DEF Goto
<1>1. CASE Publish
  BY <1>1 DEF Publish, CurrentStep, vars, Told
<1>2. CASE RecordNode \/ RecordRoot
  BY <1>2 DEF RecordNode, RecordRoot, RecordObservation, RecordRootObservation, workerVars, Told
<1>3. CASE WorkerStep
  <2>1. pc' = pc
    BY <1>3 DEF WorkerStep
  <2>2. UNCHANGED <<workerStep, step>>
    BY <1>3 DEF WorkerStep, Fetch, ReadStep, Respond, PendingTeacherRequests, DispatchEffect,
           OnTeacherResponse, vars, workerVars
  <2> QED BY <2>1, <2>2 DEF Told
<1>4. CASE UNCHANGED trainingVars
  BY <1>4 DEF trainingVars, vars, workerVars, Told
<1>5. CASE Count \/ CountReplay \/ Start \/ Batch \/ SampleBatch \/ Tidy \/ SampleReplay \/ Update
  BY <1>5 DEF Start, Batch, Count, SampleBatch, Tidy, CountReplay, SampleReplay, Update, BeginEpoch, Told
<1>6. CASE EndEpoch \/ NewEpoch \/ TrainMiniBatch \/ Record \/ Save \/ Advance \/ Restart
  BY <1>6 DEF EndEpoch, NewEpoch, TrainMiniBatch, Record, Save, Advance, Restart, BeginEpoch, Freeze, Told
<1>7. CASE EndStep
  BY <1>7 DEF EndStep, Freeze, Told
<1>8. CASE Sweep \/ NextPass
  <2>1. pc' \in {"passes", after} /\ after \in {"save", "epoch"}
    BY <1>8 DEF Sweep, NextPass, Flow, TrainingTypeOK
  <2> QED BY <2>1 DEF Told
<1> QED BY <1>1, <1>2, <1>3, <1>4, <1>5, <1>6, <1>7, <1>8 DEF Steps, TrainerStep

LEMMA NextFrozen ==
  ASSUME Frozen, Flow, Steps \/ Restart
  PROVE  Frozen'
<1> USE DEF Goto
<1> DEFINE Phase == {"sweep", "passes", "epoch"}
<1>1. ASSUME NEW lo, NEW hi, Freeze(lo, hi) PROVE Frozen'
  BY <1>1 DEF Freeze, ClearTeacherEvents, Frozen, NoEvents
<1>2. CASE EndStep \/ EndEpoch
  <2>1. (\E lo, hi : Freeze(lo, hi)) \/ pc' \in {"save", "batch"}
    BY <1>2 DEF EndStep, EndEpoch, BeginEpoch
  <2>2. pc' \in {"save", "batch"} => Frozen'
    BY DEF Frozen
  <2> QED BY <1>1, <2>1, <2>2
<1>3. CASE Steps /\ pc' \in Phase /\ pc \in Phase
  <2>1. events = << >> /\ NoEvents
    BY <1>3 DEF Frozen, NoEvents
  <2>2. CASE WorkerStep
    BY <2>1, <2>2, QuietWorker DEF Frozen
  <2>3. CASE Sweep \/ Record \/ NewEpoch \/ NextPass \/ UNCHANGED trainingVars
    BY <2>1, <2>3 DEF Sweep, SweepTrees, CleanupInactiveTrees, Record, RecordSuffixSft, NewEpoch, NextPass,
           trainingVars, vars, Frozen
  <2>4. CASE TrainMiniBatch
    BY <2>1, <2>4 DEF TrainMiniBatch, MarkSuffixSftSampled, vars, Frozen
  <2>5. ~(Start \/ Batch \/ Count \/ SampleBatch \/ Publish \/ RecordNode \/ RecordRoot \/ Tidy \/ CountReplay
          \/ SampleReplay \/ Update \/ EndStep \/ EndEpoch \/ Save \/ Advance)
    BY <1>3 DEF Start, Batch, Count, SampleBatch, Publish, RecordNode, RecordRoot, Tidy, CountReplay, SampleReplay,
           Update, EndStep, EndEpoch, Save, Advance
  <2> QED BY <1>3, <2>2, <2>3, <2>4, <2>5 DEF Steps, TrainerStep
<1>4. CASE ~(EndStep \/ EndEpoch) /\ Steps /\ pc \notin Phase
  <2>1. pc' \notin Phase
    <3>1. CASE WorkerStep \/ UNCHANGED trainingVars
      BY <1>4, <3>1 DEF WorkerStep, trainingVars
    <3>2. CASE ~(WorkerStep \/ UNCHANGED trainingVars)
      BY <1>4, <3>2 DEF Steps, TrainerStep, Start, Batch, Count, SampleBatch, Publish, RecordNode, RecordRoot,
             Tidy, CountReplay, SampleReplay, Update, Record, NewEpoch, BeginEpoch, Sweep, TrainMiniBatch,
             NextPass, Save, Advance
    <3> QED BY <3>1, <3>2
  <2> QED BY <2>1 DEF Frozen
<1>5. CASE pc' \notin Phase
  BY <1>5 DEF Frozen
<1>6. CASE Restart
  BY <1>6 DEF Restart, Frozen
<1> QED BY <1>2, <1>3, <1>4, <1>5, <1>6

\* After the sweep every tree has an active node, and nothing changes that.
Swept == pc \in {"passes", "epoch"} => \A k \in DOMAIN trees : \E n \in NodesOf(k) : nodes[n].active

LEMMA NextSwept ==
  ASSUME TypeOK, Flow, Frozen, Swept, Steps \/ Restart
  PROVE  Swept'
<1> USE DEF Goto
<1>1. ASSUME pc \in {"passes", "epoch"}, NodesStay, DOMAIN trees' = DOMAIN trees
      PROVE  Swept'
  BY <1>1 DEF Swept, NodesStay, NodesOf
<1>2. CASE Sweep
  <2>1. CleanupInactiveTrees /\ NoEvents
    BY <1>2 DEF Sweep, SweepTrees, Frozen, NoEvents
  <2>2. \A k \in DOMAIN trees \ Removable : \E n \in NodesOf(k) : nodes[n].active
    BY <2>1 DEF NoEvents, Removable
  <2>3. /\ DOMAIN trees' = DOMAIN trees \ Removable
        /\ DOMAIN nodes' = {m \in DOMAIN nodes : nodes[m].tree \notin Removable}
        /\ \A m \in DOMAIN nodes' : nodes'[m] = nodes[m]
    BY <2>1 DEF CleanupInactiveTrees, Without, Restrict
  <2> QED BY <2>2, <2>3 DEF Swept, NodesOf
<1>3. CASE TrainMiniBatch
  <2>0. SftSlots \in Nat /\ left \subseteq sftLent
    BY Typing DEF Flow, TrainingTypeOK
  <2>1. PICK b \in MiniBatches : MarkSuffixSftSampled(b) \/ UNCHANGED vars
    BY <1>3 DEF TrainMiniBatch
  <2>2. b \in FullBatches
    BY <2>0 DEF MiniBatches, FullBatches
  <2>3. NodesStay /\ DOMAIN trees' = DOMAIN trees
    BY <2>1, <2>2, StampsStay, StampSameShape DEF SameShape
  <2>4. pc = "passes"
    BY <1>3 DEF TrainMiniBatch
  <2> QED BY <1>1, <2>3, <2>4
<1>4. CASE Record
  <2>1. PICK r \in todo : RecordSuffixSft(r[1], r[2])
    BY <1>4 DEF Record
  <2>2. r \in sftLent
    BY DEF Flow, TrainingTypeOK
  <2>3. NodesStay /\ DOMAIN trees' = DOMAIN trees
    BY <2>1, <2>2, StampsStay, StampSameShape DEF SameShape
  <2>4. pc' = pc /\ (pc = "record" \/ pc = "passes")
    BY <1>4 DEF Record
  <2> QED BY <1>1, <2>3, <2>4 DEF Swept
<1>5. CASE NextPass \/ UNCHANGED trainingVars
  <2>1. UNCHANGED vars /\ (pc' \in {"passes", "epoch"} => pc \in {"passes", "epoch"})
    BY <1>5 DEF NextPass, trainingVars
  <2>2. NodesStay /\ DOMAIN trees' = DOMAIN trees
    BY <2>1, StampsStay DEF vars
  <2> QED BY <1>1, <2>1, <2>2 DEF Swept
<1>6. CASE WorkerStep
  <2>1. pc' = pc
    BY <1>6 DEF WorkerStep
  <2>2. CASE pc \in {"passes", "epoch"}
    <3>1. UNCHANGED <<trees, nodes, nodeCount>>
      BY <1>6, <2>2, QuietWorker DEF Frozen, NoEvents
    <3> QED BY <1>1, <2>2, <3>1 DEF NodesStay
  <2>3. CASE pc \notin {"passes", "epoch"}
    BY <2>1, <2>3 DEF Swept
  <2> QED BY <2>2, <2>3
<1>7. CASE ~(Sweep \/ TrainMiniBatch \/ Record \/ NextPass \/ UNCHANGED trainingVars \/ WorkerStep)
  <2>1. pc' \notin {"passes", "epoch"}
    BY <1>7 DEF Steps, TrainerStep, Start, Batch, Count, SampleBatch, Publish, RecordNode, RecordRoot,
           Tidy, CountReplay, SampleReplay, Update, EndStep, EndEpoch, NewEpoch, BeginEpoch,
           Save, Advance, Freeze, Restart
  <2> QED BY <2>1 DEF Swept
<1> QED BY <1>2, <1>3, <1>4, <1>5, <1>6, <1>7
LEMMA PhasesHold == TrainingSpec => [](Told /\ Frozen /\ Swept)
<1> DEFINE Base == Inv /\ Flow
           Phases == Told /\ Frozen /\ Swept
<1>1. TrainingInit => Phases
  BY DEF TrainingInit, Told, Frozen, Swept
<1>2. Base /\ Phases /\ [TrainingNext]_trainingVars => Phases'
  BY StepsAre, NextTold, NextFrozen, NextSwept DEF Inv
<1>3. TrainingSpec => []Base
  BY PoolHolds, PTL
<1> QED BY <1>1, <1>2, <1>3, PTL DEF TrainingSpec

\* The clean-up of _run_epoch_local_suffix_sft_phase finds no teacher work in
\* its way, and while the frozen epoch is trained no late answer brings back
\* work or a tree that has none: for any number of passes and of answers.
THEOREM CleanPhases == TrainingSpec => []PhaseSweepsClean
<1>1. Frozen /\ Swept => PhaseSweepsClean
  BY DEF Frozen, Swept, PhaseSweepsClean
<1> QED BY <1>1, PhasesHold, PTL

-----------------------------------------------------------------------------
(* The window of an epoch, in epoch-local replay.                          *)

Ended == yielded - skipped >= setting.epochLen

\* No event is under way when an epoch begins; those enqueued in it are
\* answered with a step of it, unless a restart left the epoch's first part
\* to another process.
WindowOpens ==
  /\ pc \in {"save", "next", "batch"} /\ Ended => NoEvents
  /\ pc # "start" /\ skipped = 0 =>
       /\ DOMAIN events # {} => workerStep >= epochStart
       /\ \A e \in DOMAIN events \cap DOMAIN read : read[e] >= epochStart
  /\ pc = "start" /\ yielded = 0 => NoEvents

Window == Schedule("epoch_local") => WindowOpens

\* Only the worker makes a child, from an event under way and with the step
\* it read for it; only a pool that has one answers with one.
LEMMA StepBirths ==
  ASSUME TypeOK, TreeShape, Flow, Steps
  PROVE  \A n \in DOMAIN nodes' :
           \/ n \in DOMAIN nodes /\ SameBirth(n)
           \/ /\ Newborn(n)
              /\ \/ nodes'[n].parent = NoParent
                 \/ WorkerStep /\ \E e \in DOMAIN events \cap DOMAIN read : nodes'[n].created = read[e]
<1>0. SftSlots \in Nat /\ left \subseteq sftLent /\ todo \subseteq sftLent
  BY Typing DEF Flow, TrainingTypeOK
<1>1. CASE Start \/ Advance
  BY <1>1, StampBirths DEF Start, Advance
<1>2. CASE Batch \/ Tidy \/ Sweep
  BY <1>2, CleanupBirths DEF Batch, Tidy, Sweep, SweepTrees, SameBirth
<1>3. CASE SampleBatch
  BY <1>3, StampBirths DEF SampleBatch
<1>4. CASE SampleReplay
  <2>1. quota > 0 => quota = SftSlots
    BY <1>4 DEF SampleReplay, Flow, Control
  <2>2. SampleSuffixSft(SftSlots) \/ UNCHANGED vars
    BY <1>4, <2>1 DEF SampleReplay
  <2> QED BY <2>2, StampBirths
<1>5. CASE RecordNode
  BY <1>5, ObservationBirths DEF RecordNode
<1>6. CASE RecordRoot
  <2>1. PICK k \in feed, o \in Outcomes : RecordRootObservation(k, o[1], o[2])
    BY <1>6 DEF RecordRoot
  <2>2. k \in Prompt
    BY DEF Flow, TrainingTypeOK
  <2> QED BY <2>1, <2>2, RootBirths
<1>7. CASE Record
  BY <1>7, RecordBirths DEF Record
<1>8. CASE EndStep \/ EndEpoch
  BY <1>8, StampBirths DEF EndStep, EndEpoch, Freeze
<1>9. CASE TrainMiniBatch
  <2>1. PICK b \in MiniBatches : MarkSuffixSftSampled(b) \/ UNCHANGED vars
    BY <1>9 DEF TrainMiniBatch
  <2>2. b \in FullBatches
    BY <1>0 DEF MiniBatches, FullBatches
  <2> QED BY <2>1, <2>2, StampBirths
<1>10. CASE WorkerStep
  <2>1. CASE Fetch
    BY <2>1, StampBirths DEF Fetch
  <2>2. CASE ReadStep
    BY <2>2, StampBirths DEF ReadStep
  <2>3. CASE Respond
    <3>1. PICK e \in DOMAIN read, a \in Answers : OnTeacherResponse(e, a, read[e])
      BY <2>3 DEF Respond
    <3>2. /\ \A n \in DOMAIN nodes : n \in DOMAIN nodes' /\ SameBirth(n)
          /\ \A n \in DOMAIN nodes' \ DOMAIN nodes :
               Newborn(n) /\ nodes'[n].created = read[e] /\ e \in DOMAIN events
      BY <3>1, AnswerBirths
    <3> QED BY <1>10, <3>2
  <2> QED BY <1>10, <2>1, <2>2, <2>3 DEF WorkerStep
<1>11. CASE Count \/ Publish \/ CountReplay \/ Update \/ NewEpoch \/ NextPass \/ Save \/ UNCHANGED trainingVars
  BY <1>11, StampBirths DEF Count, Publish, CountReplay, Update, NewEpoch, NextPass, Save, trainingVars
<1> QED BY <1>1, <1>2, <1>3, <1>4, <1>5, <1>6, <1>7, <1>8, <1>9, <1>10, <1>11 DEF Steps, TrainerStep
LEMMA NextWindow ==
  ASSUME TypeOK, TreeShape, Flow, Told, Frozen, Window, SavedLoader, Steps \/ Restart
  PROVE  Window'
<1> SUFFICES ASSUME Schedule("epoch_local")' PROVE WindowOpens'
  BY DEF Window
<1> USE DEF Goto
<1>0. /\ step \in Nat /\ workerStep \in Nat /\ epochStart \in 0..step
      /\ setting.epochLen \in Nat \ {0} /\ yielded \in Nat /\ skipped \in 0..yielded
      /\ DOMAIN read \subseteq EventId /\ \A e \in DOMAIN read : read[e] \in Nat
  BY Typing DEF TypeOK, Flow, TrainingTypeOK
<1>1. setting' = setting
  BY DEF Steps, TrainerStep, WorkerStep, Start, Batch, Count, SampleBatch, Publish, RecordNode, RecordRoot,
         Tidy, CountReplay, SampleReplay, Update, Record, EndStep, EndEpoch, NewEpoch, Sweep, TrainMiniBatch,
         NextPass, Save, Advance, Freeze, runVars, trainingVars, Restart
<1>2. Schedule("epoch_local") /\ WindowOpens
  BY <1>1 DEF Window, Schedule
<1>3. ASSUME pc # "start", pc' # "start", UNCHANGED <<skipped, epochStart, workerStep, read>>,
             DOMAIN events' \subseteq DOMAIN events,
             pc' \in {"save", "next", "batch"} /\ Ended' => DOMAIN events' = {}
      PROVE  WindowOpens'
  BY <1>2, <1>3 DEF WindowOpens, NoEvents
<1>4. ASSUME pc' # "start", DOMAIN events' = {}
      PROVE  WindowOpens'
  BY <1>4 DEF WindowOpens, NoEvents
<1>5. CASE Start
  <2>1. pc' = "batch" /\ yielded' = yielded /\ skipped' = yielded /\ UNCHANGED events /\ pc = "start"
    BY <1>5 DEF Start, BeginEpoch, NextStep, poolVars
  <2>2. ~Ended'
    BY <1>0, <1>1, <2>1 DEF Ended
  <2>3. skipped' = 0 => DOMAIN events' = {}
    BY <1>2, <2>1 DEF WindowOpens, NoEvents
  <2> QED BY <2>1, <2>2, <2>3 DEF WindowOpens
<1>6. CASE Batch \/ Count \/ SampleBatch \/ Tidy \/ CountReplay \/ SampleReplay \/ Update \/ TrainMiniBatch \/ Record
  <2>1. UNCHANGED <<skipped, epochStart, workerStep, read>> /\ pc # "start" /\ pc' \notin {"start", "save", "next", "batch"}
    BY <1>6 DEF Batch, Count, SampleBatch, Tidy, CountReplay, SampleReplay, Update, TrainMiniBatch, Record,
           loopVars, workerVars
  <2>2. DOMAIN events' \subseteq DOMAIN events
    <3>1. Steps
      BY <1>6 DEF Steps, TrainerStep
    <3>2. Tidy \/ pc \notin {"nodes", "roots"}
      BY <1>6 DEF Batch, Count, SampleBatch, Tidy, CountReplay, SampleReplay, Update, TrainMiniBatch, Record
    <3> QED BY <3>1, <3>2, StepEvents, TidyEvents
  <2> QED BY <1>3, <2>1, <2>2
<1>7. CASE Publish
  <2>1. UNCHANGED <<skipped, epochStart, read, events>> /\ workerStep' = step /\ pc' = "nodes" /\ pc = "publish"
    BY <1>7 DEF Publish, CurrentStep, vars, loopVars
  <2> QED BY <1>0, <1>2, <2>1 DEF WindowOpens
<1>8. CASE RecordNode \/ RecordRoot
  <2>1. /\ UNCHANGED <<skipped, epochStart, workerStep, read>> /\ pc \in {"nodes", "roots"} /\ pc' \in {"nodes", "roots"}
    BY <1>8 DEF RecordNode, RecordRoot, loopVars, workerVars
  <2>2. workerStep' >= epochStart'
    BY <1>0, <2>1 DEF Told
  <2>3. \A ns, k, n, bad, m : Observe(ns, k, n, bad, m) => DOMAIN events' \cap EventId \subseteq DOMAIN events
    <3> SUFFICES ASSUME NEW ns, NEW k, NEW n, NEW bad, NEW m, Observe(ns, k, n, bad, m)
                 PROVE  DOMAIN events' \cap EventId \subseteq DOMAIN events
      OBVIOUS
    <3> DEFINE new == (count.enqueued + 1)..(count.enqueued + m)
    <3>1. DOMAIN events' = DOMAIN events \/ DOMAIN events' = DOMAIN events \cup new
      BY DEF Observe, EnqueueEvents
    <3>2. new \cap EventId = {}
      <4>1. count.enqueued \in Nat
        BY DEF TypeOK, Counters
      <4> QED BY <4>1 DEF EventId
    <3> QED BY <3>1, <3>2
  <2>4. DOMAIN events' \cap EventId \subseteq DOMAIN events
    <3>1. (\E ns, k, n, bad, m : Observe(ns, k, n, bad, m)) \/ UNCHANGED events
      BY <1>8 DEF RecordNode, RecordRoot, RecordObservation, RecordRootObservation, poolVars
    <3> QED BY <2>3, <3>1
  <2>5. \A e \in DOMAIN events' \cap DOMAIN read' : e \in DOMAIN events \cap DOMAIN read
    BY <1>0, <2>1, <2>4
  <2> QED BY <1>2, <2>1, <2>2, <2>5 DEF WindowOpens
<1>9. ASSUME NEW lo, NEW hi, Freeze(lo, hi) PROVE WindowOpens'
  <2>1. DOMAIN events' = {} /\ pc' = "sweep"
    BY <1>9 DEF Freeze, ClearTeacherEvents
  <2> QED BY <1>4, <2>1
<1>10. CASE EndStep
  <2>1. CASE Goto("save") /\ ~Ended /\ UNCHANGED <<vars, stepVars, replayVars, workerVars, runVars>>
    <3>1. UNCHANGED <<skipped, epochStart, workerStep, read, events>> /\ ~Ended' /\ pc # "start" /\ pc' # "start"
      BY <1>10, <2>1 DEF EndStep, loopVars, vars, workerVars, Ended, runVars
    <3> QED BY <1>3, <3>1
  <2>2. (\E lo, hi : Freeze(lo, hi)) \/ (Goto("save") /\ ~Ended /\ UNCHANGED <<vars, stepVars, replayVars, workerVars, runVars>>)
    BY <1>2, <1>10 DEF EndStep, IsEpochLastBatch, Ended, Schedule
  <2> QED BY <1>9, <2>1, <2>2
<1>11. CASE EndEpoch
  <2>1. CASE BeginEpoch(step, 0) /\ Ended /\ UNCHANGED <<vars, stepVars, replayVars, workerVars, runVars>>
    <3>1. DOMAIN events' = {}
      BY <1>2, <1>11, <2>1 DEF EndEpoch, vars, WindowOpens, NoEvents
    <3> QED BY <1>4, <2>1, <3>1 DEF BeginEpoch
  <2>2. (\E lo, hi : Freeze(lo, hi)) \/ (BeginEpoch(step, 0) /\ Ended /\ UNCHANGED <<vars, stepVars, replayVars, workerVars, runVars>>)
    BY <1>2, <1>11 DEF EndEpoch, IsEpochLastBatch, Ended, Schedule
  <2> QED BY <1>9, <2>1, <2>2
<1>12. CASE NewEpoch \/ Sweep \/ NextPass
  <2>1. events' = events /\ pc \in {"epoch", "sweep", "passes"} /\ pc' # "start"
    BY <1>12 DEF NewEpoch, BeginEpoch, Sweep, SweepTrees, CleanupInactiveTrees, NextPass, vars, Flow, TrainingTypeOK
  <2>2. DOMAIN events' = {}
    BY <2>1 DEF Frozen
  <2> QED BY <1>4, <2>1, <2>2
<1>13. CASE Save \/ Advance
  <2>1. /\ UNCHANGED <<skipped, yielded, epochStart, workerStep, read, events>>
        /\ pc \in {"save", "next"} /\ pc' \in {"next", "batch", "done"}
    BY <1>13 DEF Save, Advance, NextStep, poolVars, vars, loopVars, workerVars
  <2>2. Ended' = Ended
    BY <1>1, <2>1 DEF Ended
  <2> QED BY <1>2, <1>3, <2>1, <2>2 DEF WindowOpens, NoEvents
<1>14. CASE WorkerStep
  <2>1. UNCHANGED <<pc, skipped, yielded, epochStart>>
    BY <1>14 DEF WorkerStep, loopVars
  <2>2. Ended' = Ended
    BY <1>1, <2>1 DEF Ended
  <2>3. DOMAIN events' \subseteq DOMAIN events
    BY <1>14, StepEvents DEF Steps
  <2>4. workerStep' = workerStep
    BY <1>14 DEF WorkerStep, Fetch, ReadStep, Respond, workerVars
  <2>5. \A e \in DOMAIN read' : \/ e \in DOMAIN read /\ read'[e] = read[e]
                                \/ read'[e] = workerStep
    <3>1. CASE Fetch
      BY <3>1 DEF Fetch, workerVars
    <3>2. CASE ReadStep
      BY <3>2 DEF ReadStep, Put
    <3>3. CASE Respond
      BY <3>3 DEF Respond, Without, Restrict
    <3> QED BY <1>14, <3>1, <3>2, <3>3 DEF WorkerStep
  <2>6. pc # "start" /\ skipped = 0 => \A e \in DOMAIN events' \cap DOMAIN read' : read'[e] >= epochStart
    BY <1>2, <2>3, <2>5 DEF WindowOpens
  <2> QED BY <1>2, <2>1, <2>2, <2>3, <2>4, <2>6 DEF WindowOpens, NoEvents
<1>15. CASE Restart
  <2>1. pc' = "start" /\ yielded' = saved.yielded /\ saved.step > 0
    BY <1>15 DEF Restart
  <2>2. yielded' > 0
    BY <2>1 DEF SavedLoader
  <2> QED BY <2>1, <2>2 DEF WindowOpens
<1>16. CASE UNCHANGED trainingVars
  BY <1>2, <1>16 DEF trainingVars, vars, loopVars, workerVars, runVars, WindowOpens, NoEvents, Ended
<1> QED BY <1>5, <1>6, <1>7, <1>8, <1>10, <1>11, <1>12, <1>13, <1>14, <1>15, <1>16 DEF Steps, TrainerStep

LEMMA NextWindowIsEpoch ==
  ASSUME TypeOK, TreeShape, Flow, Frozen, Young, Window, WindowIsEpoch, Steps \/ Restart
  PROVE  WindowIsEpoch'
<1> USE DEF Goto
<1> SUFFICES ASSUME Schedule("epoch_local")', pc' # "start"
             PROVE  \A n \in DOMAIN nodes' : nodes'[n].parent # NoParent =>
                      /\ nodes'[n].created >= epochStart' => n > bornBefore'
                      /\ skipped' = 0 /\ n > bornBefore' => nodes'[n].created >= epochStart'
  BY DEF WindowIsEpoch, Schedule
<1>0. /\ step \in Nat /\ epochStart \in 0..step /\ nodeCount \in Nat /\ bornBefore \in 0..nodeCount
      /\ DOMAIN nodes \subseteq 1..nodeCount /\ \A n \in DOMAIN nodes : nodes[n].created \in 0..step
      /\ DOMAIN read \subseteq EventId /\ \A e \in DOMAIN read : read[e] \in Nat
  BY Typing DEF TypeOK, Flow, TrainingTypeOK, NodeId, NodeType
<1>1. Steps /\ setting' = setting
  BY DEF Steps, TrainerStep, WorkerStep, Start, Batch, Count, SampleBatch, Publish, RecordNode, RecordRoot,
         Tidy, CountReplay, SampleReplay, Update, Record, EndStep, EndEpoch, NewEpoch, Sweep, TrainMiniBatch,
         NextPass, Save, Advance, Freeze, runVars, trainingVars, Restart
<1>2. Schedule("epoch_local")
  BY <1>1 DEF Schedule
\* An epoch begins, and all nodes are older than it.
<1>3. ASSUME UNCHANGED nodes, bornBefore' = nodeCount, epochStart' \in Nat,
             \A n \in DOMAIN nodes : nodes[n].created < epochStart'
      PROVE  \A n \in DOMAIN nodes' : nodes'[n].parent # NoParent =>
               /\ nodes'[n].created >= epochStart' => n > bornBefore'
               /\ skipped' = 0 /\ n > bornBefore' => nodes'[n].created >= epochStart'
  BY <1>0, <1>3
<1>4. CASE Start
  <2>1. UNCHANGED nodes /\ bornBefore' = nodeCount /\ epochStart' = step + 1
    BY <1>4 DEF Start, BeginEpoch, NextStep, poolVars
  <2> QED BY <1>0, <1>3, <2>1
<1>5. CASE (EndEpoch \/ NewEpoch) /\ BeginEpoch(step, 0)
  <2>1. UNCHANGED nodes
    BY <1>5 DEF EndEpoch, NewEpoch, Freeze, ClearTeacherEvents, BeginEpoch, vars
  <2>2. Early
    BY <1>5 DEF EndEpoch, NewEpoch, Early
  <2> QED BY <1>0, <1>3, <1>5, <2>1, <2>2 DEF BeginEpoch, Young
\* Within an epoch.
<1>6. CASE UNCHANGED <<skipped, epochStart, bornBefore>> /\ pc # "start"
  <2>1. WindowOpens
    BY <1>2 DEF Window
  <2> SUFFICES ASSUME NEW n \in DOMAIN nodes', nodes'[n].parent # NoParent
               PROVE  /\ nodes'[n].created >= epochStart => n > bornBefore
                      /\ skipped = 0 /\ n > bornBefore => nodes'[n].created >= epochStart
    BY <1>6
  <2>2. \/ n \in DOMAIN nodes /\ SameBirth(n)
        \/ Newborn(n) /\ \E e \in DOMAIN events \cap DOMAIN read : nodes'[n].created = read[e]
    BY <1>1, StepBirths
  <2>3. CASE n \in DOMAIN nodes /\ SameBirth(n)
    BY <1>2, <1>6, <2>3 DEF SameBirth, WindowIsEpoch, Schedule
  <2>4. CASE Newborn(n) /\ \E e \in DOMAIN events \cap DOMAIN read : nodes'[n].created = read[e]
    <3>1. PICK e \in DOMAIN events \cap DOMAIN read : nodes'[n].created = read[e]
      BY <2>4
    <3>2. n > bornBefore
      BY <1>0, <2>4 DEF Newborn
    <3>3. skipped = 0 => read[e] >= epochStart
      BY <1>6, <2>1 DEF WindowOpens
    <3> QED BY <3>1, <3>2, <3>3
  <2> QED BY <2>2, <2>3, <2>4
<1>7. \/ Start
      \/ (EndEpoch \/ NewEpoch) /\ BeginEpoch(step, 0)
      \/ UNCHANGED <<skipped, epochStart, bornBefore>> /\ pc # "start"
  <2>1. CASE EndEpoch
    <3>1. CASE BeginEpoch(step, 0)
      BY <2>1, <3>1
    <3>2. CASE UNCHANGED loopVars
      BY <2>1, <3>2 DEF EndEpoch, loopVars
    <3> QED BY <2>1, <3>1, <3>2 DEF EndEpoch
  <2>2. CASE WorkerStep
    BY <2>2 DEF WorkerStep, loopVars
  <2>3. CASE UNCHANGED trainingVars
    BY <2>3 DEF trainingVars, loopVars
  <2>4. CASE ~(EndEpoch \/ WorkerStep \/ UNCHANGED trainingVars \/ Start \/ NewEpoch)
    BY <1>1, <2>4 DEF Steps, TrainerStep, Batch, Count, SampleBatch, Publish, RecordNode, RecordRoot,
         Tidy, CountReplay, SampleReplay, Update, Record, EndStep, Sweep, TrainMiniBatch, NextPass, Save, Advance,
         loopVars
  <2>5. CASE NewEpoch
    BY <2>5 DEF NewEpoch
  <2> QED BY <2>1, <2>2, <2>3, <2>4, <2>5
<1> QED BY <1>4, <1>5, <1>6, <1>7

LEMMA WindowHolds == TrainingSpec => [](Window /\ WindowIsEpoch)
<1> DEFINE Base == Inv /\ Flow /\ SavedPool
           Plans == Young /\ Unused /\ Counted /\ ReplayStaysTrainable
           Phases == Told /\ Frozen /\ Swept
           Windows == Window /\ WindowIsEpoch
<1>1. TrainingInit => Windows
  BY DEF TrainingInit, Init, Window, WindowOpens, WindowIsEpoch, NoEvents
<1>2. Base /\ Plans /\ Phases /\ Windows /\ [TrainingNext]_trainingVars => Windows'
  BY StepsAre, NextWindow, NextWindowIsEpoch DEF Inv, Flow
<1>3. TrainingSpec => []Base /\ []Plans /\ []Phases
  BY PoolHolds, PlansHold, PhasesHold, PTL
<1> QED BY <1>1, <1>2, <1>3, PTL DEF TrainingSpec

\* However long an epoch is and wherever in it the worker lags behind, the
\* window [epoch_start_step, global_steps] that is frozen holds exactly the
\* children inserted since the epoch began; after a restart in its middle it
\* still holds no older one.
THEOREM WindowsAreEpochs == TrainingSpec => []WindowIsEpoch
BY WindowHolds, PTL
-----------------------------------------------------------------------------
(* The trainer and the worker as the pool's general client.                *)

\* MaxSftUpdates bounds the general client only, and nothing in the code does.
WithinBound == \A n \in DOMAIN nodes : nodes[n].sftUpdates < MaxSftUpdates

LEMMA FreezeIsClient ==
  ASSUME TypeOK, Flow, Young, NEW lo, NEW hi, Freeze(lo, hi), Schedule("epoch_local"),
         lo = epochStart, hi = step \/ (hi = step - 1 /\ pc = "batch")
  PROVE  TrainerNext
<1>0. step \in Nat /\ epochStart \in 0..step /\ SftSlots > 0
  BY Typing DEF Flow, TrainingTypeOK, Schedule
<1>1. \A n \in DOMAIN nodes : nodes[n].created \in 0..step
  BY DEF TypeOK, NodeType
<1>2. ClearTeacherEvents /\ sftLent' = IF hi < lo THEN FrozenRoutes(hi, lo) ELSE FrozenRoutes(lo, hi)
  BY DEF Freeze
<1>3. \E first \in 0..step : sftLent' = FrozenRoutes(first, step)
  <2>1. CASE hi = step
    BY <1>0, <1>2, <2>1
  <2>2. CASE hi = step - 1 /\ pc = "batch"
    <3>1. step > 0 /\ \A n \in DOMAIN nodes : nodes[n].created < step
      BY <1>0, <2>2 DEF Young, Early, Flow, TrainingTypeOK
    <3>2. CASE epochStart = step
      <4>1. hi < lo /\ hi \in 0..step
        BY <1>0, <2>2, <3>1, <3>2
      <4> QED BY <1>2, <3>2, <4>1
    <3>3. CASE epochStart < step
      <4>1. ~(hi < lo)
        BY <1>0, <2>2, <3>3
      <4>2. \A n \in DOMAIN nodes : nodes[n].created \in lo..hi <=> nodes[n].created \in lo..step
        BY <1>0, <1>1, <2>2, <3>1
      <4>3. FrozenRoutes(lo, hi) = FrozenRoutes(lo, step)
        BY <4>2 DEF FrozenRoutes
      <4> QED BY <1>0, <1>2, <4>1, <4>3
    <3> QED BY <1>0, <3>2, <3>3
  <2> QED BY <2>1, <2>2
<1> QED BY <1>0, <1>2, <1>3 DEF TrainerNext

LEMMA StepIsClients ==
  ASSUME TypeOK, Flow, Young, Unused, WithinBound, Steps
  PROVE  Next \/ UNCHANGED vars
<1>0. InjectSlots \in Nat /\ SftSlots \in Nat /\ left \subseteq sftLent /\ todo \subseteq sftLent
  BY Typing DEF Flow, TrainingTypeOK
<1>1. CASE Start \/ Advance \/ Batch \/ Tidy \/ Sweep
  BY <1>1 DEF Start, Advance, Batch, Tidy, Sweep, SweepTrees, Next, TrainerNext
<1>2. CASE SampleBatch
  <2>1. quota \in 0..InjectSlots
    BY <1>2 DEF SampleBatch, Flow, Control
  <2>2. quota > 0 => quota \in 1..InjectSlots
    BY <1>0, <2>1
  <2> QED BY <1>2, <2>2 DEF SampleBatch, Next, TrainerNext
<1>3. CASE RecordNode
  BY <1>3 DEF RecordNode, Next, TrainerNext
<1>4. CASE RecordRoot
  <2>1. PICK k \in feed, o \in Outcomes :
          /\ k \in DOMAIN trees \/ nodeCount < MaxNodes \/ o[2] = 0
          /\ RecordRootObservation(k, o[1], o[2])
    BY <1>4 DEF RecordRoot
  <2>2. k \in Prompt
    BY DEF Flow, TrainingTypeOK
  <2>3. CASE k \in DOMAIN trees \/ nodeCount < MaxNodes
    BY <2>1, <2>2, <2>3 DEF Next, TrainerNext
  <2>4. CASE k \notin DOMAIN trees /\ o[2] = 0
    <3>1. UNCHANGED poolVars /\ UNCHANGED <<step, owed, lent, sftLent>>
      BY <2>1, <2>4 DEF RecordRootObservation
    <3> QED BY <3>1 DEF poolVars, vars
  <2> QED BY <2>1, <2>3, <2>4
<1>5. CASE SampleReplay
  <2>1. quota = SftSlots \/ quota = 0
    BY <1>5 DEF SampleReplay, Flow, Control
  <2>2. sftLent = {} /\ \A k \in DOMAIN trees : trees[k].lastSft # step
    BY <1>5 DEF SampleReplay, Flow, Control, Unused
  <2> QED BY <1>0, <1>5, <2>1, <2>2 DEF SampleReplay, Next, TrainerNext
<1>6. CASE Record
  <2>1. PICK r \in todo : RecordSuffixSft(r[1], r[2])
    BY <1>6 DEF Record
  <2>2. r \in sftLent /\ (r[2] \in DOMAIN nodes => nodes[r[2]].sftUpdates < MaxSftUpdates)
    BY <1>0 DEF WithinBound
  <2> QED BY <2>1, <2>2 DEF Next, TrainerNext
<1>7. CASE EndStep
  BY <1>7, FreezeIsClient DEF EndStep, Schedule, Next
<1>8. CASE EndEpoch
  BY <1>8, FreezeIsClient DEF EndEpoch, Schedule, Next
<1>9. CASE TrainMiniBatch
  <2>1. PICK b \in MiniBatches : MarkSuffixSftSampled(b) \/ UNCHANGED vars
    BY <1>9 DEF TrainMiniBatch
  <2>2. b \in FullBatches
    BY <1>0 DEF MiniBatches, FullBatches
  <2> QED BY <2>1, <2>2 DEF Next, TrainerNext
<1>10. CASE WorkerStep
  <2>1. workerStep \in TeacherSteps /\ \A e \in DOMAIN read : e \in owed /\ read[e] \in TeacherSteps
    BY Typing DEF Flow, TrainingTypeOK, TeacherSteps
  <2>2. CASE Fetch
    BY <2>1, <2>2 DEF Fetch, Next, WorkerNext
  <2>3. CASE ReadStep
    BY <2>3 DEF ReadStep
  <2>4. CASE Respond
    BY <2>1, <2>4 DEF Respond, Next, WorkerNext
  <2> QED BY <1>10, <2>2, <2>3, <2>4 DEF WorkerStep
<1>11. CASE Count \/ Publish \/ CountReplay \/ Update \/ NewEpoch \/ NextPass \/ Save \/ UNCHANGED trainingVars
  BY <1>11 DEF Count, Publish, CountReplay, Update, NewEpoch, NextPass, Save, trainingVars
<1> QED BY <1>1, <1>2, <1>3, <1>4, <1>5, <1>6, <1>7, <1>8, <1>9, <1>10, <1>11 DEF Steps, TrainerStep

\* Whatever fit() and its worker do with the pool, the general client of
\* PrefixForestPool may do: in the same order of calls, with its windows of
\* steps and its batches.  Only loading a checkpoint is more.
THEOREM FitIsPoolClient == TrainingSpec /\ []WithinBound => IsPoolClient
<1> DEFINE Base == Inv /\ Flow /\ SavedPool
           Plans == Young /\ Unused /\ Counted /\ ReplayStaysTrainable
<1>1. Base /\ Plans /\ WithinBound /\ [TrainingNext]_trainingVars => [Next \/ Restored]_vars
  <2> SUFFICES ASSUME Base, Plans, WithinBound, [TrainingNext]_trainingVars PROVE [Next \/ Restored]_vars
    OBVIOUS
  <2>1. CASE Steps
    BY <2>1, StepIsClients DEF Inv
  <2>2. CASE Restart
    BY <2>2 DEF Restart
  <2> QED BY <2>1, <2>2, StepsAre
<1>2. TrainingSpec => []Base /\ []Plans
  BY PoolHolds, PlansHold, PTL
<1> QED BY <1>1, <1>2, PTL DEF TrainingSpec, IsPoolClient
-----------------------------------------------------------------------------
(* How often epoch-local replay trains a node.                             *)

\* The nodes of the epoch have not been replayed yet.
Claimed ==
  \/ pc \in {"count", "sample", "publish", "nodes", "roots", "ready", "replay", "update", "record"}
  \/ pc = "batch" /\ ~Ended
  \/ pc \in {"save", "next"} /\ ~Ended /\ ~IsLastStep

Updates(n) == nodes[n].sftUpdates

\* What the restarts at the end of an epoch may have repeated.
Spent == ends * setting.passes

\* No node has more than that behind it.
Unspent == \A n \in DOMAIN nodes : Updates(n) <= Spent

LEMMA SpentCounts ==
  ASSUME TypeOK, Flow
  PROVE  /\ Spent \in Nat /\ (1 + ends) * setting.passes = Spent + setting.passes
         /\ UNCHANGED <<ends, setting>> => Spent' = Spent
         /\ ends' = ends + 1 /\ setting' = setting => Spent' = Spent + setting.passes
<1> DEFINE p == setting.passes
<1>1. ends \in Nat /\ p \in Nat
  <2>1. setting.passes \in Nat
    BY Typing DEF Flow
  <2>2. ends \in Nat
    BY Typing DEF Flow, TrainingTypeOK
  <2> QED BY <2>1, <2>2
<1>2. UNCHANGED setting => p' = p
  OBVIOUS
<1> HIDE DEF p
<1>3. ends * p \in Nat /\ (1 + ends) * p = ends * p + p /\ (ends + 1) * p = ends * p + p
  BY <1>1
<1>4. UNCHANGED <<ends, setting>> => (ends * p)' = ends * p
  BY <1>2
<1>5. ends' = ends + 1 /\ setting' = setting => (ends * p)' = ends * p + p
  BY <1>2, <1>3
<1> QED BY <1>3, <1>4, <1>5 DEF Spent, p

\* Until the phase of its epoch a node has no optimizer step but those of
\* epochs that were run again, in its pass b of the phase at most b more, and
\* after it no other phase takes it.
OncePerPass ==
  /\ Claimed => \A n \in DOMAIN nodes : Updates(n) > Spent => nodes[n].created < epochStart
  /\ pc = "batch" => yielded < setting.epochLen \/ epochStart < step \/ Unspent
  /\ pc \in {"sweep", "passes"} /\ after = "save" => Ended \/ IsLastStep
  /\ pc = "sweep" => \A r \in sftLent : Updates(r[2]) <= Spent
  /\ pc = "passes" => /\ left \cap todo = {}
                      /\ \A r \in sftLent : Updates(r[2]) <= Spent + pass
                      /\ \A r \in left \cup todo : Updates(r[2]) < Spent + pass
  /\ \A n \in DOMAIN nodes : Updates(n) <= Spent + setting.passes
  /\ \A n \in DOMAIN saved.nodes : saved.nodes[n].sftUpdates <= Spent + setting.passes
  /\ pc = "start" => yielded < setting.epochLen \/ Unspent

Once == Schedule("epoch_local") => OncePerPass

\* No step but that of Record changes how often a node was trained.
LEMMA StepUpdates ==
  ASSUME TypeOK, TreeShape, Flow, Steps, ~Record
  PROVE  \A n \in DOMAIN nodes' : \/ n \in DOMAIN nodes /\ SameBirth(n) /\ Updates(n)' = Updates(n)
                                  \/ Newborn(n)
<1> USE DEF Updates
<1>0. SftSlots \in Nat /\ left \subseteq sftLent /\ todo \subseteq sftLent
  BY Typing DEF Flow, TrainingTypeOK
<1>1. CASE Start \/ Advance
  BY <1>1, StampBirths DEF Start, Advance
<1>2. CASE Batch \/ Tidy \/ Sweep
  BY <1>2, CleanupBirths DEF Batch, Tidy, Sweep, SweepTrees, SameBirth
<1>3. CASE SampleBatch
  BY <1>3, StampBirths DEF SampleBatch
<1>4. CASE SampleReplay
  <2>1. quota > 0 => quota = SftSlots
    BY <1>4 DEF SampleReplay, Flow, Control
  <2>2. SampleSuffixSft(SftSlots) \/ UNCHANGED vars
    BY <1>4, <2>1 DEF SampleReplay
  <2> QED BY <2>2, StampBirths
<1>5. CASE RecordNode
  BY <1>5, ObservationBirths DEF RecordNode
<1>6. CASE RecordRoot
  <2>1. PICK k \in feed, o \in Outcomes : RecordRootObservation(k, o[1], o[2])
    BY <1>6 DEF RecordRoot
  <2>2. k \in Prompt
    BY DEF Flow, TrainingTypeOK
  <2> QED BY <2>1, <2>2, RootBirths
<1>8. CASE EndStep \/ EndEpoch
  BY <1>8, StampBirths DEF EndStep, EndEpoch, Freeze
<1>9. CASE TrainMiniBatch
  <2>1. PICK b \in MiniBatches : MarkSuffixSftSampled(b) \/ UNCHANGED vars
    BY <1>9 DEF TrainMiniBatch
  <2>2. b \in FullBatches
    BY <1>0 DEF MiniBatches, FullBatches
  <2> QED BY <2>1, <2>2, StampBirths
<1>10. CASE WorkerStep
  <2>1. CASE Fetch
    BY <2>1, StampBirths DEF Fetch
  <2>2. CASE ReadStep
    BY <2>2, StampBirths DEF ReadStep
  <2>3. CASE Respond
    <3>1. PICK e \in DOMAIN read, a \in Answers : OnTeacherResponse(e, a, read[e])
      BY <2>3 DEF Respond
    <3> QED BY <3>1, AnswerBirths
  <2> QED BY <1>10, <2>1, <2>2, <2>3 DEF WorkerStep
<1>11. CASE Count \/ Publish \/ CountReplay \/ Update \/ NewEpoch \/ NextPass \/ Save \/ UNCHANGED trainingVars
  BY <1>11, StampBirths DEF Count, Publish, CountReplay, Update, NewEpoch, NextPass, Save, trainingVars
<1> QED BY <1>1, <1>2, <1>3, <1>4, <1>5, <1>6, <1>8, <1>9, <1>10, <1>11 DEF Steps, TrainerStep

\* In epoch-local replay only the passes record optimizer steps.
LEMMA StepUpdatesElsewhere ==
  ASSUME TypeOK, TreeShape, Flow, Steps, Schedule("epoch_local"), pc # "passes"
  PROVE  \A n \in DOMAIN nodes' : \/ n \in DOMAIN nodes /\ SameBirth(n) /\ Updates(n)' = Updates(n)
                                  \/ Newborn(n)
<1>1. ~Record
  BY DEF Record, Flow, Control, Schedule
<1> QED BY <1>1, StepUpdates
\* What is out for replay is a node, and one route leads to it.
LEMMA Routes ==
  ASSUME TypeOK, ReplayStaysTrainable, pc \in {"sweep", "passes"}
  PROVE  /\ \A r \in sftLent : r[2] \in DOMAIN nodes /\ nodes[r[2]].tree = r[1]
         /\ \A r, q \in sftLent : r[2] = q[2] => r = q
<1>1. \A r \in sftLent : r[2] \in DOMAIN nodes /\ nodes[r[2]].tree = r[1]
  BY DEF ReplayStaysTrainable, SftTrainable, SftCandidates, RolloutCandidates, NodesOf
<1>2. \A r \in sftLent : r = <<r[1], r[2]>>
  BY DEF TypeOK
<1> QED BY <1>1, <1>2

LEMMA FrozenUntrained ==
  ASSUME TypeOK, Flow, OncePerPass, Claimed, NEW lo \in Int, NEW hi \in Int, Freeze(lo, hi),
         lo = epochStart, lo <= hi \/ Unspent
  PROVE  \A r \in sftLent' : Updates(r[2])' <= Spent
<1>1. UNCHANGED nodes
  BY DEF Freeze, ClearTeacherEvents
<1>2. ASSUME NEW n \in DOMAIN nodes, Unspent \/ nodes[n].created \in lo..hi
      PROVE  Updates(n) <= Spent
  <2>1. nodes[n].created \in Nat /\ Updates(n) \in Nat /\ Spent \in Nat
    BY SpentCounts DEF TypeOK, NodeType, Updates
  <2>2. CASE Unspent
    BY <2>2 DEF Unspent
  <2>3. CASE nodes[n].created \in lo..hi
    <3>1. ~(nodes[n].created < epochStart)
      BY <2>1, <2>3 DEF Flow, TrainingTypeOK
    <3> QED BY <2>1, <3>1 DEF OncePerPass
  <2> QED BY <1>2, <2>2, <2>3
<1>3. \A i, j \in Int : \A r \in FrozenRoutes(i, j) : r[2] \in DOMAIN nodes /\ nodes[r[2]].created \in i..j
  BY DEF FrozenRoutes
<1>4. \A r \in sftLent' : r[2] \in DOMAIN nodes /\ (Unspent \/ nodes[r[2]].created \in lo..hi)
  <2>1. CASE hi < lo
    <3>1. sftLent' = FrozenRoutes(hi, lo) /\ Unspent
      BY <2>1 DEF Freeze
    <3> QED BY <1>3, <3>1
  <2>2. CASE ~(hi < lo)
    <3>1. sftLent' = FrozenRoutes(lo, hi)
      BY <2>2 DEF Freeze
    <3> QED BY <1>3, <3>1
  <2> QED BY <2>1, <2>2
<1> QED BY <1>1, <1>2, <1>4 DEF Updates

LEMMA NextOnce ==
  ASSUME TypeOK, TypeOK', TreeShape, Flow, SavedLoader, SavedPool, Young, ReplayStaysTrainable,
         ReplayStaysTrainable', Once, Steps \/ Restart
  PROVE  Once'
<1> SUFFICES ASSUME Schedule("epoch_local")' PROVE OncePerPass'
  BY DEF Once
<1> USE DEF Goto
<1>0. /\ step \in Nat /\ epochStart \in 0..step /\ pass \in Nat /\ SftSlots \in Nat
      /\ setting.epochLen \in Nat \ {0} /\ setting.passes \in Nat \ {0} /\ setting.totalSteps \in Nat
      /\ yielded \in 0..setting.epochLen /\ skipped \in 0..yielded /\ pass \in 0..setting.passes
      /\ left \subseteq sftLent /\ todo \subseteq sftLent /\ after \in {"save", "epoch"}
      /\ \A n \in DOMAIN nodes : Updates(n) \in Nat /\ nodes[n].created \in 0..step
      /\ Spent \in Nat
  BY Typing, SpentCounts DEF TypeOK, Flow, TrainingTypeOK, NodeType, Updates
<1>1. setting' = setting /\ (saved' = saved \/ saved' = Snapshot)
  BY DEF Steps, TrainerStep, WorkerStep, Start, Batch, Count, SampleBatch, Publish, RecordNode, RecordRoot,
         Tidy, CountReplay, SampleReplay, Update, Record, EndStep, EndEpoch, NewEpoch, Sweep, TrainMiniBatch,
         NextPass, Save, Advance, Freeze, runVars, trainingVars, Restart
<1>2. Schedule("epoch_local") /\ OncePerPass
  BY <1>1 DEF Once, Schedule
<1>a. Steps => Spent' = Spent
  <2>1. Steps => UNCHANGED ends
    BY DEF Steps, TrainerStep, WorkerStep, Start, Batch, Count, SampleBatch, Publish, RecordNode, RecordRoot,
           Tidy, CountReplay, SampleReplay, Update, Record, EndStep, EndEpoch, NewEpoch, Sweep, TrainMiniBatch,
           NextPass, Save, Advance, Freeze, runVars, trainingVars
  <2> QED BY <1>1, <2>1, SpentCounts
<1>b. Restart => Spent' = IF saved.yielded >= setting.epochLen THEN Spent + setting.passes ELSE Spent
  BY <1>1, SpentCounts DEF Restart
<1> DEFINE C1 == Claimed' => \A n \in DOMAIN nodes' : Updates(n)' > Spent' => nodes'[n].created < epochStart'
           C2 == pc' = "batch" => yielded' < setting'.epochLen \/ epochStart' < step' \/ Unspent'
           C3 == pc' \in {"sweep", "passes"} /\ after' = "save" => Ended' \/ IsLastStep'
           C4 == pc' = "sweep" => \A r \in sftLent' : Updates(r[2])' <= Spent'
           C5 == pc' = "passes" => /\ left' \cap todo' = {}
                                   /\ \A r \in sftLent' : Updates(r[2])' <= Spent' + pass'
                                   /\ \A r \in left' \cup todo' : Updates(r[2])' < Spent' + pass'
           C6 == \A n \in DOMAIN nodes' : Updates(n)' <= Spent' + setting'.passes
           C7 == \A n \in DOMAIN saved'.nodes : saved'.nodes[n].sftUpdates <= Spent' + setting'.passes
           C8 == pc' = "start" => yielded' < setting'.epochLen \/ Unspent'
\* The checkpoint.
<1>3. C7
  <2>1. saved.yielded \in Nat
    BY DEF SavedLoader
  <2>2. CASE Restart
    <3>1. saved' = saved
      BY <2>2 DEF Restart
    <3>2. \A n \in DOMAIN saved.nodes : saved.nodes[n].sftUpdates \in Nat
      BY DEF Stored!TypeOK, Stored!NodeType, SavedPool
    <3> QED BY <1>0, <1>1, <1>2, <1>b, <2>2, <3>1, <3>2 DEF OncePerPass
  <2>3. CASE Steps
    BY <1>1, <1>2, <1>a, <2>3 DEF OncePerPass, Snapshot, Updates
  <2> QED BY <2>2, <2>3
\* A step between phases.
<1>4. ASSUME Steps, pc # "passes" PROVE C6
  BY <1>0, <1>1, <1>2, <1>a, <1>4, StepUpdatesElsewhere DEF OncePerPass, Updates, Newborn
<1>5. ASSUME Steps, pc # "passes", epochStart' = epochStart, Claimed' => Claimed PROVE C1
  BY <1>0, <1>2, <1>a, <1>5, StepUpdatesElsewhere DEF OncePerPass, Updates, Newborn, SameBirth
<1>6. ASSUME C1, C2, C3, C4, C5, C6, C8 PROVE OncePerPass'
  BY <1>3, <1>6 DEF OncePerPass
<1>7. CASE Start
  <2>1. UNCHANGED <<nodes, yielded>> /\ epochStart' = step + 1 /\ pc' = "batch" /\ pc = "start"
    BY <1>7 DEF Start, BeginEpoch, NextStep, poolVars
  <2>0. Spent' = Spent
    BY <1>a, <1>7 DEF Steps, TrainerStep
  <2>2. C1
    BY <1>0, <2>1 DEF Updates
  <2>3. C2
    BY <1>1, <1>2, <2>0, <2>1 DEF OncePerPass, Unspent, Updates
  <2> QED BY <1>4, <1>6, <1>7, <2>1, <2>2, <2>3 DEF Steps, TrainerStep
<1>8. CASE Batch \/ Count \/ SampleBatch \/ Publish \/ RecordNode \/ RecordRoot \/ Tidy \/ CountReplay
           \/ SampleReplay \/ Update
  <2>1. /\ epochStart' = epochStart
        /\ pc' \in {"count", "sample", "publish", "nodes", "roots", "ready", "replay", "update", "record"}
        /\ pc \in {"batch", "count", "sample", "publish", "nodes", "roots", "ready", "replay", "update"}
    BY <1>8 DEF Batch, Count, SampleBatch, Publish, RecordNode, RecordRoot, Tidy, CountReplay, SampleReplay, Update,
           loopVars
  <2>2. Claimed
    <3>1. CASE Batch
      BY <1>0, <3>1 DEF Batch, MoreBatches, Claimed, Ended
    <3>2. CASE ~Batch
      BY <1>8, <3>2 DEF Count, SampleBatch, Publish, RecordNode, RecordRoot, Tidy, CountReplay, SampleReplay, Update,
             Claimed
    <3> QED BY <3>1, <3>2
  <2>3. Steps
    BY <1>8 DEF Steps, TrainerStep
  <2>4. C1 /\ C6
    BY <1>4, <1>5, <2>1, <2>2, <2>3
  <2> QED BY <1>6, <2>1, <2>4
<1>9. CASE EndStep
  <2>0. Steps /\ pc = "record" /\ Claimed
    BY <1>9 DEF Steps, TrainerStep, EndStep, Claimed
  <2>1. CASE Freeze(epochStart, step) /\ after' = "save" /\ (IsEpochLastBatch \/ IsLastStep)
    <3>1. pc' = "sweep" /\ UNCHANGED loopVars /\ UNCHANGED <<step, setting>>
      BY <1>1, <1>9, <2>1 DEF EndStep, Freeze, ClearTeacherEvents
    <3>2. C4
      BY <1>0, <1>2, <1>a, <2>0, <2>1, FrozenUntrained
    <3>3. C3
      BY <2>1, <3>1 DEF loopVars, Ended, IsEpochLastBatch, IsLastStep
    <3>4. ~Claimed'
      BY <3>1 DEF Claimed
    <3> QED BY <1>4, <1>6, <2>0, <3>1, <3>2, <3>3, <3>4
  <2>2. CASE Goto("save") /\ UNCHANGED <<vars, stepVars, replayVars, workerVars, runVars>>
    <3>1. pc' = "save" /\ epochStart' = epochStart
      BY <1>9, <2>2 DEF EndStep, loopVars
    <3>2. C1 /\ C6
      BY <1>4, <1>5, <2>0, <3>1
    <3> QED BY <1>6, <3>1, <3>2
  <2> QED BY <1>2, <1>9, <2>1, <2>2 DEF EndStep, Schedule
\* An epoch begins.
<1>10. ASSUME Steps, pc \in {"batch", "epoch"}, BeginEpoch(step, 0), UNCHANGED <<nodes, step>> PROVE OncePerPass'
  <2>1. \A n \in DOMAIN nodes : nodes[n].created < step
    BY <1>10 DEF Young, Early
  <2>2. epochStart' = step /\ yielded' = 0 /\ pc' = "batch"
    BY <1>10 DEF BeginEpoch
  <2>3. C1
    BY <1>10, <2>1, <2>2
  <2>4. C2
    BY <1>0, <1>1, <2>2
  <2> QED BY <1>4, <1>6, <1>10, <2>2, <2>3, <2>4
<1>11. CASE EndEpoch
  <2>0. Steps /\ pc = "batch" /\ ~MoreBatches
    BY <1>11 DEF Steps, TrainerStep, EndEpoch
  <2>1. CASE Freeze(epochStart, step - 1) /\ after' = "epoch" /\ ~IsEpochLastBatch
    <3>1. Claimed
      BY <2>0, <2>1 DEF Claimed, Ended, IsEpochLastBatch
    <3>2. epochStart <= step - 1 \/ Unspent
      BY <1>0, <1>2, <2>0 DEF OncePerPass, MoreBatches
    <3>3. C4
      BY <1>0, <1>2, <1>a, <2>0, <2>1, <3>1, <3>2, FrozenUntrained
    <3>4. pc' = "sweep" /\ ~Claimed'
      BY <2>1 DEF Freeze, Claimed
    <3> QED BY <1>4, <1>6, <2>0, <2>1, <3>3, <3>4
  <2>2. CASE BeginEpoch(step, 0) /\ UNCHANGED <<vars, stepVars, replayVars, workerVars, runVars>>
    BY <1>10, <2>0, <2>2 DEF vars
  <2> QED BY <1>2, <1>11, <2>1, <2>2 DEF EndEpoch, Schedule
<1>12. CASE NewEpoch
  BY <1>10, <1>12 DEF NewEpoch, vars, Steps, TrainerStep
\* After the phase its nodes stay trained.
<1>13. ASSUME pc \in {"sweep", "passes"}, pc' = after, UNCHANGED <<yielded, skipped, step>>
       PROVE  C1 /\ C2 /\ C3 /\ C4 /\ C5 /\ C8
  <2>1. ~Claimed'
    BY <1>0, <1>1, <1>2, <1>13 DEF Claimed, OncePerPass, Ended, IsLastStep
  <2> QED BY <1>0, <1>13, <2>1
<1>14. CASE Sweep
  <2>0. Steps /\ pc = "sweep"
    BY <1>14 DEF Steps, TrainerStep, Sweep
  <2>1. CASE Goto(after)
    <3>1. UNCHANGED <<yielded, skipped, step>>
      BY <1>14 DEF Sweep, SweepTrees, CleanupInactiveTrees, loopVars
    <3> QED BY <1>4, <1>6, <1>13, <2>0, <2>1, <3>1
  <2>2. CASE Goto("passes") /\ left' = sftLent /\ pass' = 1
    <3>1. UNCHANGED <<yielded, skipped, step, sftLent, todo, after>>
      BY <1>14 DEF Sweep, SweepTrees, CleanupInactiveTrees, loopVars
    <3>2. todo' = {}
      BY <2>0, <3>1 DEF Flow, Control
    <3>3. \A r \in sftLent : r[2] \in DOMAIN nodes'
      BY <2>2, <3>1 DEF ReplayStaysTrainable, SftTrainable, SftCandidates, RolloutCandidates, NodesOf
    <3>4. \A n \in DOMAIN nodes' : nodes'[n] = nodes[n]
      BY <1>14, CleanupBirths DEF Sweep, SweepTrees
    <3>5. \A r \in sftLent : Updates(r[2])' \in Nat /\ Updates(r[2])' <= Spent'
      <4>1. \A r \in sftLent : r[2] \in DOMAIN nodes /\ Updates(r[2])' = Updates(r[2])
        BY <2>0, <3>3, <3>4, Routes DEF Updates
      <4> QED BY <1>0, <1>2, <1>a, <2>0, <4>1 DEF OncePerPass
    <3>6. C5
      BY <1>0, <1>a, <2>0, <2>2, <3>1, <3>2, <3>5
    <3>7. C3
      BY <1>1, <1>2, <2>0, <3>1 DEF OncePerPass, Ended, IsLastStep
    <3>8. ~Claimed'
      BY <2>2 DEF Claimed
    <3> QED BY <1>4, <1>6, <2>0, <2>2, <3>6, <3>7, <3>8
  <2> QED BY <1>14, <2>1, <2>2 DEF Sweep
\* Within the passes.
<1>15. ASSUME pc = "passes", pc' = "passes", UNCHANGED <<yielded, skipped, step, after>>
       PROVE  C1 /\ C2 /\ C3 /\ C4 /\ C8
  <2>1. C3
    BY <1>1, <1>2, <1>15 DEF OncePerPass, Ended, IsLastStep
  <2> QED BY <1>15, <2>1 DEF Claimed
<1>16. ASSUME Steps, ~Record, pc = "passes" PROVE C6
  BY <1>0, <1>1, <1>2, <1>a, <1>16, StepUpdates DEF OncePerPass, Updates, Newborn
<1>17. ASSUME Steps, ~Record, pc = "passes", pc' = "passes", UNCHANGED sftLent
       PROVE  \A r \in sftLent : Updates(r[2])' = Updates(r[2])
  <2>1. \A r \in sftLent : r[2] \in DOMAIN nodes' /\ r[2] \in DOMAIN nodes
    BY <1>17 DEF ReplayStaysTrainable, SftTrainable, SftCandidates, RolloutCandidates, NodesOf
  <2> QED BY <1>17, <2>1, StepUpdates DEF Newborn
<1>18. CASE TrainMiniBatch
  <2>1. Steps /\ ~Record /\ pc = "passes" /\ pc' = "passes" /\ todo = {}
    BY <1>18 DEF Steps, TrainerStep, TrainMiniBatch, Record
  <2>2. PICK b \in MiniBatches : /\ left' = left \ b
                                 /\ MarkSuffixSftSampled(b) \/ UNCHANGED vars
                                 /\ todo' = b \/ todo' = {}
    BY <1>18, <2>1 DEF TrainMiniBatch
  <2>3. b \subseteq left
    BY DEF MiniBatches
  <2>4. UNCHANGED <<yielded, skipped, after, pass>>
    BY <1>18 DEF TrainMiniBatch, loopVars
  <2>5. UNCHANGED <<step, sftLent>>
    BY <2>2 DEF MarkSuffixSftSampled, vars
  <2>6. \A r \in sftLent : Updates(r[2])' = Updates(r[2])
    BY <1>17, <2>1, <2>5
  <2>7. left' \cap todo' = {} /\ left' \cup todo' \subseteq left
    BY <2>2, <2>3
  <2>8. C5
    BY <1>0, <1>2, <1>a, <2>1, <2>4, <2>5, <2>6, <2>7 DEF OncePerPass
  <2> QED BY <1>6, <1>15, <1>16, <2>1, <2>4, <2>5, <2>8
<1>19. CASE Record
  <2>1. PICK r \in todo : RecordSuffixSft(r[1], r[2]) /\ todo' = todo \ {r}
    BY <1>19 DEF Record
  <2>2. pc = "passes" /\ pc' = "passes"
    BY <1>2, <1>19, <2>1 DEF Record, Flow, Control, Schedule
  <2>3. UNCHANGED <<yielded, skipped, after, pass, left>>
    BY <1>19 DEF Record, loopVars
  <2>4. UNCHANGED <<step, sftLent>>
    BY <2>1 DEF RecordSuffixSft
  <2>5. /\ DOMAIN nodes' = DOMAIN nodes
        /\ \A m \in DOMAIN nodes : \/ Updates(m)' = Updates(m)
                                   \/ (m = r[2] /\ Updates(m)' = Updates(m) + 1)
    BY <2>1, RecordBirths DEF Updates
  <2>6. /\ \A q \in sftLent : q[2] \in DOMAIN nodes
        /\ \A p, q \in sftLent : p[2] = q[2] => p = q
    BY <2>2, Routes
  <2>0. Spent' = Spent
    BY <1>a, <1>19 DEF Steps, TrainerStep
  <2>7. Updates(r[2]) < Spent + pass /\ r \in sftLent /\ r \notin left
    BY <1>0, <1>2, <2>1, <2>2 DEF OncePerPass
  <2>8. \A q \in left' \cup todo' : Updates(q[2])' = Updates(q[2])
    BY <1>0, <2>1, <2>3, <2>5, <2>6, <2>7
  <2>9. Updates(r[2])' <= Spent + pass
    BY <1>0, <2>5, <2>6, <2>7
  <2>10. C5
    <3>1. left' \cap todo' = {} /\ left' \cup todo' \subseteq left \cup todo
      BY <1>2, <2>1, <2>2, <2>3 DEF OncePerPass
    <3>2. \A q \in left' \cup todo' : Updates(q[2])' < Spent' + pass'
      BY <1>2, <2>0, <2>2, <2>3, <2>8, <3>1 DEF OncePerPass
    <3>3. \A q \in sftLent' : Updates(q[2])' <= Spent' + pass'
      BY <1>2, <2>0, <2>2, <2>3, <2>4, <2>5, <2>6, <2>9 DEF OncePerPass
    <3> QED BY <3>1, <3>2, <3>3
  <2>11. C6
    BY <1>0, <1>1, <1>2, <2>0, <2>5, <2>9 DEF OncePerPass
  <2> QED BY <1>6, <1>15, <2>2, <2>3, <2>4, <2>10, <2>11
<1>20. CASE NextPass
  <2>1. Steps /\ ~Record /\ pc = "passes" /\ todo = {} /\ todo' = {} /\ UNCHANGED <<yielded, skipped, after, vars>>
    BY <1>20 DEF Steps, TrainerStep, NextPass, Record, loopVars
  <2>2. UNCHANGED <<step, sftLent, nodes>>
    BY <2>1 DEF vars
  <2>3. CASE left' = sftLent /\ pass' = pass + 1 /\ UNCHANGED pc
    <3>1. \A r \in sftLent : Updates(r[2]) \in Nat /\ Updates(r[2])' = Updates(r[2]) /\ Updates(r[2]) <= Spent + pass
      BY <1>0, <1>2, <2>1, <2>2, Routes DEF OncePerPass, Updates
    <3>2. C5
      BY <1>0, <1>a, <2>1, <2>2, <2>3, <3>1
    <3> QED BY <1>6, <1>15, <1>16, <2>1, <2>2, <2>3, <3>2
  <2>4. CASE Goto(after)
    BY <1>6, <1>13, <1>16, <2>1, <2>2, <2>4
  <2> QED BY <1>20, <2>3, <2>4 DEF NextPass
<1>21. CASE Save \/ Advance
  <2>1. /\ Steps /\ UNCHANGED <<yielded, skipped, epochStart>>
        /\ \/ pc = "save" /\ pc' = "next" /\ step' = step
           \/ pc = "next" /\ pc' = "done"
           \/ pc = "next" /\ pc' = "batch" /\ ~IsLastStep /\ step' = step + 1
    BY <1>21 DEF Save, Advance, NextStep, loopVars, vars, Steps, TrainerStep
  <2>2. Ended' = Ended
    BY <1>1, <2>1 DEF Ended
  <2>3. Claimed' => Claimed
    BY <1>1, <2>1, <2>2 DEF Claimed, IsLastStep
  <2>4. C1 /\ C6
    BY <1>4, <1>5, <2>1, <2>3
  <2>5. C2
    BY <1>0, <2>1
  <2> QED BY <1>6, <2>1, <2>4, <2>5
<1>22. CASE WorkerStep \/ UNCHANGED trainingVars
  <2>1. UNCHANGED <<pc, yielded, skipped, epochStart, after, todo, left, pass>>
    BY <1>22 DEF WorkerStep, loopVars, replayVars, trainingVars
  <2>2. UNCHANGED <<step, sftLent>>
    BY <1>22 DEF WorkerStep, Fetch, ReadStep, Respond, PendingTeacherRequests, DispatchEffect, OnTeacherResponse,
           vars, trainingVars
  <2>3. Steps /\ ~Record /\ Spent' = Spent
    BY <1>22, <1>a, <2>1 DEF Steps, Record
  <2>4. Ended' = Ended /\ IsLastStep' = IsLastStep /\ Claimed' = Claimed
    BY <1>1, <2>1, <2>2 DEF Ended, IsLastStep, Claimed
  <2>5. pc \in {"sweep", "passes"} => \A r \in sftLent : Updates(r[2])' = Updates(r[2])
    <3>1. pc \in {"sweep", "passes"} => \A r \in sftLent : r[2] \in DOMAIN nodes' /\ r[2] \in DOMAIN nodes
      BY <2>1, <2>2 DEF ReplayStaysTrainable, SftTrainable, SftCandidates, RolloutCandidates, NodesOf
    <3> QED BY <2>3, <3>1, StepUpdates DEF Newborn
  <2>6. C6
    BY <1>4, <1>16, <2>3
  <2>7. C1
    <3>1. CASE pc # "passes"
      BY <1>5, <2>1, <2>3, <2>4, <3>1
    <3>2. CASE pc = "passes"
      BY <2>1, <3>2 DEF Claimed
    <3> QED BY <3>1, <3>2
  <2>11. Unspent => Unspent'
    BY <1>0, <2>3, StepUpdates DEF Unspent, Newborn, Updates
  <2>8. C2 /\ C3 /\ C8
    BY <1>1, <1>2, <2>1, <2>2, <2>4, <2>11 DEF OncePerPass
  <2>9. C4
    BY <1>2, <2>1, <2>2, <2>3, <2>5 DEF OncePerPass
  <2>10. C5
    <3>1. pc = "passes" => \A r \in left \cup todo : r \in sftLent
      BY <1>0
    <3> QED BY <1>2, <2>1, <2>2, <2>3, <2>5, <3>1 DEF OncePerPass
  <2> QED BY <1>6, <2>6, <2>7, <2>8, <2>9, <2>10
<1>23. CASE Restart
  <2>1. pc' = "start" /\ yielded' = saved.yielded /\ nodes' = saved.nodes
    BY <1>23 DEF Restart, Restored
  <2>2. /\ \A n \in DOMAIN nodes' : Updates(n)' <= Spent + setting.passes /\ Updates(n)' \in Nat
        /\ saved.yielded \in Nat
    BY <1>2, <2>1 DEF OncePerPass, Updates, SavedLoader, SavedPool, Stored!TypeOK, Stored!NodeType
  <2>3. C8
    <3>1. CASE saved.yielded < setting.epochLen
      BY <1>1, <2>1, <3>1
    <3>2. CASE saved.yielded >= setting.epochLen
      BY <1>b, <1>23, <2>2, <3>2 DEF Unspent
    <3> QED BY <1>0, <2>2, <3>1, <3>2
  <2>4. C6
    BY <1>0, <1>1, <1>b, <1>23, <2>2
  <2> QED BY <1>6, <2>1, <2>3, <2>4 DEF Claimed
<1> QED BY <1>7, <1>8, <1>9, <1>11, <1>12, <1>14, <1>18, <1>19, <1>20, <1>21, <1>22, <1>23 DEF Steps, TrainerStep
LEMMA OnceHolds == TrainingSpec => []Once
<1> DEFINE Base == Inv /\ Flow /\ SavedPool
           Planned == Young /\ Unused /\ Counted /\ ReplayStaysTrainable
<1>1. TrainingInit => Once
  <2> SUFFICES ASSUME TrainingInit PROVE Once
    OBVIOUS
  <2>1. setting.epochLen > 0
    BY TrainingAssumption DEF TrainingInit, TrainingAssumption, SettingType
  <2>2. DOMAIN nodes = {} /\ DOMAIN saved.nodes = {} /\ pc = "start" /\ yielded = 0
    BY DEF TrainingInit, Init, Snapshot
  <2> QED BY <2>1, <2>2 DEF Once, OncePerPass, Claimed
<1>2. Base /\ Base' /\ Planned /\ Planned' /\ Once /\ [TrainingNext]_trainingVars => Once'
  BY StepsAre, NextOnce DEF Inv, Flow
<1>3. TrainingSpec => []Base /\ []Planned
  BY PoolHolds, PlansHold, PTL
<1> QED BY <1>1, <1>2, <1>3, PTL DEF TrainingSpec

\* Epoch-local replay takes each node once in each pass of one phase, and again
\* only where a process goes on from a checkpoint that is as old as its epoch,
\* once for each such restart: for all lengths of epochs, numbers of passes,
\* causes of checkpoints and numbers of crashes.
THEOREM ReplaysAreBounded == TrainingSpec => []AgainOnlyFromTheEnd
<1>1. Inv /\ Flow /\ Once => AgainOnlyFromTheEnd
  BY SpentCounts DEF Inv, Once, OncePerPass, Updates, Schedule, AgainOnlyFromTheEnd
<1> QED BY <1>1, OnceHolds, PoolHolds, PTL

\* So without such a restart the window is what the docstring of the freeze says.
THEOREM ReplayedOnce == TrainingSpec /\ [](ends = 0) => []ReplayedInOneEpoch
<1>1. Inv /\ Flow /\ AgainOnlyFromTheEnd /\ ends = 0 => ReplayedInOneEpoch
  <2>1. setting.passes \in Nat => (1 + 0) * setting.passes = setting.passes
    OBVIOUS
  <2> QED BY <2>1, Typing DEF Inv, AgainOnlyFromTheEnd, ReplayedInOneEpoch
<1> QED BY <1>1, ReplaysAreBounded, PoolHolds, PTL
=============================================================================
