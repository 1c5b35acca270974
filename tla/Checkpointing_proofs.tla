------------------------ MODULE Checkpointing_proofs ------------------------
(***************************************************************************)
(* Proofs about Checkpointing, for every number of steps, of processes and *)
(* of scores, and every set of configurations.                             *)
(***************************************************************************)
EXTENDS Checkpointing, SequenceTheorems, FiniteSetTheorems, WellFoundedInduction, TLAPS

\* fit() is running.
Working == pc \notin {"down", "failed", "done"}

\* Within _save_checkpoint, and the part of it that writes the folder.
Saving == pc \in {"save", "actor", "actor+", "data", "data+", "pools", "pools+", "tracker", "tracker+", "rotate"}

-----------------------------------------------------------------------------
(* Type correctness: how far steps can go.                                 *)

\* Each process passes TotalSteps by at most one step more than the one before.
Bounds ==
  /\ config \in Configs
  /\ Working => run > 0 /\ step > 0 /\ step < TotalSteps + run
  /\ Saving => after \in {"record", "next"}
  /\ \A s \in DOMAIN disk : s < TotalSteps + run

Typed == TypeOK /\ Bounds

DiskType(d) ==
  /\ DOMAIN d \subseteq Step
  /\ \A s \in DOMAIN d : DOMAIN d[s] \subseteq File /\ \A f \in DOMAIN d[s] : d[s][f] \in 0..MaxRuns

\* What Open and Close leave: one file of one folder is written.
LEMMA FileWritten ==
  ASSUME Typed, NEW file \in File, NEW v \in 0..MaxRuns, step \in Step,
         disk' = Put(disk, step, Put(Folder, file, v))
  PROVE  /\ DOMAIN disk' = DOMAIN disk \cup {step}
         /\ DOMAIN disk'[step] = DOMAIN Folder \cup {file} /\ disk'[step][file] = v
         /\ \A f \in DOMAIN Folder : f # file => disk'[step][f] = Folder[f]
         /\ \A s \in DOMAIN disk : s # step => disk'[s] = disk[s]
         /\ DiskType(disk')
<1>1. /\ DOMAIN disk' = DOMAIN disk \cup {step} /\ disk'[step] = Put(Folder, file, v)
      /\ \A s \in DOMAIN disk : s # step => disk'[s] = disk[s]
  BY DEF Put
<1>2. /\ DOMAIN disk'[step] = DOMAIN Folder \cup {file} /\ disk'[step][file] = v
      /\ \A f \in DOMAIN Folder : f # file => disk'[step][f] = Folder[f]
  BY <1>1 DEF Put
<1>3. DOMAIN Folder \subseteq File /\ \A f \in DOMAIN Folder : Folder[f] \in 0..MaxRuns
  BY DEF Folder, Typed, TypeOK
<1>4. DiskType(disk')
  BY <1>1, <1>2, <1>3 DEF DiskType, Typed, TypeOK
<1> QED BY <1>1, <1>2, <1>4

\* Files and folders removed leave a disk.
LEMMA DiskCut ==
  ASSUME Typed, NEW S, NEW R
  PROVE  /\ DiskType(Without(disk, S)) /\ DOMAIN Without(disk, S) \subseteq DOMAIN disk
         /\ DiskType([s \in DOMAIN disk |-> IF s \in R THEN Without(disk[s], {"actor"}) ELSE disk[s]])
BY DEF DiskType, Without, Typed, TypeOK

LEMMA InitTyped == Init => Typed
<1> SUFFICES ASSUME Init PROVE Typed
  OBVIOUS
<1>1. TypeOK
  BY CheckpointAssumption DEF Init, TypeOK, None, Score, Step, CheckpointAssumption
<1>2. Bounds
  BY DEF Init, Bounds, Working, Saving
<1> QED BY <1>1, <1>2 DEF Typed

\* The actions that write a file (OpenActor to ClosePools).
Writes == OpenActor \/ CloseActor \/ OpenData \/ CloseData \/ (OpenPools /\ disk' # disk) \/ ClosePools

LEMMA WritesTyped == ASSUME Typed, Writes PROVE Typed'
<1> USE CheckpointAssumption DEF CheckpointAssumption
<1>1. step \in Step /\ step < TotalSteps + run /\ run \in 0..MaxRuns /\ Saving
  BY DEF Writes, OpenActor, CloseActor, OpenData, CloseData, OpenPools, ClosePools,
         Typed, TypeOK, Bounds, Working, Saving, Step
<1>2. \E file \in File, v \in 0..MaxRuns : disk' = Put(disk, step, Put(Folder, file, v))
  BY <1>1 DEF Writes, OpenActor, CloseActor, OpenData, CloseData, OpenPools, ClosePools, Open, Close, File
<1>3. DiskType(disk)' /\ DOMAIN disk' = DOMAIN disk \cup {step}
  BY <1>1, <1>2, FileWritten
<1>4. /\ config' = config /\ tracker' = tracker /\ record' = record /\ after' = after /\ run' = run
      /\ step' = step /\ last' = last /\ best' = best
      /\ pc' \in {"actor+", "data", "data+", "pools", "pools+", "tracker"}
      /\ shards' = shards \/ shards' = Append(shards, step)
  BY DEF Writes, OpenActor, CloseActor, OpenData, CloseData, OpenPools, ClosePools, Goto, process
<1>5. shards' \in Seq(Step)
  <2>1. shards \in Seq(Step)
    BY DEF Typed, TypeOK
  <2>2. Append(shards, step) \in Seq(Step)
    BY <1>1, <2>1, AppendProperties
  <2> QED BY <1>4, <2>1, <2>2
<1>6. TypeOK'
  BY <1>3, <1>4, <1>5 DEF DiskType, Typed, TypeOK
<1>7. Bounds'
  <2>1. Working /\ Working' /\ Saving'
    BY <1>1, <1>4 DEF Working, Saving
  <2> QED BY <1>1, <1>3, <1>4, <2>1 DEF Typed, Bounds
<1> QED BY <1>6, <1>7 DEF Typed

\* The actions that remove files (SaveBegin, Rotate).
LEMMA CutsTyped == ASSUME Typed, SaveBegin \/ Rotate PROVE Typed'
<1>1. CASE SaveBegin
  <2>1. /\ DiskType(disk)' /\ DOMAIN disk' = DOMAIN disk
        /\ shards' \in Seq(Step)
    <3>1. CASE AlreadySaved
      BY <1>1, <3>1 DEF SaveBegin, DiskType, Typed, TypeOK
    <3>2. CASE ~AlreadySaved
      <4>1. Len(shards) \in Nat /\ Expired \in Nat
        <5>1. WorkerKeep \in Nat
          BY CheckpointAssumption DEF WorkerKeep, Typed, Bounds, CheckpointAssumption, Setting
        <5>2. Len(shards) \in Nat
          BY LenProperties DEF Typed, TypeOK
        <5>3. \A l, w \in Nat : w > 0 /\ l >= w => l - w + 1 \in Nat
          OBVIOUS
        <5> QED BY <5>1, <5>2, <5>3 DEF Expired
      <4>2. \A i \in (Expired + 1)..Len(shards) : shards[i] \in Step
        BY <4>1, ElementOfSeq DEF Typed, TypeOK
      <4>3. SubSeq(shards, Expired + 1, Len(shards)) \in Seq(Step)
        BY <4>1, <4>2, SubSeqProperties, Expired + 1 \in Int, Len(shards) \in Int
      <4> QED BY <1>1, <3>2, <4>3, DiskCut DEF SaveBegin
    <3> QED BY <3>1, <3>2
  <2>2. /\ config' = config /\ tracker' = tracker /\ record' = record /\ after' = after /\ run' = run
        /\ step' = step /\ last' = last /\ best' = best /\ Saving /\ Working
        /\ pc' \in {"actor", "record", "next"}
    BY <1>1 DEF SaveBegin, Goto, Typed, Bounds, Saving, Working
  <2>3. TypeOK'
    BY <2>1, <2>2 DEF DiskType, Typed, TypeOK
  <2> QED BY <2>1, <2>2, <2>3 DEF Typed, Bounds, Working, Saving
<1>2. CASE Rotate
  <2>1. DiskType(disk)' /\ DOMAIN disk' \subseteq DOMAIN disk
    <3>1. CASE disk' = disk
      BY <3>1 DEF DiskType, Typed, TypeOK
    <3> DEFINE d == Without(disk, Stale \ {best.step})
    <3>2. DiskType(d) /\ DOMAIN d \subseteq DOMAIN disk
      BY DiskCut
    <3>3. disk' = disk \/ disk' = d
      BY <1>2 DEF Rotate
    <3> HIDE DEF d
    <3>4. CASE disk' = d
      BY <3>2, <3>4 DEF DiskType
    <3> QED BY <3>1, <3>3, <3>4
  <2>2. /\ config' = config /\ tracker' = tracker /\ record' = record /\ after' = after /\ run' = run
        /\ step' = step /\ last' = last /\ best' = best /\ shards' = shards /\ Saving /\ Working
        /\ pc' \in {"record", "next"}
    BY <1>2 DEF Rotate, Goto, Typed, Bounds, Saving, Working, process
  <2>3. TypeOK'
    BY <2>1, <2>2 DEF DiskType, Typed, TypeOK
  <2> QED BY <2>1, <2>2, <2>3 DEF Typed, Bounds, Working, Saving
<1> QED BY <1>1, <1>2

LEMMA StartTyped == ASSUME Typed, Start PROVE Typed'
<1> USE CheckpointAssumption DEF CheckpointAssumption
<1>1. /\ config' = config /\ disk' = disk /\ tracker' = tracker /\ record' = record
      /\ run' = run + 1 /\ run < MaxRuns /\ run' \in 0..MaxRuns /\ run \in Nat
  BY DEF Start, files, Typed, TypeOK
<1>2. \A s \in DOMAIN disk : s \in Nat /\ s > 0 /\ s < TotalSteps + run
  BY DEF Typed, TypeOK, Bounds, Step
<1>3. CASE Scratch
  BY <1>1, <1>2, <1>3 DEF Scratch, Goto, Typed, TypeOK, Bounds, Working, Saving, Step, Score, None
<1>4. CASE Resume
  <2>1. PICK s \in Found : /\ step' = s + 1
                           /\ best' = IF record.step <= s THEN [step |-> record.step, score |-> record.score] ELSE None
    BY <1>4 DEF Resume
  <2>2. s \in DOMAIN disk
    BY DEF Found
  <2>3. pc' = "train" /\ last' = 0 /\ shards' = << >> /\ after' = "none"
    BY <1>4 DEF Resume, Goto
  <2>4. best' \in [step : Step \cup {0}, score : Score \cup {0}]
    BY <2>1 DEF Typed, TypeOK, None
  <2>5. step' \in Step /\ step' < TotalSteps + run' /\ step' > 0 /\ run' > 0
    BY <1>1, <1>2, <2>1, <2>2 DEF Step
  <2>6. TypeOK'
    BY <1>1, <2>3, <2>4, <2>5 DEF Typed, TypeOK
  <2>7. Bounds'
    BY <1>1, <1>2, <2>3, <2>5 DEF Typed, Bounds, Working, Saving
  <2> QED BY <2>6, <2>7 DEF Typed
<1>5. CASE Fail
  BY <1>1, <1>2, <1>5 DEF Fail, Goto, Typed, TypeOK, Bounds, Working, Saving
<1> QED BY <1>3, <1>4, <1>5 DEF Start

\* The other actions move fit() on, and write the tracker, the record and the
\* trainer's own variables.
Moves == Train \/ Validate \/ Periodic \/ NextStep \/ OpenTracker \/ CloseTracker
           \/ OpenRecord \/ CloseRecord \/ Crash \/ (OpenPools /\ disk' = disk)

LEMMA MovesTyped == ASSUME Typed, Moves PROVE Typed'
<1> USE CheckpointAssumption DEF CheckpointAssumption
<1>1. disk' = disk /\ run' = run /\ config' = config /\ shards' = shards
  BY DEF Moves, Train, Validate, Periodic, NextStep, OpenTracker, CloseTracker, OpenRecord,
         CloseRecord, Crash, OpenPools, files, process
<1>2. Working /\ step \in Nat /\ step > 0 /\ step < TotalSteps + run /\ run \in 0..MaxRuns
  BY DEF Moves, Train, Validate, Periodic, NextStep, OpenTracker, CloseTracker, OpenRecord,
         CloseRecord, Crash, OpenPools, Typed, TypeOK, Bounds, Working, Step
<1>3. CASE Train \/ Periodic \/ Crash \/ OpenPools
  BY <1>1, <1>2, <1>3 DEF Train, Periodic, Crash, OpenPools, Goto, files, process,
     Typed, TypeOK, Bounds, Working, Saving
<1>4. CASE Validate
  <2>1. PICK score \in Score, found \in BOOLEAN :
       IF /\ Due(config.testFreq) /\ config.saveBest
          /\ found /\ (best.step = 0 \/ score > best.score)
         THEN /\ best' = [step |-> step, score |-> score]
              /\ Goto("save") /\ after' = "record"
         ELSE /\ Goto("periodic") /\ UNCHANGED <<best, after>>
    BY <1>4 DEF Validate
  <2>2. best' \in [step : Step \cup {0}, score : Score \cup {0}]
    BY <2>1 DEF Typed, TypeOK
  <2> QED BY <1>1, <1>2, <1>4, <2>1, <2>2 DEF Validate, Goto, files, Typed, TypeOK, Bounds, Working, Saving
<1>5. CASE NextStep
  <2>1. step' = step + 1 /\ pc' \in {"done", "train"} /\ (pc' = "train" => step < TotalSteps)
    BY <1>2, <1>5 DEF NextStep, IsLast, Goto
  <2>2. step' \in Step /\ step' > 0 /\ (pc' = "train" => step' < TotalSteps + run) /\ run > 0
    BY <1>2, <2>1 DEF Step, Typed, Bounds
  <2> QED BY <1>1, <1>2, <1>5, <2>1, <2>2 DEF NextStep, files, Typed, TypeOK, Bounds, Working, Saving
<1>6. CASE OpenTracker \/ CloseTracker
  <2>1. /\ tracker' \in [step : Step \cup {0}, whole : BOOLEAN] /\ last' \in Step \cup {0}
        /\ pc' \in {"tracker+", "rotate"} /\ Saving
        /\ record' = record /\ after' = after /\ step' = step /\ best' = best
    <3>0. step \in Step /\ last \in Step \cup {0}
      BY <1>2 DEF Typed, TypeOK
    <3>1. CASE OpenTracker
      BY <3>0, <3>1 DEF OpenTracker, Goto, process, Saving
    <3>2. CASE CloseTracker
      BY <3>0, <3>2 DEF CloseTracker, Goto, Saving
    <3> QED BY <1>6, <3>1, <3>2
  <2>2. TypeOK'
    BY <1>1, <2>1 DEF Typed, TypeOK
  <2> QED BY <1>1, <1>2, <2>1, <2>2 DEF Typed, Bounds, Working, Saving
<1>7. CASE OpenRecord \/ CloseRecord
  <2>1. /\ record' \in [step : Step \cup {0}, score : Score \cup {0}, whole : BOOLEAN]
        /\ pc' \in {"record+", "periodic"}
        /\ tracker' = tracker /\ after' = after /\ step' = step /\ last' = last /\ best' = best
    <3>0. best.step \in Step \cup {0} /\ best.score \in Score \cup {0}
      BY DEF Typed, TypeOK
    <3>1. CASE OpenRecord
      BY <3>0, <3>1 DEF OpenRecord, Goto, process
    <3>2. CASE CloseRecord
      BY <3>0, <3>2 DEF CloseRecord, Goto, process
    <3> QED BY <1>7, <3>1, <3>2
  <2>2. TypeOK'
    BY <1>1, <2>1 DEF Typed, TypeOK
  <2> QED BY <1>1, <1>2, <2>1, <2>2 DEF Typed, Bounds, Working, Saving
<1> QED BY <1>3, <1>4, <1>5, <1>6, <1>7 DEF Moves

\* Every step is of one of these kinds.
LEMMA StepKinds ==
  ASSUME [Next]_vars
  PROVE  Start \/ Writes \/ SaveBegin \/ Rotate \/ Moves \/ UNCHANGED vars
BY DEF Next, Writes, Moves

LEMMA NextTyped == Typed /\ [Next]_vars => Typed'
<1> SUFFICES ASSUME Typed, [Next]_vars PROVE Typed'
  OBVIOUS
<1>1. CASE UNCHANGED vars
  BY <1>1 DEF vars, Typed, TypeOK, Bounds, Working, Saving
<1> QED BY <1>1, StepKinds, StartTyped, WritesTyped, CutsTyped, MovesTyped

LEMMA Typing == Spec => []Typed
BY InitTyped, NextTyped, PTL DEF Spec

\* Every variable keeps its type; in particular no run gets more than one step
\* further than the one before (fit, _load_checkpoint).
THEOREM CheckpointTypes == Spec => []TypeOK
BY Typing, PTL DEF Typed

-----------------------------------------------------------------------------
(* Where the process is: what it saved last, and the folder it is writing. *)

Writing == pc \in {"actor", "actor+", "data", "data+", "pools", "pools+", "tracker", "tracker+"}

Placed ==
  Working =>
    /\ last <= step /\ (pc \in {"train", "validate"} => last < step)
    /\ Writing => last # step
    /\ pc \in {"rotate", "record", "record+"} => last = step
    /\ pc = "tracker+" => tracker.step = step
    /\ last # 0 /\ pc # "tracker+" => tracker.step = last
    /\ last = step \/ (Writing /\ pc # "actor") => step \in DOMAIN disk

\* The newest folder is not stale.
LEMMA NewestStays ==
  ASSUME Typed, config.keep # 0, Working
  PROVE  step \notin Stale
<1>1. step \in Nat /\ config.keep \in Nat
  BY CheckpointAssumption DEF Typed, TypeOK, Bounds, Step, CheckpointAssumption, Setting
<1>2. {t \in DOMAIN disk : step < t /\ t <= step} = {}
  BY <1>1 DEF Typed, TypeOK, Step
<1>3. Cardinality({t \in DOMAIN disk : step < t /\ t <= step}) = 0
  BY <1>2, FS_EmptySet
<1> QED BY <1>1, <1>3 DEF Stale

\* What each kind of step does to the folders.
LEMMA Folders ==
  ASSUME Typed, [Next]_vars
  PROVE  /\ Writes => Working /\ Writing /\ step' = step /\ DOMAIN disk' = DOMAIN disk \cup {step}
                      /\ \A s \in DOMAIN disk : s # step => disk'[s] = disk[s]
         /\ SaveBegin => DOMAIN disk' = DOMAIN disk
         /\ Rotate => /\ DOMAIN disk' \subseteq DOMAIN disk
                      /\ \A s \in DOMAIN disk' : disk'[s] = disk[s]
                      /\ step \in DOMAIN disk => step \in DOMAIN disk'
                      /\ best.step \in DOMAIN disk => best.step \in DOMAIN disk'
         /\ Start \/ Moves \/ UNCHANGED vars => disk' = disk
<1> USE CheckpointAssumption DEF CheckpointAssumption
<1>1. ASSUME Writes
      PROVE  /\ Working /\ Writing /\ step' = step /\ DOMAIN disk' = DOMAIN disk \cup {step}
             /\ \A s \in DOMAIN disk : s # step => disk'[s] = disk[s]
  <2>1. step \in Step /\ run \in 0..MaxRuns /\ Working /\ Writing /\ step' = step
    BY <1>1 DEF Writes, OpenActor, CloseActor, OpenData, CloseData, OpenPools, ClosePools, process,
         Typed, TypeOK, Bounds, Working, Writing, Step
  <2>2. \E file \in File, v \in 0..MaxRuns : disk' = Put(disk, step, Put(Folder, file, v))
    BY <1>1, <2>1 DEF Writes, OpenActor, CloseActor, OpenData, CloseData, OpenPools, ClosePools, Open, Close, File
  <2> QED BY <2>1, <2>2, FileWritten
<1>2. ASSUME SaveBegin PROVE DOMAIN disk' = DOMAIN disk
  BY <1>2 DEF SaveBegin
<1>3. ASSUME Rotate
      PROVE  /\ DOMAIN disk' \subseteq DOMAIN disk
             /\ \A s \in DOMAIN disk' : disk'[s] = disk[s]
             /\ step \in DOMAIN disk => step \in DOMAIN disk'
             /\ best.step \in DOMAIN disk => best.step \in DOMAIN disk'
  <2>1. CASE config.keep = 0
    BY <1>3, <2>1 DEF Rotate
  <2>2. CASE config.keep # 0
    <3>1. step \notin Stale
      BY <1>3, <2>2, NewestStays DEF Rotate, Working
    <3>2. disk' = Without(disk, Stale \ {best.step})
      BY <1>3, <2>2 DEF Rotate
    <3> QED BY <3>1, <3>2 DEF Without
  <2> QED BY <2>1, <2>2
<1>4. ASSUME Start \/ Moves \/ UNCHANGED vars PROVE disk' = disk
  BY <1>4 DEF Start, Moves, Train, Validate, Periodic, NextStep, OpenTracker, CloseTracker, OpenRecord,
         CloseRecord, Crash, files, process, vars
<1> QED BY <1>1, <1>2, <1>3, <1>4

LEMMA NextPlaced == Typed /\ Placed /\ [Next]_vars => Placed'
<1> SUFFICES ASSUME Typed, Placed, [Next]_vars PROVE Placed'
  OBVIOUS
<1>0. /\ Working => step \in Nat /\ step > 0 /\ last \in Nat
      /\ Saving => after \in {"record", "next"}
  BY DEF Typed, TypeOK, Bounds, Step
<1>1. CASE Start
  <2>1. CASE Scratch
    BY <1>1, <2>1 DEF Start, Scratch, Goto, Placed, Working, Writing
  <2>2. CASE Resume
    <3>1. PICK s \in Found : step' = s + 1
      BY <2>2 DEF Resume
    <3>2. s \in Nat /\ s > 0
      BY <3>1 DEF Found, Typed, TypeOK, Step
    <3> QED BY <1>1, <2>2, <3>1, <3>2 DEF Start, Resume, Goto, Placed, Working, Writing
  <2>3. CASE Fail
    BY <2>3 DEF Fail, Goto, Placed, Working
  <2> QED BY <1>1, <2>1, <2>2, <2>3 DEF Start
<1>2. CASE Writes
  <2>1. /\ tracker' = tracker /\ step' = step /\ last' = last /\ step \in DOMAIN disk'
        /\ pc' \in {"actor+", "data", "data+", "pools", "pools+", "tracker"} /\ pc # "tracker+"
        /\ Working /\ Writing
    BY <1>2, Folders DEF Writes, OpenActor, CloseActor, OpenData, CloseData, OpenPools, ClosePools, Goto, process
  <2> QED BY <2>1 DEF Placed, Working, Writing
<1>3. CASE SaveBegin
  <2>1. /\ tracker' = tracker /\ step' = step /\ last' = last /\ DOMAIN disk' = DOMAIN disk /\ pc = "save"
        /\ \/ last = step /\ pc' \in {"record", "next"}
           \/ last # step /\ pc' = "actor"
    BY <1>0, <1>3, Folders DEF SaveBegin, AlreadySaved, Goto, Saving
  <2> QED BY <2>1 DEF Placed, Working, Writing
<1>4. CASE Rotate
  <2>1. /\ tracker' = tracker /\ step' = step /\ last' = last /\ pc = "rotate" /\ pc' \in {"record", "next"}
        /\ step \in DOMAIN disk => step \in DOMAIN disk'
    BY <1>0, <1>4, Folders DEF Rotate, Goto, Saving, process
  <2> QED BY <2>1 DEF Placed, Working, Writing
<1>5. CASE Moves
  <2>1. disk' = disk
    BY <1>5, Folders
  <2>2. CASE Train \/ Periodic \/ Crash \/ OpenPools \/ OpenRecord \/ CloseRecord
    BY <2>1, <2>2 DEF Train, Periodic, Crash, OpenPools, OpenRecord, CloseRecord, Goto, files, process,
       Placed, Working, Writing
  <2>3. CASE Validate
    BY <1>0, <2>1, <2>3 DEF Validate, Goto, files, Placed, Working, Writing
  <2>4. CASE NextStep
    BY <1>0, <2>1, <2>4 DEF NextStep, Goto, files, Placed, Working, Writing
  <2>5. CASE OpenTracker
    BY <2>1, <2>5 DEF OpenTracker, Goto, process, Placed, Working, Writing
  <2>6. CASE CloseTracker
    <3>1. Working /\ Writing /\ step \in Nat /\ step \in DOMAIN disk
      BY <1>0, <2>6 DEF CloseTracker, Placed, Working, Writing
    <3>2. step' = step /\ last' = step /\ tracker'.step = step /\ pc' = "rotate"
      BY <2>6 DEF CloseTracker, Goto
    <3> QED BY <2>1, <3>1, <3>2 DEF Placed, Working, Writing
  <2> QED BY <1>5, <2>2, <2>3, <2>4, <2>5, <2>6 DEF Moves
<1>6. CASE UNCHANGED vars
  BY <1>6 DEF vars, Placed, Working, Writing
<1> QED BY <1>1, <1>2, <1>3, <1>4, <1>5, <1>6, StepKinds

LEMMA Placing == Spec => []Placed
<1>1. Init => Placed
  BY DEF Init, Placed, Working
<1> QED BY <1>1, NextPlaced, Typing, PTL DEF Spec

-----------------------------------------------------------------------------
(* The step that is durable, for automatic resumption.                     *)

\* The tracker's folder exists, and the process is ahead of it until it has
\* saved.
Tracked ==
  ~config.resumePath =>
    /\ tracker.step # 0 => tracker.step \in DOMAIN disk
    /\ Working => tracker.step <= step
    /\ Working /\ tracker.step = step => last = step \/ pc = "tracker+"

LEMMA NextTracked == Typed /\ Placed /\ Tracked /\ [Next]_vars => Tracked'
<1> SUFFICES ASSUME Typed, Placed, Tracked, [Next]_vars, ~config.resumePath PROVE Tracked'
  BY NextTyped DEF Next, vars, Tracked, Start, files, Train, Validate, Periodic, NextStep, SaveBegin,
     OpenActor, CloseActor, OpenData, CloseData, OpenPools, ClosePools, OpenTracker, CloseTracker,
     Rotate, OpenRecord, CloseRecord, Crash, process
<1>0. /\ step \in Nat /\ last \in Nat /\ tracker.step \in Nat
      /\ Working => step > 0
  BY DEF Typed, TypeOK, Bounds, Step
<1>1. CASE Start
  <2>1. disk' = disk /\ tracker' = tracker
    BY <1>1 DEF Start, files
  <2>2. CASE Scratch
    <3>1. tracker.step = 0 /\ step' = 1
      BY <2>2 DEF Scratch, Tracked
    <3> QED BY <2>1, <3>1 DEF Tracked
  <2>3. CASE Resume
    <3>1. PICK s \in Found : step' = s + 1
      BY <2>3 DEF Resume
    <3>2. s = tracker.step
      BY <3>1 DEF Found
    <3> QED BY <1>0, <2>1, <3>1, <3>2 DEF Tracked
  <2>4. CASE Fail
    BY <2>1, <2>4 DEF Fail, Goto, Tracked, Working
  <2> QED BY <1>1, <2>2, <2>3, <2>4 DEF Start
<1>2. CASE Writes
  <2>1. /\ tracker' = tracker /\ step' = step /\ last' = last /\ DOMAIN disk' = DOMAIN disk \cup {step}
        /\ Working /\ pc # "tracker+"
    BY <1>2, Folders DEF Writes, OpenActor, CloseActor, OpenData, CloseData, OpenPools, ClosePools, Goto, process
  <2> QED BY <2>1 DEF Tracked
<1>3. CASE SaveBegin
  <2>1. /\ tracker' = tracker /\ step' = step /\ last' = last /\ DOMAIN disk' = DOMAIN disk /\ pc = "save"
    BY <1>3, Folders DEF SaveBegin
  <2> QED BY <2>1 DEF Tracked, Working
<1>4. CASE Rotate
  <2>1. /\ tracker' = tracker /\ step' = step /\ last' = last /\ pc = "rotate" /\ Working
        /\ step \in DOMAIN disk => step \in DOMAIN disk'
    BY <1>4, Folders DEF Rotate, process, Working
  <2>2. last = step /\ tracker.step = step /\ step \in DOMAIN disk
    BY <1>0, <2>1 DEF Placed
  <2> QED BY <2>1, <2>2 DEF Tracked
<1>5. CASE Moves
  <2>1. disk' = disk
    BY <1>5, Folders
  <2>2. CASE Train \/ Validate \/ Periodic \/ Crash \/ OpenPools \/ OpenRecord \/ CloseRecord
    <3>1. (tracker' = tracker /\ step' = step /\ last' = last /\ pc # "tracker+") \/ Crash
      BY <2>2 DEF Train, Validate, Periodic, OpenPools, OpenRecord, CloseRecord, files, process
    <3>2. CASE Crash
      BY <2>1, <3>2 DEF Crash, Goto, files, Tracked, Working
    <3>3. CASE ~Crash
      <4>1. Working
        BY <2>2, <3>3 DEF Train, Validate, Periodic, OpenPools, OpenRecord, CloseRecord, Working
      <4> QED BY <2>1, <3>1, <3>3, <4>1 DEF Tracked
    <3> QED BY <3>2, <3>3
  <2>3. CASE NextStep
    <3>1. tracker' = tracker /\ step' = step + 1 /\ Working
      BY <2>3 DEF NextStep, files, Working
    <3> QED BY <1>0, <2>1, <3>1 DEF Tracked
  <2>4. CASE OpenTracker
    <3>1. tracker'.step = step /\ step' = step /\ last' = last /\ pc' = "tracker+" /\ step \in DOMAIN disk
      BY <2>4 DEF OpenTracker, Goto, process, Placed, Working, Writing
    <3> QED BY <1>0, <2>1, <3>1 DEF Tracked
  <2>5. CASE CloseTracker
    <3>1. tracker'.step = step /\ step' = step /\ last' = step /\ step \in DOMAIN disk
      BY <2>5 DEF CloseTracker, Placed, Working, Writing
    <3> QED BY <1>0, <2>1, <3>1 DEF Tracked
  <2> QED BY <1>5, <2>2, <2>3, <2>4, <2>5 DEF Moves
<1>6. CASE UNCHANGED vars
  BY <1>6 DEF vars, Tracked, Working
<1> QED BY <1>1, <1>2, <1>3, <1>4, <1>5, <1>6, StepKinds

LEMMA Tracking == Spec => []Tracked
<1>1. Init => Tracked
  BY DEF Init, Tracked, Working
<1> QED BY <1>1, NextTracked, Typing, Placing, PTL DEF Spec

\* The configuration is fixed.
LEMMA SameConfig == ASSUME [Next]_vars PROVE config' = config
BY DEF Next, vars, Start, files, Train, Validate, Periodic, NextStep, SaveBegin,
   OpenActor, CloseActor, OpenData, CloseData, OpenPools, ClosePools, OpenTracker, CloseTracker,
   Rotate, OpenRecord, CloseRecord, Crash, process

\* One step of the process as the store sees it.
LEMMA StepStores == Typed /\ Placed /\ Tracked /\ [Next]_vars => [Store!StoreNext]_(Store!storeVars)
<1> SUFFICES ASSUME Typed, Placed, Tracked, [Next]_vars PROVE [Store!StoreNext]_(Store!storeVars)
  OBVIOUS
<1>0. config' = config
  BY SameConfig
<1>1. CASE config.resumePath
  BY <1>0, <1>1 DEF Store!storeVars
<1>2. CASE ~config.resumePath
  <2>0. step \in Nat /\ tracker.step \in Nat
    BY DEF Typed, TypeOK, Step
  <2> SUFFICES \/ Completed' = Completed /\ tracker'.step = tracker.step
               \/ Completed' = Completed + 1 /\ tracker'.step = tracker.step
               \/ Completed' = Completed /\ tracker'.step = Completed
               \/ Completed' = tracker.step /\ tracker'.step = tracker.step
    BY <1>0, <1>2 DEF Store!StoreNext, Store!Advance, Store!Commit, Store!Crash, Store!storeVars
  <2>1. CASE Start
    <3>1. Completed = tracker.step /\ tracker' = tracker
      BY <2>1 DEF Start, files, Completed
    <3>2. CASE Scratch
      <4>1. tracker.step = 0 /\ step' = 1 /\ pc' = "train"
        BY <1>2, <3>2 DEF Scratch, Tracked, Goto
      <4> QED BY <3>1, <4>1 DEF Completed
    <3>3. CASE Resume
      <4>1. PICK s \in Found : step' = s + 1
        BY <3>3 DEF Resume
      <4>2. s = tracker.step /\ pc' = "train"
        BY <1>2, <3>3, <4>1 DEF Found, Resume, Goto
      <4>3. Completed' = tracker.step
        BY <2>0, <4>1, <4>2 DEF Completed
      <4> QED BY <3>1, <4>3
    <3>4. CASE Fail
      BY <3>1, <3>4 DEF Fail, Goto, Completed
    <3> QED BY <2>1, <3>2, <3>3, <3>4 DEF Start
  <2>2. CASE Writes \/ SaveBegin \/ Rotate
    <3>1. /\ tracker' = tracker /\ step' = step
          /\ pc \notin {"down", "failed", "train", "done"} /\ pc' \notin {"down", "failed", "train", "done"}
      <4>1. CASE Writes
        BY <4>1 DEF Writes, OpenActor, CloseActor, OpenData, CloseData, OpenPools, ClosePools, Goto, process
      <4>2. CASE SaveBegin \/ Rotate
        BY <4>2 DEF SaveBegin, Rotate, Goto, process, Typed, Bounds, Saving
      <4> QED BY <2>2, <4>1, <4>2
    <3> QED BY <3>1 DEF Completed
  <2>3. CASE Train
    <3>1. Completed = step - 1 /\ Completed' = step /\ tracker' = tracker
      BY <2>3 DEF Train, Goto, files, process, Completed
    <3> QED BY <2>0, <3>1
  <2>4. CASE Validate \/ Periodic \/ OpenPools \/ OpenRecord \/ CloseRecord
    <3>1. /\ tracker' = tracker /\ step' = step
          /\ pc \notin {"down", "failed", "train", "done"} /\ pc' \notin {"down", "failed", "train", "done"}
      BY <2>4 DEF Validate, Periodic, OpenPools, OpenRecord, CloseRecord, Goto, files, process
    <3> QED BY <3>1 DEF Completed
  <2>5. CASE NextStep
    <3>1. step' = step + 1 /\ pc = "next" /\ pc' \in {"train", "done"} /\ tracker' = tracker
      BY <2>5 DEF NextStep, Goto, files
    <3>2. Completed = step /\ Completed' = step
      BY <2>0, <3>1 DEF Completed
    <3> QED BY <3>1, <3>2
  <2>6. CASE OpenTracker
    BY <2>6 DEF OpenTracker, Goto, process, Completed
  <2>7. CASE CloseTracker
    <3>1. tracker.step = step
      BY <2>7 DEF CloseTracker, Placed, Working
    <3> QED BY <2>7, <3>1 DEF CloseTracker, Goto, Completed
  <2>8. CASE Crash
    BY <2>8 DEF Crash, Goto, files, Completed
  <2>9. CASE UNCHANGED vars
    BY <2>9 DEF vars, Completed
  <2> QED BY <2>1, <2>2, <2>3, <2>4, <2>5, <2>6, <2>7, <2>8, <2>9, StepKinds DEF Moves
<1> QED BY <1>1, <1>2

\* A restart continues from the last step that was made durable, and only a
\* completed step is made durable: the run implements the checkpoint store
\* (fit, _save_checkpoint, _load_checkpoint).
THEOREM StoreImplemented == Spec => ImplementsStore
<1>1. Init => Store!StoreInit
  BY DEF Init, Store!StoreInit, Completed
<1> QED BY <1>1, StepStores, Typing, Placing, Tracking, PTL DEF Spec, ImplementsStore, Store!StoreSpec

-----------------------------------------------------------------------------
(* The folder the tracker names.                                           *)

WholeIn(file) == file \in DOMAIN disk[step] /\ disk[step][file] # 0

\* The files of the folder that are closed, by the place the process is at.
Contents ==
  /\ pc \in {"data", "data+", "pools", "pools+", "tracker", "tracker+", "rotate"} => WholeIn("actor")
  /\ pc \in {"pools", "pools+", "tracker", "tracker+", "rotate"} => WholeIn("data")
  /\ pc \in {"tracker", "tracker+", "rotate"} /\ ~config.emptyPools => WholeIn("pools")

\* What the workers have saved, oldest first; the last one is the last save.
Shards ==
  Working =>
    /\ \A i, j \in 1..Len(shards) : i < j => shards[i] < shards[j]
    /\ shards # << >> => shards[Len(shards)] =
         IF pc \in {"data", "data+", "pools", "pools+", "tracker", "tracker+"} THEN step ELSE last

LEMMA NextContents == Typed /\ Placed /\ Contents /\ [Next]_vars => Contents'
<1> SUFFICES ASSUME Typed, Placed, Contents, [Next]_vars PROVE Contents'
  OBVIOUS
<1>0. config' = config
  BY SameConfig
<1> USE CheckpointAssumption DEF CheckpointAssumption
<1>1. CASE Writes
  <2>1. step \in Step /\ run \in 1..MaxRuns /\ step' = step /\ run' = run /\ 0 \in 0..MaxRuns /\ run \in 0..MaxRuns
    BY <1>1 DEF Writes, OpenActor, CloseActor, OpenData, CloseData, OpenPools, ClosePools, process,
       Typed, TypeOK, Bounds, Working, Step
  <2>2. step \in DOMAIN disk \/ pc = "actor"
    BY <1>1 DEF Writes, OpenActor, CloseActor, OpenData, CloseData, OpenPools, ClosePools, Placed, Working, Writing
  <2>3. ASSUME NEW file \in File, NEW v \in 0..MaxRuns, disk' = Put(disk, step, Put(Folder, file, v))
        PROVE  /\ v # 0 => WholeIn(file)'
               /\ \A f \in File : f # file /\ WholeIn(f) /\ pc # "actor" => WholeIn(f)'
    <3>1. /\ DOMAIN disk'[step] = DOMAIN Folder \cup {file} /\ disk'[step][file] = v
          /\ \A f \in DOMAIN Folder : f # file => disk'[step][f] = Folder[f]
      BY <2>1, <2>3, FileWritten
    <3>2. pc # "actor" => Folder = disk[step]
      BY <2>2 DEF Folder
    <3> QED BY <2>1, <3>1, <3>2 DEF WholeIn
  <2>4. CASE OpenActor
    BY <2>4 DEF OpenActor, Goto, Contents
  <2>5. CASE CloseActor
    BY <2>1, <2>3, <2>5 DEF CloseActor, Close, Goto, Contents, File
  <2>6. CASE OpenData
    BY <2>1, <2>3, <2>6 DEF OpenData, Open, Goto, Contents, File
  <2>7. CASE CloseData
    BY <2>1, <2>3, <2>7 DEF CloseData, Close, Goto, Contents, File
  <2>8. CASE OpenPools /\ disk' # disk
    BY <2>1, <2>3, <2>8 DEF OpenPools, Open, Goto, Contents, File
  <2>9. CASE ClosePools
    BY <2>1, <2>3, <2>9 DEF ClosePools, Close, Goto, Contents, File
  <2> QED BY <1>1, <2>4, <2>5, <2>6, <2>7, <2>8, <2>9 DEF Writes
<1>2. CASE OpenPools /\ disk' = disk
  BY <1>0, <1>2 DEF OpenPools, Goto, process, Contents, WholeIn
<1>3. CASE OpenTracker \/ CloseTracker
  <2>1. disk' = disk /\ step' = step
    BY <1>3 DEF OpenTracker, CloseTracker, process
  <2> QED BY <1>0, <1>3, <2>1 DEF OpenTracker, CloseTracker, Goto, Contents, WholeIn
<1>4. CASE SaveBegin \/ Rotate
  BY <1>4 DEF SaveBegin, Rotate, Goto, Typed, Bounds, Saving, Contents
<1>5. CASE Start \/ Train \/ Validate \/ Periodic \/ NextStep \/ OpenRecord \/ CloseRecord \/ Crash
  BY <1>5 DEF Start, Scratch, Resume, Fail, Train, Validate, Periodic, NextStep, OpenRecord, CloseRecord,
     Crash, Goto, Contents
<1>6. CASE UNCHANGED vars
  BY <1>6 DEF vars, Contents, WholeIn
<1> QED BY <1>1, <1>2, <1>3, <1>4, <1>5, <1>6, StepKinds DEF Moves

\* How many saves the workers remove, and what they keep (SaveBegin).
LEMMA Expiring ==
  ASSUME Typed
  PROVE  /\ Len(shards) \in Nat /\ Expired \in Nat /\ Expired <= Len(shards)
         /\ Expired > 0 => ~config.saveBest /\ config.keep > 0
         /\ Expired > 0 /\ config.keep # 1 => Expired < Len(shards)
<1>1. config.keep \in Nat /\ config.saveBest \in BOOLEAN
  BY CheckpointAssumption DEF Typed, Bounds, CheckpointAssumption, Setting
<1>2. Len(shards) \in Nat
  BY LenProperties DEF Typed, TypeOK
<1> DEFINE l == Len(shards)
           w == WorkerKeep
<1>3. w \in Nat /\ (w > 0 => ~config.saveBest /\ w = config.keep)
  BY <1>1 DEF WorkerKeep
<1>4. Expired = IF w > 0 /\ l >= w THEN l - w + 1 ELSE 0
  BY DEF Expired
<1> HIDE DEF l, w
<1>5. l \in Nat
  BY <1>2 DEF l
<1>6. /\ Expired \in Nat /\ Expired <= l /\ (Expired > 0 => w > 0)
      /\ (Expired > 0 /\ w # 1 => Expired < l)
  BY <1>3, <1>4, <1>5
<1>7. Expired > 0 => ~config.saveBest /\ config.keep > 0 /\ w = config.keep
  BY <1>3, <1>6
<1> QED BY <1>2, <1>6, <1>7 DEF l

\* What is left of the shards keeps its order, and its end.
LEMMA ShardsCut ==
  ASSUME Typed, NEW t, t = SubSeq(shards, Expired + 1, Len(shards)),
         \A i, j \in 1..Len(shards) : i < j => shards[i] < shards[j]
  PROVE  /\ \A i, j \in 1..Len(t) : i < j => t[i] < t[j]
         /\ t # << >> => shards # << >> /\ t[Len(t)] = shards[Len(shards)]
<1> DEFINE l == Len(shards)
           e == Expired
           n == Len(t)
<1>1. l \in Nat /\ e \in Nat /\ e <= l
  BY Expiring
<1>2. \A i \in (e + 1)..l : shards[i] \in Step
  BY <1>1, ElementOfSeq DEF Typed, TypeOK
<1>3. /\ t \in Seq(Step) /\ n = IF e + 1 <= l THEN l - (e + 1) + 1 ELSE 0
      /\ \A i \in 1..(l - (e + 1) + 1) : t[i] = shards[(e + 1) + i - 1]
  BY <1>1, <1>2, SubSeqProperties, e + 1 \in Int, l \in Int
<1> HIDE DEF l, e, n
<1>4. n = l - e
  BY <1>1, <1>3
<1>5. ASSUME NEW i \in 1..n PROVE t[i] = shards[e + i] /\ e + i \in 1..l
  <2>1. i \in 1..(l - (e + 1) + 1) /\ (e + 1) + i - 1 = e + i /\ e + i \in 1..l
    BY <1>1, <1>4
  <2> QED BY <1>3, <2>1
<1>6. ASSUME NEW i \in 1..n, NEW j \in 1..n, i < j PROVE t[i] < t[j]
  <2>1. e + i < e + j
    BY <1>1, <1>4, <1>6
  <2> QED BY <1>5, <2>1 DEF l
<1>7. ASSUME t # << >> PROVE shards # << >> /\ t[n] = shards[l]
  <2>1. n # 0
    BY <1>3, <1>7, EmptySeq DEF n
  <2>2. n \in 1..n /\ e + n = l /\ l # 0
    BY <1>1, <1>4, <2>1
  <2>3. shards # << >>
    BY <2>2, EmptySeq DEF l
  <2> QED BY <1>5, <2>2, <2>3
<1> QED BY <1>6, <1>7 DEF n, l

LEMMA NextShards == Typed /\ Placed /\ Shards /\ [Next]_vars => Shards'
<1> SUFFICES ASSUME Typed, Placed, Shards, [Next]_vars PROVE Shards'
  OBVIOUS
<1> DEFINE Written == {"data", "data+", "pools", "pools+", "tracker", "tracker+"}
<1>1. CASE Start
  <2>1. CASE Scratch \/ Resume
    <3>1. shards' = << >>
      BY <2>1 DEF Scratch, Resume
    <3>2. 1..Len(shards') = {}
      BY <3>1, EmptySeq
    <3> QED BY <3>1, <3>2 DEF Shards
  <2>2. CASE Fail
    BY <2>2 DEF Fail, Goto, Shards, Working
  <2> QED BY <1>1, <2>1, <2>2 DEF Start
<1>2. CASE SaveBegin
  <2>1. Working /\ pc \notin Written /\ pc' \notin Written /\ last' = last
    BY <1>2 DEF SaveBegin, Goto, Typed, Bounds, Working, Saving
  <2>2. CASE shards' = shards
    BY <2>1, <2>2 DEF Shards
  <2>3. CASE shards' = SubSeq(shards, Expired + 1, Len(shards))
    BY <2>1, <2>3, ShardsCut DEF Shards
  <2> QED BY <1>2, <2>2, <2>3 DEF SaveBegin
<1>3. CASE CloseActor
  <2> DEFINE n == Len(shards)
  <2>1. /\ shards' = Append(shards, step) /\ step' = step /\ pc' = "data"
        /\ Working /\ last < step /\ step \in Step /\ last \in Nat /\ step \in Nat
    <3>1. Working /\ step \in Step /\ last \in Nat /\ step \in Nat
      BY <1>3 DEF CloseActor, Typed, TypeOK, Bounds, Working, Step
    <3>2. last <= step /\ last # step
      BY <1>3, <3>1 DEF CloseActor, Placed, Writing
    <3> QED BY <1>3, <3>1, <3>2 DEF CloseActor, Goto
  <2>2. /\ Len(shards') = n + 1 /\ shards'[n + 1] = step /\ n \in Nat
        /\ \A i \in 1..n : shards'[i] = shards[i] /\ shards[i] \in Nat
        /\ n > 0 => shards[n] = last
    <3>1. shards \in Seq(Step) /\ n \in Nat /\ \A i \in 1..n : shards[i] \in Step
      BY LenProperties, ElementOfSeq DEF Typed, TypeOK
    <3>2. n > 0 => shards[n] = last
      BY <1>3, <2>1, <3>1, EmptySeq DEF Shards, CloseActor
    <3> QED BY <2>1, <3>1, <3>2, AppendProperties DEF Step
  <2> HIDE DEF n
  <2>3. ASSUME NEW i \in 1..n PROVE shards[i] <= last
    <3>1. n \in 1..n /\ n > 0 /\ (i < n \/ i = n)
      BY <2>2
    <3>2. i < n => shards[i] < shards[n]
      BY <2>1, <3>1 DEF Shards, n
    <3> QED BY <2>1, <2>2, <3>1, <3>2
  <2>4. ASSUME NEW i \in 1..(n + 1), NEW j \in 1..(n + 1), i < j PROVE shards'[i] < shards'[j]
    <3>1. i \in 1..n
      BY <2>2, <2>4
    <3>2. CASE j \in 1..n
      <4>1. shards[i] < shards[j]
        BY <2>1, <2>4, <3>1, <3>2 DEF Shards, n
      <4> QED BY <2>2, <3>1, <3>2, <4>1
    <3>3. CASE j = n + 1
      BY <2>1, <2>2, <2>3, <3>1, <3>3
    <3> QED BY <2>2, <3>2, <3>3
  <2> QED BY <2>1, <2>2, <2>4 DEF Shards
<1>4. CASE (Writes /\ ~CloseActor) \/ Rotate \/ (Moves /\ ~Crash)
  <2>1. /\ shards' = shards /\ Working
        /\ \/ pc \in Written /\ pc' \in Written /\ step' = step
           \/ pc \notin Written /\ pc' \notin Written /\ last' = last
           \/ CloseTracker
    <3>1. CASE Writes /\ ~CloseActor
      BY <3>1 DEF Writes, OpenActor, OpenData, CloseData, OpenPools, ClosePools, Goto, process, Working
    <3>2. CASE Rotate
      BY <3>2 DEF Rotate, Goto, process, Typed, Bounds, Saving, Working
    <3>3. CASE Moves /\ ~Crash
      BY <3>3 DEF Moves, Train, Validate, Periodic, NextStep, OpenTracker, OpenRecord, CloseRecord,
         CloseTracker, OpenPools, Goto, files, process, Working
    <3> QED BY <1>4, <3>1, <3>2, <3>3
  <2>2. CASE CloseTracker
    BY <2>1, <2>2 DEF CloseTracker, Goto, Shards
  <2>3. CASE ~CloseTracker
    BY <2>1, <2>3 DEF Shards
  <2> QED BY <2>2, <2>3
<1>5. CASE Crash
  BY <1>5 DEF Crash, Goto, Shards, Working
<1>6. CASE UNCHANGED vars
  BY <1>6 DEF vars, Shards, Working
<1> QED BY <1>1, <1>2, <1>3, <1>4, <1>5, <1>6, StepKinds

LEMMA Filling == Spec => [](Contents /\ Shards)
<1>1. Init => Contents /\ Shards
  BY DEF Init, Contents, Shards, Working
<1>2. Typed /\ Placed /\ (Contents /\ Shards) /\ [Next]_vars => (Contents /\ Shards)'
  BY NextContents, NextShards
<1> QED BY <1>1, <1>2, Typing, Placing, PTL DEF Spec

LEMMA NextWhole ==
  Typed /\ Placed /\ Tracked /\ Contents /\ Shards /\ TrackedIsWholeIfDurable /\ [Next]_vars
    => TrackedIsWholeIfDurable'
<1> SUFFICES ASSUME Typed, Placed, Tracked, Contents, Shards, TrackedIsWholeIfDurable, [Next]_vars,
                    Durable, tracker'.step # 0
             PROVE  (tracker.step \in DOMAIN disk /\ Loadable(tracker.step))'
  BY SameConfig DEF TrackedIsWholeIfDurable, TrackedIsWhole, Durable
<1>0. /\ tracker.step # 0 => tracker.step \in DOMAIN disk /\ Loadable(tracker.step)
      /\ ~config.resumePath /\ ~config.emptyPools /\ (config.saveBest \/ config.keep # 1)
  BY DEF TrackedIsWholeIfDurable, TrackedIsWhole, Durable
<1>1. CASE tracker' = tracker /\ tracker.step \in DOMAIN disk' /\ disk'[tracker.step] = disk[tracker.step]
  BY <1>0, <1>1 DEF Loadable
<1>2. CASE Writes
  <2>1. /\ tracker' = tracker /\ Working /\ Writing /\ pc # "tracker+"
        /\ DOMAIN disk' = DOMAIN disk \cup {step}
        /\ \A s \in DOMAIN disk : s # step => disk'[s] = disk[s]
    BY <1>2, Folders DEF Writes, OpenActor, CloseActor, OpenData, CloseData, OpenPools, ClosePools, process
  <2>2. tracker.step # step
    BY <1>0, <2>1 DEF Placed, Tracked
  <2> QED BY <1>0, <1>1, <2>1, <2>2
<1>3. CASE SaveBegin
  <2>1. tracker' = tracker /\ Working /\ pc = "save"
    BY <1>3 DEF SaveBegin, Working
  <2>2. CASE AlreadySaved
    BY <1>0, <1>1, <1>3, <2>1, <2>2 DEF SaveBegin
  <2>3. CASE ~AlreadySaved
    <3> DEFINE gone == {shards[i] : i \in 1..Expired}
    <3>1. disk' = [s \in DOMAIN disk |-> IF s \in gone THEN Without(disk[s], {"actor"}) ELSE disk[s]]
      BY <1>3, <2>3 DEF SaveBegin
    <3>2. tracker.step \notin gone
      <4> SUFFICES ASSUME NEW i \in 1..Expired PROVE tracker.step # shards[i]
        OBVIOUS
      <4> DEFINE l == Len(shards)
      <4>1. l \in Nat /\ Expired \in Nat /\ Expired > 0
        BY Expiring
      <4>2. Expired < l
        BY <1>0, <4>1, Expiring
      <4> HIDE DEF l
      <4>3. i \in 1..l /\ l \in 1..l /\ i < l /\ l # 0
        BY <4>1, <4>2
      <4>4. shards[i] < shards[l] /\ shards # << >>
        BY <2>1, <4>3, EmptySeq DEF Shards, l
      <4>5. shards[l] = last /\ shards[l] \in Step /\ shards[i] \in Step
        BY <2>1, <4>3, <4>4, ElementOfSeq DEF Shards, l, Typed, TypeOK
      <4>6. last # 0
        BY <4>5 DEF Step
      <4>7. tracker.step = last
        BY <2>1, <4>6 DEF Placed
      <4> QED BY <4>4, <4>5, <4>7 DEF Step
    <3> HIDE DEF gone
    <3> QED BY <1>0, <1>1, <2>1, <3>1, <3>2
  <2> QED BY <2>2, <2>3
<1>4. CASE Rotate
  <2>1. /\ tracker' = tracker /\ pc = "rotate" /\ Working
        /\ step \in DOMAIN disk => step \in DOMAIN disk'
        /\ \A s \in DOMAIN disk' : disk'[s] = disk[s]
    BY <1>4, Folders DEF Rotate, process, Working
  <2>2. last = step /\ step # 0 /\ tracker.step = step /\ step \in DOMAIN disk
    BY <2>1 DEF Placed, Typed, Bounds
  <2> QED BY <1>1, <2>1, <2>2
<1>5. CASE OpenTracker \/ CloseTracker
  <2>1. /\ tracker'.step = step /\ disk' = disk /\ pc \in {"tracker", "tracker+"}
    BY <1>5 DEF OpenTracker, CloseTracker, process
  <2>2. step \in DOMAIN disk /\ WholeIn("actor") /\ WholeIn("data") /\ WholeIn("pools")
    BY <1>0, <2>1 DEF Placed, Contents, Working, Writing
  <2>3. DOMAIN disk[step] \subseteq {"actor", "data", "pools"}
    BY <2>2 DEF Typed, TypeOK, File
  <2> QED BY <2>1, <2>2, <2>3 DEF Loadable, WholeIn
<1>6. CASE UNCHANGED vars
  BY <1>0, <1>1, <1>6 DEF vars
<1>7. CASE Start \/ (Moves /\ ~OpenTracker /\ ~CloseTracker)
  <2>1. disk' = disk
    BY <1>7, Folders
  <2>2. tracker' = tracker
    BY <1>7 DEF Start, files, Moves, Train, Validate, Periodic, NextStep, OpenRecord, CloseRecord,
       Crash, OpenPools, process
  <2> QED BY <1>0, <1>1, <2>1, <2>2
<1> QED BY <1>2, <1>3, <1>4, <1>5, <1>6, <1>7, StepKinds

\* "A complete, resumable checkpoint exists on disk at all times" (comment in
\* _save_checkpoint), also within a save and after any crash: with automatic
\* resumption, pools that are never empty, and workers that do not rotate down
\* to a single save.
THEOREM AlwaysResumable == Spec => []TrackedIsWholeIfDurable
<1>1. Init => TrackedIsWholeIfDurable
  BY DEF Init, TrackedIsWholeIfDurable, TrackedIsWhole
<1> QED BY <1>1, NextWhole, Typing, Placing, Tracking, Filling, PTL DEF Spec

-----------------------------------------------------------------------------
(* The best step, in a run that is not interrupted.                        *)

\* A file that is being written.
OpenNow == {<<"actor+", "actor">>, <<"data+", "data">>, <<"pools+", "pools">>}

\* With save_best_checkpoint the first process leaves only whole files behind.
FirstFolders ==
  /\ run = 0 => DOMAIN disk = {} /\ pc = "down"
  /\ run = 1 /\ Working /\ config.saveBest =>
       \A s \in DOMAIN disk :
         /\ "actor" \in DOMAIN disk[s]
         /\ \A f \in DOMAIN disk[s] : disk[s][f] = 0 => s = step /\ <<pc, f>> \in OpenNow

\* Between the new best and its record there is a save.
Recording == pc \in {"record", "record+"} \/ (Saving /\ after = "record")

BestKept ==
  run = 1 /\ Working /\ best.step # 0 =>
    /\ config.saveBest /\ best.step <= step /\ (pc = "train" => best.step < step)
    /\ best.step = step => last = step \/ (Saving /\ after = "record")
    /\ best.step < step => best.step \in DOMAIN disk
    /\ Recording \/ record = [step |-> best.step, score |-> best.score, whole |-> TRUE]

LEMMA NextFirstFolders == Typed /\ Placed /\ FirstFolders /\ [Next]_vars => FirstFolders'
<1> SUFFICES ASSUME Typed, Placed, FirstFolders, [Next]_vars PROVE FirstFolders'
  OBVIOUS
<1>0. config' = config
  BY SameConfig
<1>1. CASE Start
  <2>1. run' = run + 1 /\ disk' = disk /\ run \in Nat
    BY <1>1 DEF Start, files, Typed, TypeOK
  <2>2. run' = 1 => DOMAIN disk' = {}
    BY <2>1 DEF FirstFolders
  <2> QED BY <2>1, <2>2 DEF FirstFolders
<1>2. CASE Writes
  <2>1. /\ step \in Step /\ run \in 1..MaxRuns /\ step' = step /\ run' = run /\ 0 \in 0..MaxRuns /\ run \in 0..MaxRuns
        /\ Working /\ (pc = "actor" \/ step \in DOMAIN disk)
    BY <1>2, CheckpointAssumption DEF Writes, OpenActor, CloseActor, OpenData, CloseData, OpenPools, ClosePools,
       process, Typed, TypeOK, Bounds, Working, Writing, Step, Placed, CheckpointAssumption
  <2>2. \E file \in File, v \in {0, run} :
          /\ disk' = Put(disk, step, Put(Folder, file, v))
          /\ v = 0 => <<pc', file>> \in OpenNow
          /\ \A f \in File : <<pc, f>> \in OpenNow => f = file
          /\ pc = "actor" => file = "actor"
    <3>1. CASE OpenActor
      BY <3>1 DEF OpenActor, Open, Goto, File, OpenNow
    <3>2. CASE CloseActor
      BY <2>1, <3>2 DEF CloseActor, Close, Goto, File, OpenNow
    <3>3. CASE OpenData
      BY <3>3 DEF OpenData, Open, Goto, File, OpenNow
    <3>4. CASE CloseData
      BY <2>1, <3>4 DEF CloseData, Close, Goto, File, OpenNow
    <3>5. CASE OpenPools /\ disk' # disk
      BY <3>5 DEF OpenPools, Open, Goto, File, OpenNow
    <3>6. CASE ClosePools
      BY <2>1, <3>6 DEF ClosePools, Close, Goto, File, OpenNow
    <3> QED BY <1>2, <3>1, <3>2, <3>3, <3>4, <3>5, <3>6 DEF Writes
  <2>3. PICK file \in File, v \in {0, run} :
          /\ disk' = Put(disk, step, Put(Folder, file, v))
          /\ v = 0 => <<pc', file>> \in OpenNow
          /\ \A f \in File : <<pc, f>> \in OpenNow => f = file
          /\ pc = "actor" => file = "actor"
    BY <2>2
  <2>4. /\ DOMAIN disk' = DOMAIN disk \cup {step}
        /\ DOMAIN disk'[step] = DOMAIN Folder \cup {file} /\ disk'[step][file] = v
        /\ \A f \in DOMAIN Folder : f # file => disk'[step][f] = Folder[f]
        /\ \A s \in DOMAIN disk : s # step => disk'[s] = disk[s]
    BY <2>1, <2>3, FileWritten
  <2>5. ASSUME run' = 1, Working', config'.saveBest, NEW s \in DOMAIN disk'
        PROVE  /\ "actor" \in DOMAIN disk'[s]
               /\ \A f \in DOMAIN disk'[s] : disk'[s][f] = 0 => s = step' /\ <<pc', f>> \in OpenNow
    <3>0. \A r \in DOMAIN disk :
            /\ "actor" \in DOMAIN disk[r]
            /\ \A f \in DOMAIN disk[r] : disk[r][f] = 0 => r = step /\ <<pc, f>> \in OpenNow
      BY <1>0, <2>1, <2>5 DEF FirstFolders
    <3>1. CASE s # step
      BY <2>4, <2>5, <3>0, <3>1
    <3>2. CASE s = step
      <4>1. DOMAIN Folder \subseteq File
        BY DEF Folder, Typed, TypeOK
      <4>2. \A f \in DOMAIN Folder : f # file => Folder[f] # 0
        <5>1. CASE step \in DOMAIN disk
          <6>1. Folder = disk[step]
            BY <5>1 DEF Folder
          <6>2. \A f \in DOMAIN Folder : Folder[f] = 0 => <<pc, f>> \in OpenNow
            BY <3>0, <5>1, <6>1
          <6> QED BY <2>3, <4>1, <6>2
        <5>2. CASE step \notin DOMAIN disk
          BY <5>2 DEF Folder
        <5> QED BY <5>1, <5>2
      <4>3. "actor" \in DOMAIN disk'[step]
        BY <2>1, <2>3, <2>4, <3>0 DEF Folder
      <4> QED BY <2>1, <2>3, <2>4, <3>2, <4>2, <4>3
    <3> QED BY <3>1, <3>2
  <2> QED BY <2>1, <2>5 DEF FirstFolders
<1>3. CASE SaveBegin
  <2>1. /\ run' = run /\ step' = step /\ Working /\ pc = "save" /\ DOMAIN disk' = DOMAIN disk /\ run # 0
    BY <1>3, Folders DEF SaveBegin, Working, Typed, Bounds
  <2>2. config.saveBest => \A s \in DOMAIN disk : disk'[s] = disk[s]
    <3>1. config.saveBest => Expired = 0
      BY Expiring
    <3>2. config.saveBest => {shards[i] : i \in 1..Expired} = {}
      BY <3>1
    <3> QED BY <1>3, <3>2 DEF SaveBegin
  <2> QED BY <1>0, <2>1, <2>2 DEF FirstFolders, OpenNow
<1>4. CASE Rotate
  <2>1. /\ run' = run /\ step' = step /\ Working /\ pc = "rotate" /\ run # 0
        /\ DOMAIN disk' \subseteq DOMAIN disk /\ \A s \in DOMAIN disk' : disk'[s] = disk[s]
    BY <1>4, Folders DEF Rotate, process, Working, Typed, Bounds
  <2> QED BY <1>0, <2>1 DEF FirstFolders, OpenNow
<1>5. CASE Moves
  <2>1. /\ disk' = disk /\ run' = run /\ Working /\ run # 0
        /\ pc \notin {"actor+", "data+", "pools+"} \/ Crash
    BY <1>5, Folders DEF Moves, Train, Validate, Periodic, NextStep, OpenTracker, CloseTracker, OpenRecord,
       CloseRecord, Crash, OpenPools, files, process, Working, Typed, Bounds
  <2>2. CASE Crash
    BY <2>1, <2>2 DEF Crash, Goto, FirstFolders, Working
  <2>3. CASE ~Crash
    <3>1. \A f : <<pc, f>> \notin OpenNow
      BY <2>1, <2>3 DEF OpenNow
    <3> QED BY <1>0, <2>1, <3>1 DEF FirstFolders
  <2> QED BY <2>2, <2>3
<1>6. CASE UNCHANGED vars
  BY <1>6 DEF vars, FirstFolders, Working, OpenNow
<1> QED BY <1>1, <1>2, <1>3, <1>4, <1>5, <1>6, StepKinds

LEMMA NextBestKept == Typed /\ Placed /\ FirstFolders /\ BestKept /\ [Next]_vars => BestKept'
<1> SUFFICES ASSUME Typed, Placed, FirstFolders, BestKept, [Next]_vars,
                    run' = 1, Working', best'.step # 0
             PROVE  /\ config'.saveBest /\ best'.step <= step' /\ (pc' = "train" => best'.step < step')
                    /\ best'.step = step' => last' = step' \/ (Saving' /\ after' = "record")
                    /\ best'.step < step' => best'.step \in DOMAIN disk'
                    /\ Recording' \/ record' = [step |-> best'.step, score |-> best'.score, whole |-> TRUE]
  BY DEF BestKept
<1>0. config' = config
  BY SameConfig
<1>1. CASE Start
  <2>1. run = 0 /\ run \in Nat
    BY <1>1 DEF Start, Typed, TypeOK
  <2>2. CASE Scratch
    BY <2>2 DEF Scratch, None
  <2>3. CASE Resume
    BY <2>1, <2>3 DEF Resume, Found, FirstFolders
  <2>4. CASE Fail
    BY <2>4 DEF Fail, Goto, Working
  <2> QED BY <1>1, <2>2, <2>3, <2>4 DEF Start
<1>2. ASSUME run = 1, Working, best.step # 0
      PROVE  /\ config.saveBest /\ best.step <= step /\ (pc = "train" => best.step < step)
             /\ best.step = step => last = step \/ (Saving /\ after = "record")
             /\ best.step < step => best.step \in DOMAIN disk
             /\ Recording \/ record = [step |-> best.step, score |-> best.score, whole |-> TRUE]
  BY <1>2 DEF BestKept
<1>3. best.step \in Nat /\ step \in Nat /\ last \in Nat
  BY DEF Typed, TypeOK, Step
<1>4. CASE Writes
  <2>1. /\ run' = run /\ step' = step /\ best' = best /\ last' = last /\ record' = record /\ after' = after
        /\ Working /\ pc \notin {"train", "record", "record+"} /\ Saving /\ Saving' /\ pc' # "train"
        /\ DOMAIN disk' = DOMAIN disk \cup {step}
    BY <1>4, Folders DEF Writes, OpenActor, CloseActor, OpenData, CloseData, OpenPools, ClosePools,
       Goto, process, Saving
  <2> QED BY <1>0, <1>2, <2>1 DEF Recording
<1>5. CASE SaveBegin \/ Rotate
  <2>1. /\ run' = run /\ step' = step /\ best' = best /\ last' = last /\ record' = record /\ after' = after
        /\ Working /\ Saving /\ pc' # "train" /\ pc \notin {"record", "record+"}
        /\ best.step \in DOMAIN disk => best.step \in DOMAIN disk'
        /\ \/ pc' = after /\ last = step /\ after \in {"record", "next"}
           \/ Saving'
    <3>1. CASE SaveBegin
      BY <1>3, <3>1, Folders DEF SaveBegin, AlreadySaved, Goto, Working, Saving, Typed, Bounds
    <3>2. CASE Rotate
      BY <1>3, <3>2, Folders DEF Rotate, Goto, process, Working, Saving, Placed, Typed, Bounds
    <3> QED BY <1>5, <3>1, <3>2
  <2> QED BY <1>0, <1>2, <2>1 DEF Recording
<1>6. CASE Moves
  <2>1. disk' = disk
    BY <1>6, Folders
  <2>2. CASE Train \/ Periodic
    <3>1. /\ run' = run /\ step' = step /\ best' = best /\ last' = last /\ record' = record /\ disk' = disk
          /\ Working /\ ~Saving /\ pc \notin {"record", "record+"} /\ pc' # "train"
      BY <2>1, <2>2 DEF Train, Periodic, Goto, files, process, Working, Saving
    <3> QED BY <1>0, <1>2, <3>1 DEF Recording
  <2>3. CASE Validate
    <3>1. /\ run' = run /\ step' = step /\ last' = last /\ record' = record /\ disk' = disk
          /\ Working /\ ~Saving /\ pc \notin {"record", "record+"} /\ pc' # "train"
      BY <2>1, <2>3 DEF Validate, Goto, files, Working, Saving
    <3>2. CASE best' = best
      BY <1>0, <1>2, <3>1, <3>2 DEF Recording
    <3>3. CASE best'.step = step /\ pc' = "save" /\ after' = "record" /\ config.saveBest
      BY <1>0, <1>3, <3>1, <3>3 DEF Recording, Saving
    <3> QED BY <2>3, <3>2, <3>3 DEF Validate, Goto
  <2>4. CASE NextStep
    <3>1. /\ run' = run /\ step' = step + 1 /\ last' = last /\ record' = record /\ disk' = disk /\ best' = best
          /\ Working /\ ~Saving /\ pc \notin {"record", "record+"}
      BY <2>1, <2>4 DEF NextStep, Goto, files, Working, Saving
    <3>2. best.step = step => step \in DOMAIN disk
      BY <1>2, <3>1 DEF Placed
    <3>3. best.step <= step /\ (best.step < step \/ best.step = step)
      BY <1>2, <1>3, <3>1
    <3>4. best.step < step' /\ best.step # step' /\ best.step <= step'
      BY <1>3, <3>1, <3>3
    <3> QED BY <1>0, <1>2, <3>1, <3>2, <3>3, <3>4 DEF Recording
  <2>5. CASE OpenTracker \/ CloseTracker \/ OpenPools
    <3>1. /\ run' = run /\ step' = step /\ best' = best /\ record' = record /\ disk' = disk /\ after' = after
          /\ Working /\ Saving /\ Saving' /\ pc' # "train" /\ (last' = last \/ last' = step)
          /\ pc \notin {"record", "record+"}
      BY <2>1, <2>5 DEF OpenTracker, CloseTracker, OpenPools, Goto, process, Working, Saving
    <3> QED BY <1>0, <1>2, <3>1 DEF Recording
  <2>6. CASE OpenRecord
    <3>1. /\ run' = run /\ step' = step /\ best' = best /\ disk' = disk /\ last' = last
          /\ Working /\ ~Saving /\ pc' = "record+"
      BY <2>1, <2>6 DEF OpenRecord, Goto, process, Working, Saving
    <3> QED BY <1>0, <1>2, <3>1 DEF Recording
  <2>7. CASE CloseRecord
    <3>1. /\ run' = run /\ step' = step /\ best' = best /\ disk' = disk /\ last' = last
          /\ Working /\ ~Saving /\ pc' = "periodic"
          /\ record' = [step |-> best.step, score |-> best.score, whole |-> TRUE]
      BY <2>1, <2>7 DEF CloseRecord, Goto, process, Working, Saving
    <3> QED BY <1>0, <1>2, <3>1 DEF Recording
  <2>8. CASE Crash
    BY <2>8 DEF Crash, Goto, Working
  <2> QED BY <1>6, <2>2, <2>3, <2>4, <2>5, <2>6, <2>7, <2>8 DEF Moves
<1>7. CASE UNCHANGED vars
  BY <1>2, <1>7 DEF vars, Working, Saving, Recording
<1> QED BY <1>1, <1>4, <1>5, <1>6, <1>7, StepKinds

LEMMA Keeping == Spec => [](FirstFolders /\ BestKept)
<1>1. Init => FirstFolders /\ BestKept
  BY DEF Init, FirstFolders, BestKept
<1>2. Typed /\ Placed /\ (FirstFolders /\ BestKept) /\ [Next]_vars => (FirstFolders /\ BestKept)'
  BY NextFirstFolders, NextBestKept
<1> QED BY <1>1, <1>2, Typing, Placing, PTL DEF Spec

\* "Keeps the best-scoring step alongside the newest one" (README): between the
\* steps of an uninterrupted run, under every configuration, the best step's
\* folder is on disk with its shards and the record names it
\* (_maybe_save_best_checkpoint, the rotation in _save_checkpoint).
THEOREM BestIsKept == Spec => []BestOnDiskUninterrupted
<1>1. Typed /\ FirstFolders /\ BestKept => BestOnDiskUninterrupted
  <2> SUFFICES ASSUME Typed, FirstFolders, BestKept, run = 1, pc = "train", best.step # 0
               PROVE  /\ best.step \in DOMAIN disk /\ Loadable(best.step)
                      /\ record = [step |-> best.step, score |-> best.score, whole |-> TRUE]
    BY DEF BestOnDiskUninterrupted, BestOnDisk
  <2>1. Working /\ ~Saving /\ ~Recording
    BY DEF Working, Saving, Recording
  <2>2. /\ config.saveBest /\ best.step \in DOMAIN disk
        /\ record = [step |-> best.step, score |-> best.score, whole |-> TRUE]
    BY <2>1 DEF BestKept
  <2>3. \A s \in DOMAIN disk : "actor" \in DOMAIN disk[s] /\ \A f \in DOMAIN disk[s] : disk[s][f] # 0
    BY <2>1, <2>2 DEF FirstFolders, OpenNow
  <2> QED BY <2>2, <2>3 DEF Loadable
<1> QED BY <1>1, Typing, Keeping, PTL

-----------------------------------------------------------------------------
(* Retention.                                                              *)

\* Without save_best_checkpoint there is no best step.
NoBest == ~config.saveBest => best.step = 0 /\ record.step = 0

\* How many folders may be left.
Kept == config.keep + (IF config.saveBest THEN 1 ELSE 0)

Behind(d, s) == {t \in DOMAIN d : t <= s}

Retained ==
  config.keep > 0 /\ Working /\ last # 0 /\ pc # "rotate" => Cardinality(Behind(disk, last)) <= Kept

LEMMA LeastNatural ==
  ASSUME NEW T \in SUBSET Nat, T # {}
  PROVE  \E x \in T : \A y \in T : x <= y
<1>1. PICK x \in T : \A y \in T : <<y, x>> \notin OpToRel(<, Nat)
  BY NatLessThanWellFounded, WFMin
<1>2. \A y \in T : ~(y < x)
  BY <1>1 DEF OpToRel
<1> QED BY <1>2

LEMMA CountUp ==
  \A a, b, n \in Nat : a - 1 <= b /\ b < n => a <= n
OBVIOUS

\* Of any finite set of numbers, at most n have fewer than n greater ones.
LEMMA NewestFew ==
  ASSUME NEW S \in SUBSET Nat, IsFiniteSet(S), NEW n \in Nat
  PROVE  LET newest == {s \in S : Cardinality({t \in S : s < t}) < n}
         IN  IsFiniteSet(newest) /\ Cardinality(newest) <= n
<1> DEFINE newest == {s \in S : Cardinality({t \in S : s < t}) < n}
           c == Cardinality(newest)
<1>1. IsFiniteSet(newest) /\ c \in Nat /\ newest \subseteq S
  BY FS_Subset, FS_CardinalityType
<1>2. ASSUME newest = {} PROVE c <= n
  <2>1. c = 0
    BY <1>2, FS_EmptySet, Zenon
  <2> HIDE DEF c
  <2> QED BY <2>1
<1>3. ASSUME newest # {} PROVE c <= n
  <2>1. PICK m \in newest : \A y \in newest : m <= y
    <3> HIDE DEF newest, c
    <3> QED BY <1>1, <1>3, LeastNatural
  <2> DEFINE above == {t \in S : m < t}
             a == Cardinality(above)
  <2>2. newest \ {m} \subseteq above
    <3> HIDE DEF newest, c
    <3> QED BY <1>1, <2>1
  <2>3. IsFiniteSet(above) /\ a \in Nat
    BY FS_Subset, FS_CardinalityType
  <2>4. a < n
    BY <2>1, Zenon
  <2> HIDE DEF newest, above
  <2>5. Cardinality(newest \ {m}) = c - 1
    BY <1>1, <2>1, FS_RemoveElement
  <2>6. Cardinality(newest \ {m}) <= a
    BY <2>2, <2>3, FS_Subset
  <2>7. c - 1 <= a
    BY <2>5, <2>6, Zenon
  <2> HIDE DEF c, a
  <2> QED BY <1>1, <2>3, <2>4, <2>7
<1> HIDE DEF c
<1>4. c <= n
  BY <1>2, <1>3
<1> QED BY <1>1, <1>4, Zenon DEF c

LEMMA NextNoBest == NoBest /\ [Next]_vars => NoBest'
<1> SUFFICES ASSUME NoBest, [Next]_vars PROVE NoBest'
  OBVIOUS
<1>1. config' = config
  BY SameConfig
<1>2. CASE Start
  BY <1>1, <1>2 DEF NoBest, Start, Scratch, Resume, Fail, files, None
<1>3. CASE Validate
  BY <1>1, <1>3 DEF NoBest, Validate, files
<1>4. CASE OpenRecord \/ CloseRecord
  BY <1>1, <1>4 DEF NoBest, OpenRecord, CloseRecord, process
<1>5. CASE UNCHANGED <<record, best>>
  BY <1>1, <1>5 DEF NoBest
<1>6. CASE ~(Start \/ Validate \/ OpenRecord \/ CloseRecord)
  BY <1>5, <1>6 DEF Next, Train, Periodic, NextStep, SaveBegin, OpenActor, CloseActor, OpenData, CloseData,
         OpenPools, ClosePools, OpenTracker, CloseTracker, Rotate, Crash, files, process, vars
<1> QED BY <1>2, <1>3, <1>4, <1>6

\* The rotation leaves the newest folders up to this step, and the best one.
LEMMA RotationLeaves ==
  ASSUME Typed, NoBest, Rotate, config.keep > 0
  PROVE  Cardinality(Behind(disk', step)) <= Kept
<1> DEFINE S == Behind(disk, step)
           n == config.keep
           newest == {s \in S : Cardinality({t \in S : s < t}) < n}
           left == Behind(disk', step)
<1>0. n \in Nat /\ TotalSteps + MaxRuns \in Int
  BY CheckpointAssumption DEF Typed, Bounds, CheckpointAssumption, Setting
<1>1. S \in SUBSET Nat /\ IsFiniteSet(S)
  <2>1. S \subseteq 1..(TotalSteps + MaxRuns)
    BY DEF Behind, Typed, TypeOK, Step
  <2>2. IsFiniteSet(1..(TotalSteps + MaxRuns))
    BY <1>0, FS_Interval
  <2>3. IsFiniteSet(S)
    BY <2>1, <2>2, FS_Subset
  <2> QED BY <2>1, <2>3
<1>2. IsFiniteSet(newest) /\ Cardinality(newest) <= n
  <2> HIDE DEF S, n
  <2> QED BY <1>0, <1>1, NewestFew
<1>3. left \subseteq newest \cup ({best.step} \cap DOMAIN disk)
  <2> SUFFICES ASSUME NEW s \in left PROVE s \in newest \cup ({best.step} \cap DOMAIN disk)
    OBVIOUS
  <2>1. s \in DOMAIN disk /\ s <= step /\ (s \in Stale => s = best.step)
    BY DEF Rotate, Behind, Without
  <2>2. ASSUME s \notin Stale PROVE s \in newest
    <3>1. {t \in DOMAIN disk : s < t /\ t <= step} = {t \in S : s < t}
      BY DEF Behind
    <3> DEFINE few == Cardinality({t \in S : s < t})
    <3>2. ~(few >= n)
      BY <2>1, <2>2, <3>1, Zenon DEF Stale
    <3>3. s \in S
      BY <2>1 DEF Behind
    <3>4. IsFiniteSet({t \in S : s < t})
      BY <1>1, FS_Subset
    <3>5. few \in Nat
      BY <3>4, FS_CardinalityType
    <3>6. few < n
      <4> HIDE DEF few, n
      <4> QED BY <1>0, <3>2, <3>5
    <3> QED BY <3>3, <3>6, Zenon
  <2> QED BY <2>1, <2>2
<1> HIDE DEF S, newest, n
<1>4. Cardinality(newest) \in Nat
  BY <1>2, FS_CardinalityType
<1>5. CASE config.saveBest
  <2>1. left \subseteq newest \cup {best.step}
    BY <1>3
  <2>2. IsFiniteSet(newest \cup {best.step}) /\ Cardinality(newest \cup {best.step}) <= Cardinality(newest) + 1
    BY <1>2, <1>4, FS_AddElement
  <2>3. Cardinality(left) <= Cardinality(newest \cup {best.step})
    BY <2>1, <2>2, FS_Subset
  <2>4. Cardinality(left) \in Nat /\ Cardinality(newest \cup {best.step}) \in Nat
    BY <2>1, <2>2, FS_Subset, FS_CardinalityType
  <2>5. Cardinality(left) <= n + 1
    <3> DEFINE l == Cardinality(left)
               a == Cardinality(newest)
               b == Cardinality(newest \cup {best.step})
    <3>1. l \in Nat /\ a \in Nat /\ b \in Nat /\ n \in Nat /\ l <= b /\ b <= a + 1 /\ a <= n
      BY <1>0, <1>2, <1>4, <2>2, <2>3, <2>4, Zenon
    <3>2. l <= n + 1
      <4> HIDE DEF l, a, b
      <4> QED BY <3>1
    <3> QED BY <3>2
  <2> QED BY <1>5, <2>5 DEF Kept, n
<1>6. CASE ~config.saveBest
  <2>1. best.step \notin DOMAIN disk
    BY <1>6 DEF NoBest, Typed, TypeOK, Step
  <2>2. left \subseteq newest
    BY <1>3, <2>1
  <2>3. Cardinality(left) <= Cardinality(newest) /\ Cardinality(left) \in Nat
    BY <1>2, <2>2, FS_Subset, FS_CardinalityType
  <2>4. Cardinality(left) <= n
    <3> DEFINE l == Cardinality(left)
               a == Cardinality(newest)
    <3>1. l \in Nat /\ a \in Nat /\ n \in Nat /\ l <= a /\ a <= n
      BY <1>0, <1>2, <1>4, <2>3, Zenon
    <3>2. l <= n
      <4> HIDE DEF l, a
      <4> QED BY <3>1
    <3> QED BY <3>2
  <2> QED BY <1>0, <1>6, <2>4 DEF Kept, n
<1> QED BY <1>5, <1>6
LEMMA NextRetained ==
  ASSUME Typed, Placed, NoBest, Retained, [Next]_vars
  PROVE  Retained'
<1>1. config' = config /\ Kept' = Kept
  BY SameConfig DEF Kept
<1>2. step \in Nat /\ last \in Nat /\ DOMAIN disk \subseteq Nat
  BY DEF Typed, TypeOK, Step
<1>3. ASSUME Working, pc # "rotate", last' = last, Behind(disk', last) = Behind(disk, last) PROVE Retained'
  BY <1>1, <1>3 DEF Retained
<1>4. CASE Writes
  <2>1. Working /\ Writing /\ step' = step /\ DOMAIN disk' = DOMAIN disk \cup {step}
    BY <1>4, Folders
  <2>2. last <= step /\ last # step
    BY <2>1 DEF Placed
  <2>3. Behind(disk', last) = Behind(disk, last)
    BY <1>2, <2>1, <2>2 DEF Behind
  <2>4. last' = last
    BY <1>4 DEF Writes, OpenActor, CloseActor, OpenData, CloseData, OpenPools, ClosePools, process
  <2> QED BY <1>3, <2>1, <2>3, <2>4 DEF Writing
<1>5. CASE SaveBegin
  <2>1. Behind(disk', last) = Behind(disk, last)
    BY <1>5, Folders DEF Behind
  <2> QED BY <1>3, <1>5, <2>1 DEF SaveBegin, Working
<1>6. CASE Rotate
  <2>1. last' = step
    BY <1>6 DEF Rotate, process, Placed, Working
  <2>2. config.keep > 0 => Cardinality(Behind(disk', step)) <= Kept
    BY <1>6, RotationLeaves
  <2> QED BY <1>1, <2>1, <2>2, Zenon DEF Retained
<1>7. CASE Start
  BY <1>7 DEF Start, Scratch, Resume, Fail, Goto, Retained, Working
<1>8. CASE Moves
  <2>1. disk' = disk
    BY <1>8, Folders
  <2>2. CASE Crash
    BY <2>2 DEF Crash, Goto, Retained, Working
  <2>3. CASE CloseTracker
    BY <2>3 DEF CloseTracker, Goto, Retained
  <2>4. (Working /\ pc # "rotate" /\ last' = last) \/ Crash \/ CloseTracker
    BY <1>8 DEF Moves, Train, Validate, Periodic, NextStep, OpenTracker, OpenPools, OpenRecord,
           CloseRecord, process, Working
  <2> QED BY <1>3, <2>1, <2>2, <2>3, <2>4
<1>9. CASE UNCHANGED vars
  BY <1>1, <1>9 DEF vars, Retained, Working
<1> QED BY <1>4, <1>5, <1>6, <1>7, <1>8, <1>9, StepKinds

\* Retention (the rotation in _save_checkpoint, max_actor_ckpt_to_keep): from
\* its first save on, a process between two steps has left no more folders
\* behind it than the newest Keep and the best one, whatever earlier processes
\* had written and wherever they had stopped.
THEOREM Retention == Spec => []RetentionHolds
<1>1. Init => NoBest /\ Retained
  BY DEF Init, NoBest, Retained, Working, None
<1>2. Typed /\ Placed /\ (NoBest /\ Retained) /\ [Next]_vars => (NoBest /\ Retained)'
  BY NextNoBest, NextRetained
<1>3. Retained => RetentionHolds
  BY DEF Retained, RetentionHolds, Working, Behind, Kept
<1> QED BY <1>1, <1>2, <1>3, Typing, Placing, PTL DEF Spec
=============================================================================
