---------------------------- MODULE FlatTraining ----------------------------
(***************************************************************************)
(* The flat pools under the trainer and the worker that share them: the    *)
(* one-stage branches of RayPPOTrainer.fit in verl/trainer/ppo/            *)
(* ray_trainer.py without the chain and forest pools, the worker's tasks   *)
(* of teacher_worker.py on failed trajectories, and the checkpoints.       *)
(* Three modes share the code:                                             *)
(*   regular  branch points of failed responses wait in the buffer;        *)
(*   teacher  failed trajectories go to the worker, annotated ones come    *)
(*            back as a branch batch when there are enough;                *)
(*   inject   failures of hopeless groups go to the worker, what comes     *)
(*            back is a longer prompt, rolled out beside the batch.        *)
(*                                                                         *)
(* A step of the trainer is one call of a pool method; between two of them *)
(* the worker's thread may act.  The pools are written to a folder one     *)
(* after the other, and a pool that is empty is not written.  That a file  *)
(* can be torn is the subject of Checkpointing.                            *)
(***************************************************************************)
EXTENDS FlatPools, BranchPoints

CONSTANTS
  Prompt,          \* prompts of the dataset; each batch has them all
  Response,        \* failed responses, regular mode
  Settings,        \* settings a run may be started with
  RolloutN,        \* rollout.n
  PrefixRolloutN,  \* prefix_inject_mode.rollout_n
  BatchThreshold,  \* branch_batch_threshold
  SampleSize,      \* sample_size_per_step
  InjectSlots,     \* int(injection_ratio * batch size)
  MaxPerPrompt,    \* max_per_prompt
  NBranchPoints,   \* n_branch_points
  MinRemaining,    \* min_remaining_tokens
  MaxAge,          \* max_age of the failed pool and of the buffer
  MaxConcurrent,   \* max_concurrent_annotations
  FloorHard,       \* w_floor_hard
  FloorMastered,   \* w_floor_mastered
  Priors,          \* informed priors <<match, match + suffix>> of an annotation
  MaxDepth,        \* bound: annotations on top of each other
  MaxRuns          \* bound: processes

\* The mode, sampling_strategy, segment_method, total_training_steps,
\* save_freq (0 for none), test_freq if the best checkpoint is kept (otherwise
\* 0), whether the server's plan may come close to its expiration, max_size of
\* the lists, and as a bound the failed trajectories of each step's batch.
SettingType ==
  [mode : {"regular", "teacher", "inject"}, strategy : {"uniform", "stratified"},
   segments : {"sp", "tp", "fp"}, totalSteps : Nat \ {0}, saveFreq : Nat,
   bestFreq : Nat, expires : BOOLEAN,
   maxSize : Nat \ {0}, failures : Seq(Nat)]

ASSUME FlatAssumption ==
  /\ Settings \subseteq SettingType
  /\ \A c \in Settings : Len(c.failures) = c.totalSteps
  /\ RolloutN \in Nat \ {0, 1} /\ PrefixRolloutN \in Nat \ {0, 1}
  /\ BatchThreshold \in Nat \ {0}
  /\ \A c, d \in Settings : c.mode = d.mode => c.maxSize = d.maxSize
  /\ MinRemaining \in 1..MaxModelLen
  /\ \A r \in Response : r \in Seq(Range(r))
  /\ IsFiniteSet(Prompt)
  /\ MaxAge \in Nat /\ MaxConcurrent \in Nat /\ MaxDepth \in Nat /\ MaxRuns \in Nat \ {0}
  /\ {SampleSize, InjectSlots, MaxPerPrompt, NBranchPoints, FloorHard, FloorMastered} \subseteq Nat
  /\ Priors \subseteq Nat \X (Nat \ {0})

VARIABLES
  setting,    \* the configuration of this process
  runs,       \* processes so far
  step,       \* global_steps
  pc,         \* the next pool call of fit()
  quota,      \* entries to ask for
  drawn,      \* sampled_entries
  injected,   \* positions of the synthetic entries rolled out in this step
  groups,     \* the rollout groups of this step
  fresh,      \* failed trajectories, or their branch points, of this step
  failed,     \* FailedTrajectoryPool, its lists
  deques,     \* FailedTrajectoryPool, its deques in priority mode
  annotated,  \* TeacherAnnotatedPool
  synthetic,  \* SyntheticPromptPool
  buffer,     \* BranchPointBuffer
  tasks,      \* entries the worker is annotating
  disk,       \* step |-> the files of its folder
  tracked,    \* the step in the tracker, with history: see Track
  trained,    \* history: annotated entries trained on
  still       \* history: since the first pool was written, nothing went over
              \* to the second, and no file was left as it was

poolVars == <<failed, deques, annotated, synthetic, buffer>>
stepVars == <<quota, drawn, injected, groups, fresh>>
diskVars == <<disk, tracked>>
historyVars == <<trained, still>>
flatVars == <<setting, runs, step, pc, stepVars, poolVars, tasks, diskVars, historyVars>>

-----------------------------------------------------------------------------
Goto(place) == pc' = place
Mode(m) == setting.mode = m
Files == {"buffer", "failed", "annotated", "synthetic"}
NoFile == [entries |-> << >>]
NoFiles == [f \in Files |-> NoFile]
IsLastStep == step >= setting.totalSteps

Fresh ==
  /\ step = 1 /\ pc = "plan"
  /\ quota = 0 /\ drawn = << >> /\ injected = {} /\ groups = {} /\ fresh = << >>
  /\ failed = EmptyList /\ deques = << >> /\ annotated = << >> /\ synthetic = << >>
  /\ buffer = EmptyList /\ tasks = {}
  /\ trained = {} /\ still = TRUE

Init ==
  /\ setting \in Settings /\ runs = 1
  /\ Fresh
  /\ disk = << >>
  /\ tracked = [step |-> 0, trained |-> {}, whole |-> TRUE]

-----------------------------------------------------------------------------
(* A training step.                                                        *)

\* target_synth, or has_enough; the buffer is asked for what it has.
Quota ==
  CASE Mode("teacher") -> IF Len(annotated) >= BatchThreshold THEN BatchThreshold ELSE 0
    [] Mode("inject") -> AtMost(InjectSlots, Len(synthetic))
    [] Mode("regular") -> SampleSize

Plan ==
  /\ pc = "plan" /\ Goto("draw")
  /\ quota' = Quota
  /\ UNCHANGED <<setting, runs, step, drawn, injected, groups, fresh, poolVars, tasks, diskVars, historyVars>>

\* TeacherAnnotatedPool.sample removes what it returns.
DrawAnnotated ==
  /\ Mode("teacher")
  /\ \E I \in BatchDraws(annotated, quota, setting.strategy) :
       drawn' = At(annotated, I) /\ annotated' = Except(annotated, I)
  /\ UNCHANGED <<injected, failed, deques, synthetic, buffer>>

\* BranchPointBuffer.sample does not.
DrawBranchPoints ==
  /\ Mode("regular")
  /\ \E I \in BatchDraws(buffer.entries, quota, setting.strategy) : drawn' = At(buffer.entries, I)
  /\ UNCHANGED <<injected, poolVars>>

Weights == [n \in DOMAIN synthetic |-> EntryWeight(synthetic[n], FloorHard, FloorMastered)]

\* Nor does SyntheticPromptPool.sample; each entry gets a tree id of its own.
DrawSynthetic ==
  /\ Mode("inject")
  /\ injected' \in SyntheticDraws(synthetic, Weights, MaxPerPrompt, quota)
  /\ UNCHANGED <<drawn, poolVars>>

DrawBatch ==
  /\ pc = "draw" /\ Goto("rollout")
  /\ DrawAnnotated \/ DrawBranchPoints \/ DrawSynthetic
  /\ UNCHANGED <<setting, runs, step, quota, groups, fresh, tasks, diskVars, historyVars>>

\* _run_train_one_stage rolls out each prompt of the batch.
MainGroup(p, failures) ==
  [prompt |-> <<p, 0>>, entry |-> 0, rows |-> PrefixRolloutN, failures |-> failures]

\* _run_synthetic_entry rolls out an injected one.
SyntheticGroup(n, failures) ==
  [prompt |-> synthetic[n].prompt, entry |-> n, rows |-> RolloutN, failures |-> failures]

\* What the rollouts of a step may come to.
Outcomes ==
  {{MainGroup(p, main[p]) : p \in Prompt} \cup {SyntheticGroup(n, synth[n]) : n \in injected}
   : main \in [Prompt -> 0..PrefixRolloutN], synth \in [injected -> 0..RolloutN]}

Tree(g) == <<runs, step, g.entry, g.prompt>>

\* FailedTrajectoryEntry; hopeless is history: nothing in its group succeeded.
FailedTrajectories(g) ==
  [n \in 1..g.failures |->
     [tree |-> Tree(g), nr |-> n, prompt |-> g.prompt, born |-> step,
      hopeless |-> g.failures = g.rows]]

Entries(gs) == {g.entry : g \in gs} \ {0}
ByEntry(gs) == [n \in Entries(gs) |-> CHOOSE g \in gs : g.entry = n]

\* The batch comes first, then the injected prompts in their order.
AllFailed(gs) ==
  LET order == SetToSeq({g \in gs : g.entry = 0}) \o At(ByEntry(gs), Entries(gs))
  IN FlattenSeq([n \in DOMAIN order |-> FailedTrajectories(order[n])])

\* A selected node of a trajectory's response as BranchPointEntry.
PointOf(ft, r, node) ==
  LET point == BranchPoint(setting.segments, r, node)
  IN [tree |-> ft.tree, nr |-> ft.nr, born |-> ft.born, index |-> point.index,
      chain |-> point.chain, length |-> point.length, rest |-> point.rest]

\* The branch points that trajectory ft brings: its response is anything.
PointsOf(ft) ==
  UNION {{LET nodes == SetToSeq(sel) IN [n \in DOMAIN nodes |-> PointOf(ft, r, nodes[n])]
          : sel \in Selections(setting.segments, r, NBranchPoints)} : r \in Response}

\* Those of several trajectories, one after the other.
NewPoints(fts) ==
  {FlattenSeq(points) : points \in
     {f \in [DOMAIN fts -> UNION {PointsOf(fts[n]) : n \in DOMAIN fts}] :
        \A n \in DOMAIN fts : f[n] \in PointsOf(fts[n])}}

\* ts_generate_one_stage: main chains, branches and injected prompts.
Rollout ==
  /\ pc = "rollout" /\ Goto("feed")
  /\ groups' \in {gs \in Outcomes : Len(AllFailed(gs)) <= setting.failures[step]}
  /\ fresh' \in IF Mode("regular") THEN NewPoints(AllFailed(groups')) ELSE {AllFailed(groups')}
  /\ trained' = IF Mode("teacher") THEN trained \cup Range(drawn) ELSE trained
  /\ UNCHANGED <<setting, runs, step, quota, drawn, injected, poolVars, tasks, diskVars, still>>

\* group_stats: no rollout of its tree succeeded.
GatedToTeacher ==
  {n \in DOMAIN fresh : \E g \in groups : Tree(g) = fresh[n].tree /\ g.rows - g.failures = 0}

\* Branch points with room behind them.
WithRoom == At(fresh, {n \in DOMAIN fresh : MaxModelLen - fresh[n].length >= MinRemaining})

FeedDeques ==
  LET gated == At(fresh, GatedToTeacher)
  IN /\ Mode("inject")
     /\ deques' = IF gated # << >> THEN AddToDeques(deques, gated, step) ELSE deques
     /\ UNCHANGED <<failed, buffer>>

FeedList ==
  /\ Mode("teacher")
  /\ failed' = IF fresh # << >> THEN AddToList(failed, fresh, step, MaxAge, setting.maxSize) ELSE failed
  /\ UNCHANGED <<deques, buffer>>

\* Mutant: as in the other modes, only if there is something to add.
BufferIfAny(list, new, now) ==
  IF new # << >> THEN AddToList(list, new, now, MaxAge, setting.maxSize) ELSE list

\* BranchPointBuffer.add
BufferWith(list, new, now) == AddToList(list, new, now, MaxAge, setting.maxSize)

\* Also without anything new, so that the buffer ages.
FeedBuffer ==
  /\ Mode("regular")
  /\ buffer' = BufferWith(buffer, WithRoom, step)
  /\ UNCHANGED <<failed, deques>>

Feed ==
  /\ pc = "feed" /\ Goto("usage")
  /\ FeedDeques \/ FeedList \/ FeedBuffer
  /\ UNCHANGED <<setting, runs, step, stepVars, annotated, synthetic, tasks, diskVars, historyVars>>

GroupOf(n) == CHOOSE g \in groups : g.entry = n

\* record_usage overwrites.
Recorded(e, g) == [e EXCEPT !.succ = g.rows - g.failures, !.total = g.rows]

\* _record_synthetic_usage.
Usage ==
  /\ pc = "usage" /\ Goto("save")
  /\ synthetic' = [n \in DOMAIN synthetic |->
                     IF n \in injected THEN Recorded(synthetic[n], GroupOf(n)) ELSE synthetic[n]]
  /\ quota' = 0 /\ drawn' = << >> /\ injected' = {} /\ groups' = {} /\ fresh' = << >>
  /\ UNCHANGED <<setting, runs, step, failed, deques, annotated, buffer, tasks, diskVars, trained, still>>

-----------------------------------------------------------------------------
(* Checkpoints of the pools.                                               *)

Due(freq) == freq > 0 /\ (IsLastStep \/ step % freq = 0)

\* The periodic save, the one before the plan expires, and the one of a new
\* best score.  The last comes first, and the step is not saved again; no
\* call of the trainer to a pool lies between the two places.
IsSaved(expiring, better) ==
  \/ Due(setting.saveFreq)
  \/ setting.saveFreq > 0 /\ setting.expires /\ expiring
  \/ Due(setting.bestFreq) /\ better

\* The folder is there before the pools are written.
Save ==
  /\ pc = "save"
  /\ \E expiring, better \in BOOLEAN :
       IF IsSaved(expiring, better)
       THEN /\ Goto("first")
            /\ disk' = [s \in DOMAIN disk \cup {step} |-> IF s \in DOMAIN disk THEN disk[s] ELSE NoFiles]
       ELSE Goto("next") /\ UNCHANGED disk
  /\ UNCHANGED <<setting, runs, step, stepVars, poolVars, tasks, tracked, historyVars>>

\* What the state_dict methods return.
Contents(f) ==
  CASE f = "buffer" -> buffer
    [] f = "failed" -> [priority |-> Mode("inject"), list |-> failed, flat |-> Flattened(deques)]
    [] f = "annotated" -> [entries |-> annotated]
    [] f = "synthetic" -> [entries |-> synthetic]

\* The pools that this mode writes, unless they are empty.
IsWritten(f) ==
  CASE f = "buffer" -> buffer.entries # << >>
    [] f = "failed" -> failed.entries # << >> \/ deques # << >>
    [] f = "annotated" -> Mode("teacher") /\ annotated # << >>
    [] f = "synthetic" -> Mode("inject") /\ synthetic # << >>

Dump(files) ==
  /\ disk' = [disk EXCEPT ![step] = [f \in DOMAIN @ |->
                IF f \in files /\ IsWritten(f) THEN Contents(f) ELSE @[f]]]
  /\ still' = (/\ pc = "first" \/ still
               /\ \A f \in files : IsWritten(f) \/ disk[step][f] = NoFile)
  /\ UNCHANGED <<setting, runs, step, stepVars, poolVars, tasks, tracked, trained>>

\* The pools one after the other.  A file that is there already is rewritten
\* or stays.
DumpFirst == pc = "first" /\ Goto("second") /\ Dump({"buffer", "failed"})
DumpSecond == pc = "second" /\ Goto("track") /\ Dump({"annotated", "synthetic"})

\* latest_checkpointed_iteration.txt; with it, what had been
\* trained, and whether the pools on disk are those of one moment.
Track ==
  /\ pc = "track" /\ Goto("next")
  /\ tracked' = [step |-> step, trained |-> trained,
                 whole |-> still /\ tracked.whole]
  /\ UNCHANGED <<setting, runs, step, stepVars, poolVars, tasks, disk, historyVars>>

NextStep ==
  /\ pc = "next"
  /\ IF IsLastStep THEN Goto("done") /\ UNCHANGED step ELSE Goto("plan") /\ step' = step + 1
  /\ UNCHANGED <<setting, runs, stepVars, poolVars, tasks, diskVars, historyVars>>

\* Mutant: the entries of the other mode are taken over.
DequesOfAnyMode(file) == AddToDeques(Grouped(file.flat), file.list.entries, 1)

\* load_state_dict of the failed pool: a file of the other mode is dropped.
LoadedList(file) == IF file.priority THEN EmptyList ELSE file.list
LoadedDeques(file) == IF file.priority THEN Grouped(file.flat) ELSE << >>

Loaded(files) ==
  /\ buffer' = IF files.buffer = NoFile THEN EmptyList ELSE files.buffer
  /\ failed' = IF files.failed # NoFile /\ setting'.mode = "teacher" THEN LoadedList(files.failed) ELSE EmptyList
  /\ deques' = IF files.failed # NoFile /\ setting'.mode = "inject" THEN LoadedDeques(files.failed) ELSE << >>
  /\ annotated' = IF files.annotated # NoFile /\ setting'.mode = "teacher" THEN files.annotated.entries ELSE << >>
  /\ synthetic' = IF files.synthetic # NoFile /\ setting'.mode = "inject" THEN files.synthetic.entries ELSE << >>

\* The process dies anywhere, with its pools and its tasks; the next one may
\* be started in another mode.  It loads what the tracker names; without a
\* checkpoint it begins as Init does.  Bound: steps are left (the code trains
\* one more after the last).
Restart ==
  /\ runs < MaxRuns /\ runs' = runs + 1 /\ pc # "done" /\ tracked.step > 0
  /\ setting' \in {c \in Settings : c.totalSteps > tracked.step}
  /\ Loaded(disk[tracked.step])
  /\ step' = tracked.step + 1 /\ Goto("plan")
  /\ quota' = 0 /\ drawn' = << >> /\ injected' = {} /\ groups' = {} /\ fresh' = << >>
  /\ tasks' = {} /\ still' = TRUE
  /\ trained' = tracked.trained
  /\ UNCHANGED diskVars

-----------------------------------------------------------------------------
(* The worker.                                                             *)

\* sample_and_remove(1) in legacy mode: any entry.
FetchFromList(e) ==
  /\ Mode("teacher")
  /\ \E n \in DOMAIN failed.entries : e = failed.entries[n] /\ failed' = RemoveFromList(failed, {n})
  /\ UNCHANGED deques

\* In priority mode: the newest of a freshest prompt.
FetchFromDeques(e) ==
  /\ Mode("inject")
  /\ \E k \in Freshest(deques) : e = TakenFrom(deques, k) /\ deques' = LeftBy(deques, k)
  /\ UNCHANGED failed

Waiting ==
  Range(failed.entries) \cup UNION {{deques[k][n][2] : n \in DOMAIN deques[k]} : k \in DOMAIN deques}

Fetch ==
  /\ Cardinality(tasks) < MaxConcurrent
  /\ \E e \in Waiting : (FetchFromList(e) \/ FetchFromDeques(e)) /\ tasks' = tasks \cup {e}
  /\ UNCHANGED <<annotated, synthetic, still>>

\* Mutant: a full pool starts again.
AnnotatedAfresh(s, e) == IF Len(s) < setting.maxSize THEN Append(s, e) ELSE <<e>>

\* TeacherAnnotatedPool.add
AnnotatedWith(s, e) == Newest(setting.maxSize, Append(s, e))

\* The SyntheticPromptEntry of an annotation: the prompt is longer by what the
\* teacher agreed with, and the prior is its share of the solution.
Augmented(e, depth, prior) ==
  [prompt |-> <<e.prompt[1], depth>>, prior |-> prior, succ |-> 0, total |-> 0, hopeless |-> e.hopeless]

\* _run_one_legacy ends with an annotation.
Deliver(e) ==
  /\ IF Mode("teacher")
     THEN annotated' = AnnotatedWith(annotated, e) /\ UNCHANGED synthetic
     ELSE /\ \E depth \in (e.prompt[2] + 1)..MaxDepth, prior \in Priors :
               synthetic' = Append(synthetic, Augmented(e, depth, prior))
          /\ UNCHANGED annotated
  /\ still' = (still /\ pc # "second")

\* Or without one: the entry is gone.
GiveUp(e) == UNCHANGED <<annotated, synthetic, still>>

Annotate ==
  /\ \E e \in tasks : (Deliver(e) \/ GiveUp(e)) /\ tasks' = tasks \ {e}
  /\ UNCHANGED <<failed, deques>>

TrainerStep ==
  \/ Plan \/ DrawBatch \/ Rollout \/ Feed \/ Usage
  \/ Save \/ DumpFirst \/ DumpSecond \/ Track \/ NextStep

WorkerStep ==
  /\ pc # "done"
  /\ Fetch \/ Annotate
  /\ UNCHANGED <<setting, runs, step, pc, stepVars, buffer, diskVars, trained>>

Done == pc = "done" /\ UNCHANGED flatVars

Next == TrainerStep \/ WorkerStep \/ Restart \/ Done

Spec == Init /\ [][Next]_flatVars

-----------------------------------------------------------------------------
(* Properties.                                                             *)

IsEntry(e) == e.born \in 1..step /\ e.tree[1] \in 1..runs /\ e.tree[2] = e.born

IsSynthetic(e) ==
  /\ e.prompt[1] \in Prompt /\ e.prompt[2] \in 1..MaxDepth
  /\ e.prior \in Priors /\ e.total \in Nat /\ e.succ \in 0..e.total

IsListOf(list) ==
  Len(list.entries) = Len(list.steps) /\ \A e \in Range(list.entries) : IsEntry(e)

\* Every variable has its type; the lists are as long as their steps and stay
\* within their size, a mode leaves the pools of the others alone, and no
\* deque is empty, which the lap of _sample_priority relies on.
TypeOK ==
  /\ setting \in Settings /\ runs \in 1..MaxRuns /\ step \in 1..setting.totalSteps
  /\ pc \in {"plan", "draw", "rollout", "feed", "usage", "save", "first", "second", "track", "next", "done"}
  /\ IsListOf(failed) /\ IsListOf(buffer)
  /\ Mode("regular") => Len(buffer.entries) <= setting.maxSize
  /\ Mode("teacher") => Len(failed.entries) <= setting.maxSize /\ Len(annotated) <= setting.maxSize
  /\ ~Mode("teacher") => failed = EmptyList /\ annotated = << >>
  /\ ~Mode("inject") => deques = << >> /\ synthetic = << >>
  /\ Mode("regular") => tasks = {}
  /\ \A k \in DOMAIN deques : deques[k] # << >>
  /\ \A e \in Waiting \cup tasks : IsEntry(e)
  /\ \A e \in Range(synthetic) : IsSynthetic(e)
  /\ injected \subseteq DOMAIN synthetic /\ Cardinality(tasks) <= MaxConcurrent
  /\ tracked.step \in {0} \cup DOMAIN disk

\* Each entry of a list or a deque carries the step it was added at, through
\* every eviction, removal and restart: what is evicted by age is old.
StepsPaired ==
  /\ \A list \in {failed, buffer} : \A n \in DOMAIN list.entries : list.steps[n] = list.entries[n].born
  /\ \A k \in DOMAIN deques : \A n \in DOMAIN deques[k] : deques[k][n][1] = deques[k][n][2].born

\* What an add evicts is too old, or the list is full; and nothing older
\* stays.
Evicts(list, new, left) ==
  \A e \in (Range(list.entries) \cup Range(new)) \ Range(left.entries) :
    /\ step - e.born > MaxAge \/ Len(left.entries) = setting.maxSize
    /\ \A f \in Range(left.entries) : e.born <= f.born
EvictsOldest ==
  [][Feed =>
       IF Mode("regular") THEN Evicts(buffer, WithRoom, buffer')
       ELSE Mode("teacher") => Evicts(failed, fresh, failed')]_flatVars

\* What the trainer counted is there when it draws, although the worker adds
\* and evicts in between: a branch batch is full or there is none.
FullBranchBatches ==
  Mode("teacher") /\ pc = "rollout" => Len(drawn) \in {0, BatchThreshold}

\* A failed trajectory is in one place: waiting, at the worker, annotated, or
\* in a batch that was trained.  So it is after a restart, if the pools in
\* the checkpoint are those of one moment.
InOnePlace ==
  Mode("teacher") /\ tracked.whole =>
    /\ IsInjective(failed.entries) /\ IsInjective(annotated)
    /\ LET places == <<Range(failed.entries), tasks, Range(annotated), trained \cup Range(drawn)>>
       IN \A i, j \in DOMAIN places : i # j => places[i] \cap places[j] = {}

\* The teacher is asked only for groups in which nothing succeeded, in
\* whatever mode the checkpoint was written; _run_one_legacy computes its
\* prior from this.
OnlyHopelessReachTeacher ==
  Mode("inject") => \A e \in Waiting \cup tasks \cup Range(synthetic) : e.hopeless

\* A stratified draw takes from each tree as much as from any other, up to
\* one, unless the tree has no more.
TakenOf(t) == Cardinality(OfTree(drawn', t))
Had(t) == Cardinality(OfTree(IF Mode("teacher") THEN annotated ELSE buffer.entries, t))
StratifiedIsFair ==
  [][DrawBatch /\ setting.strategy = "stratified" =>
       \A t, u \in Trees(drawn') \cup Trees(annotated) \cup Trees(buffer.entries) :
         TakenOf(u) > TakenOf(t) + 1 => TakenOf(t) = Had(t)]_flatVars

\* A branch point is used for MaxAge + 1 steps after its own at most: the
\* buffer ages in every step, also when nothing fails.  In another mode it
\* does not age, but is loaded and written all the same, so the first step of
\* a third (or later) process may draw from one that a second has carried along.
SampledAge ==
  Mode("regular") /\ pc = "rollout" /\ (runs <= 2 \/ step > tracked.step + 1) =>
    \A n \in DOMAIN drawn : step - drawn[n].born \in 1..(MaxAge + 1)

\* The pools are well formed, and what they say of an entry's age is true, so
\* that nothing of an old policy is drawn, but for the step SampledAge excepts.
AgesAreTrue == TypeOK /\ StepsPaired /\ SampledAge

\* Rollouts from a branch point have something to do differently, room to do
\* it, and a position that the utility model accepts.
BranchPointsExpandable ==
  Mode("regular") => \A e \in Range(buffer.entries) \cup Range(drawn) :
    /\ e.rest > 0 \/ e.index = 0
    /\ e.length + MinRemaining <= MaxModelLen
    /\ e.index + 1 \in 1..e.chain

\* A prompt that is mastered steps back: an entry whose last group succeeded
\* throughout is rolled out again only if its prompt has too few others to
\* fill its share of the batch.  Its rollouts may have been steps ago, and
\* the worker goes on adding entries of equal prompts.
Mastered(n) == synthetic[n].total > 0 /\ synthetic[n].succ = synthetic[n].total
MasteredStepBack ==
  [][pc = "draw" /\ DrawSynthetic =>
       \A n \in injected' :
         LET same == OfPrompt(synthetic, synthetic[n].prompt)
         IN /\ Cardinality(injected' \cap same) <= MaxPerPrompt
            /\ Mastered(n) => Cardinality({m \in same : ~Mastered(m)}) < MaxPerPrompt]_flatVars

\* Nothing weighs as little as a mastered entry: what the priors and floors
\* have to be for that.
MasteredWeighsLeast ==
  /\ FloorMastered < FloorHard
  /\ \A q \in Priors : FloorMastered < Variance(q[1], q[2])
  /\ \A k \in 1..(RolloutN - 1) : FloorMastered < Variance(k, RolloutN)

\* No draw starves: neither a tree behind one with more entries, nor a prompt
\* that still fails behind one that is mastered.
DrawsAreFair == StratifiedIsFair /\ MasteredStepBack

\* In inject mode each prompt of the batch is rolled out rollout.n times and
\* each injected one prefix_inject_mode.rollout_n times.
GroupsHaveTheirSize ==
  Mode("inject") => \A g \in groups : g.rows = IF g.entry = 0 THEN RolloutN ELSE PrefixRolloutN
=============================================================================
