------------------------ MODULE TeacherWorker_proofs ------------------------
(***************************************************************************)
(* Proofs of the safety properties of TeacherWorker for every set of work, *)
(* every number of permits and every number of stop requests.              *)
(***************************************************************************)
EXTENDS TeacherWorker, FiniteSetTheorems, TLAPS

\* What the accounting of permits rests on beside the properties themselves:
\* a dead thread has no tasks, and a sleeping loop holds no permit.
RestsClean ==
  /\ phase = "off" => running = {}
  /\ phase = "idle" => acquire = "none"

Held == IF acquire = "held" THEN 1 ELSE 0

\* The inductive invariant.
Inv == TypeOK /\ OnePlace /\ RestsClean /\ PermitsConserved

-----------------------------------------------------------------------------
\* Counting the tasks when one begins or ends (_async_main).
LEMMA TasksFinite ==
  ASSUME TypeOK
  PROVE  IsFiniteSet(running) /\ Cardinality(running) \in Nat
<1>1. IsFiniteSet(running)
  BY FS_Subset, WorkerAssumption DEF TypeOK, WorkerAssumption
<1> QED
  BY <1>1, FS_CardinalityType

LEMMA TaskBegins ==
  ASSUME TypeOK, NEW w, w \notin running
  PROVE  Cardinality(running \cup {w}) = Cardinality(running) + 1
BY TasksFinite, FS_AddElement

LEMMA TaskEnds ==
  ASSUME TypeOK, NEW w \in running
  PROVE  Cardinality(running \ {w}) = Cardinality(running) - 1
BY TasksFinite, FS_RemoveElement

LEMMA NoTasks ==
  ASSUME TypeOK
  PROVE  Cardinality(running) = 0 <=> running = {}
BY TasksFinite, FS_EmptySet

-----------------------------------------------------------------------------
\* The pieces of work _fetch_next_work moves: what it fetches leaves the pool
\* and the cache, and nothing else does.
LEMMA FetchMoves ==
  ASSUME TypeOK, OnePlace, NEW w, NEW rest, NEW left, Fetch(w, rest, left)
  PROVE  /\ w \in pool \cup cache
         /\ rest \cup left = (pool \cup cache) \ {w}
         /\ rest \cap left = {}
BY DEF Fetch, OnePlace

LEMMA InitInv == Init => Inv
<1> SUFFICES ASSUME Init PROVE Inv
  OBVIOUS
<1>1. 0 \in 0..MaxConcurrent /\ 0 \in 0..MaxStops
  BY WorkerAssumption DEF WorkerAssumption
<1>2. TypeOK
  BY <1>1 DEF Init, TypeOK
<1>3. OnePlace
  BY DEF Init, OnePlace
<1>4. RestsClean /\ PermitsConserved
  BY DEF Init, RestsClean, PermitsConserved
<1> QED BY <1>2, <1>3, <1>4 DEF Inv

-----------------------------------------------------------------------------
(* One lemma for each action that moves work or permits.                   *)

LEMMA DispatchInv ==
  ASSUME Inv, NEW w \in Work, Dispatch(w)
  PROVE  Inv'
<1>1. PICK rest \in SUBSET (pool \cup cache) : \E left \in SUBSET (pool \cup cache) :
        Fetch(w, rest, left) /\ cache' = rest /\ pool' = left
  BY DEF Dispatch
<1>2. PICK left \in SUBSET (pool \cup cache) :
        Fetch(w, rest, left) /\ cache' = rest /\ pool' = left
  BY <1>1
<1>3. /\ w \in pool \cup cache
      /\ pool' \cup cache' = (pool \cup cache) \ {w}
      /\ pool' \cap cache' = {}
  BY <1>2, FetchMoves DEF Inv
<1>4. OnePlace'
  BY <1>3 DEF Inv, OnePlace, Dispatch
<1>5. phase = "acquiring" /\ phase' = phase /\ acquire = "held" /\ acquire' = "pending"
  BY DEF Dispatch, Granted
<1>6. TypeOK'
  BY <1>3, <1>5 DEF Inv, TypeOK, Dispatch
<1>7. Cardinality(running') = Cardinality(running) + 1
  BY <1>3, TaskBegins DEF Inv, OnePlace, Dispatch
<1>8. PermitsConserved'
  BY <1>5, <1>7, TasksFinite DEF Inv, PermitsConserved, TypeOK, Dispatch
<1> QED BY <1>4, <1>5, <1>6, <1>8 DEF Inv, RestsClean

LEMMA EndTaskInv ==
  ASSUME Inv, NEW w \in Work, EndTask(w)
  PROVE  Inv'
<1>1. w \in running /\ phase # "off" /\ phase' = phase /\ acquire' = acquire
  BY DEF EndTask, Inv, RestsClean
<1>2. OnePlace' /\ RestsClean'
  BY <1>1 DEF EndTask, Inv, OnePlace, RestsClean
<1>3. Cardinality(running') = Cardinality(running) - 1
  BY <1>1, TaskEnds DEF EndTask, Inv
<1>4. Cardinality(running) \in Nat /\ Cardinality(running') \in Nat
  <2>1. IsFiniteSet(running')
    BY TasksFinite, FS_Subset DEF EndTask, Inv
  <2> QED BY <2>1, TasksFinite, FS_CardinalityType DEF Inv
<1>5. PermitsConserved' /\ permits' \in 0..MaxConcurrent
  BY <1>1, <1>3, <1>4, WorkerAssumption
     DEF EndTask, Inv, PermitsConserved, TypeOK, WorkerAssumption
<1>6. TypeOK'
  BY <1>5 DEF EndTask, Inv, TypeOK
<1> QED BY <1>2, <1>5, <1>6 DEF Inv

\* A new thread finds no task of the last one, and a new semaphore.
LEMMA StartInv == ASSUME Inv, Start PROVE Inv'
<1>1. running = {} /\ running' = running
  BY DEF Start, work, Inv, RestsClean
<1>2. TypeOK' /\ OnePlace' /\ RestsClean'
  <2>1. MaxConcurrent \in 0..MaxConcurrent
    BY WorkerAssumption DEF WorkerAssumption
  <2>2. TypeOK'
    BY <2>1 DEF Start, work, Inv, TypeOK
  <2>3. OnePlace' /\ RestsClean'
    BY <1>1 DEF Start, work, Inv, OnePlace, RestsClean
  <2> QED BY <2>2, <2>3
<1>3. Cardinality(running') = 0
  BY <1>1, NoTasks DEF Inv
<1>4. PermitsConserved'
  BY <1>3, WorkerAssumption DEF Start, PermitsConserved, WorkerAssumption
<1> QED BY <1>2, <1>4 DEF Inv

\* A permit moves between the semaphore and the loop.
LEMMA PermitMoves == ASSUME Inv, Grant \/ Rest \/ Cleanup PROVE Inv'
<1> USE DEF Inv, work
<1>0. Cardinality(running) \in Nat
  BY TasksFinite
<1>1. CASE Grant
  <2>1. permits' \in 0..MaxConcurrent
    BY <1>1, WorkerAssumption DEF Grant, TypeOK, WorkerAssumption
  <2>3. TypeOK' /\ OnePlace' /\ RestsClean'
    BY <1>1, <2>1 DEF Grant, TypeOK, OnePlace, RestsClean
  <2>2. PermitsConserved'
    BY <1>0, <1>1 DEF Grant, TypeOK, PermitsConserved
  <2> QED BY <2>2, <2>3
<1>2. CASE Rest
  <2>1. PermitsConserved' /\ permits' \in 0..MaxConcurrent
    BY <1>0, <1>2, WorkerAssumption DEF Rest, Granted, TypeOK, PermitsConserved, WorkerAssumption
  <2>2. TypeOK' /\ OnePlace' /\ RestsClean'
    BY <1>2, <2>1 DEF Rest, Granted, TypeOK, OnePlace, RestsClean
  <2> QED BY <2>1, <2>2
<1>3. CASE Cleanup
  <2>1. PermitsConserved' /\ permits' \in 0..MaxConcurrent
    BY <1>0, <1>3, WorkerAssumption DEF Cleanup, TypeOK, PermitsConserved, WorkerAssumption
  <2>2. TypeOK' /\ OnePlace' /\ RestsClean'
    BY <1>3, <2>1 DEF Cleanup, TypeOK, OnePlace, RestsClean
  <2> QED BY <2>1, <2>2
<1> QED BY <1>1, <1>2, <1>3

\* The cancelled tasks give all their permits back.
LEMMA ForceCancelInv == ASSUME Inv, ForceCancel PROVE Inv'
<1>1. Cardinality(running) \in Nat
  BY TasksFinite DEF Inv
<1>2. phase # "off" /\ phase' = "off" /\ running' = {}
  BY DEF ForceCancel
<1>3. permits' \in 0..MaxConcurrent
  BY <1>1, <1>2, WorkerAssumption
     DEF ForceCancel, Inv, TypeOK, PermitsConserved, WorkerAssumption
<1>4. TypeOK' /\ OnePlace' /\ RestsClean'
  BY <1>2, <1>3 DEF ForceCancel, Inv, TypeOK, OnePlace, RestsClean
<1> QED BY <1>2, <1>4 DEF Inv, PermitsConserved

\* The actions that move neither.
LEMMA QuietInv ==
  ASSUME Inv,
         \/ \E w \in Work : Produce(w)
         \/ Stop \/ PollStop \/ Wake \/ Break \/ FetchRaises \/ AcquireEnds \/ Drained
  PROVE  Inv'
<1>1. TypeOK' /\ OnePlace' /\ RestsClean'
  <2>1. ASSUME NEW w \in Work, Produce(w) PROVE TypeOK' /\ OnePlace' /\ RestsClean'
    BY <2>1 DEF Produce, loop, Inv, TypeOK, OnePlace, RestsClean
  <2>2. CASE Stop
    BY <2>2, WorkerAssumption DEF Stop, work, loop, Inv, TypeOK, OnePlace, RestsClean, WorkerAssumption
  <2>3. CASE PollStop \/ Wake \/ Break \/ FetchRaises \/ AcquireEnds \/ Drained
    BY <2>3 DEF PollStop, Wake, Break, FetchRaises, Granted, AcquireEnds, Drained, work, loop,
                Inv, TypeOK, OnePlace, RestsClean
  <2> QED BY <2>1, <2>2, <2>3
<1>2. /\ running' = running /\ permits' = permits
      /\ phase' # "off" => phase # "off"
      /\ phase' # "off" => (acquire' = "held" <=> acquire = "held")
  <2>1. CASE \/ \E w \in Work : Produce(w)
             \/ Stop \/ PollStop
    BY <2>1 DEF Produce, Stop, PollStop, work, loop
  <2>2. CASE Wake
    BY <2>2 DEF Wake, work, Inv, RestsClean
  <2>3. CASE Break \/ FetchRaises \/ AcquireEnds \/ Drained
    BY <2>3 DEF Break, FetchRaises, Granted, AcquireEnds, Drained, work
  <2> QED BY <2>1, <2>2, <2>3
<1> QED BY <1>1, <1>2 DEF Inv, PermitsConserved

LEMMA NextInv == Inv /\ [Next]_vars => Inv'
<1> SUFFICES ASSUME Inv, [Next]_vars PROVE Inv'
  OBVIOUS
<1>1. CASE \E w \in Work : Dispatch(w)
  BY <1>1, DispatchInv
<1>2. CASE \E w \in Work : EndTask(w)
  BY <1>2, EndTaskInv
<1>3. CASE Start
  BY <1>3, StartInv
<1>4. CASE Grant \/ Rest \/ Cleanup
  BY <1>4, PermitMoves
<1>5. CASE ForceCancel
  BY <1>5, ForceCancelInv
<1>6. CASE \/ \E w \in Work : Produce(w)
           \/ Stop \/ PollStop \/ Wake \/ Break \/ FetchRaises \/ AcquireEnds \/ Drained
  BY <1>6, QuietInv
<1>7. CASE UNCHANGED vars
  BY <1>7 DEF vars, Inv, TypeOK, OnePlace, RestsClean, PermitsConserved
<1> QED BY <1>1, <1>2, <1>3, <1>4, <1>5, <1>6, <1>7 DEF Next

LEMMA Invariance == Spec => []Inv
BY InitInv, NextInv, PTL DEF Spec

-----------------------------------------------------------------------------
\* The worker's values keep their types; in particular the semaphore never
\* holds more than max_concurrent_annotations permits (_async_main).
THEOREM WorkerTypes == Spec => []TypeOK
<1>1. Inv => TypeOK
  BY DEF Inv
<1> QED BY <1>1, Invariance, PTL

\* No path through the loop, the sleep, the finally clause or a task leaks a
\* permit (_async_main).
THEOREM NoPermitLeaks == Spec => []PermitsConserved
<1>1. Inv => PermitsConserved
  BY DEF Inv
<1> QED BY <1>1, Invariance, PTL

\* A piece of work waits, is cached, is worked on or is done, and only one of
\* these; and nothing that was handed over disappears without an outcome,
\* through caching, cancellation and restart of the thread (_fetch_next_work,
\* _async_main).
THEOREM NoWorkLost == Spec => WorkIsKept
<1> DEFINE Somewhere == pool \cup cache \cup running \cup reported \cup dropped
           Kept == \A w \in Work : w \in pool \cup cache \cup running => w \in Somewhere'
<1>1. ASSUME Inv, [Next]_vars PROVE Kept
  <2>1. ASSUME NEW w \in Work, Dispatch(w) PROVE Kept
    <3>1. PICK rest \in SUBSET (pool \cup cache) : \E left \in SUBSET (pool \cup cache) :
            Fetch(w, rest, left) /\ cache' = rest /\ pool' = left
      BY <2>1 DEF Dispatch
    <3>2. pool' \cup cache' = (pool \cup cache) \ {w}
      BY <1>1, <3>1, FetchMoves DEF Inv
    <3> QED BY <2>1, <3>2 DEF Dispatch
  <2>2. ASSUME ~\E w \in Work : Dispatch(w) PROVE Kept
    <3>1. pool \cup cache \cup running \subseteq Somewhere'
      BY <1>1, <2>2 DEF Next, vars, work, loop, Produce, EndTask, Start, Stop, PollStop, Grant,
           Rest, Wake, Break, FetchRaises, Cleanup, AcquireEnds, Drained, ForceCancel
    <3> QED BY <3>1
  <2> QED BY <2>1, <2>2
<1>2. Inv /\ [Next]_vars => [Kept]_vars
  BY <1>1
<1>3. Inv => OnePlace
  BY DEF Inv
<1> QED BY <1>2, <1>3, Invariance, PTL DEF Spec, WorkIsKept, NothingLost
=============================================================================
