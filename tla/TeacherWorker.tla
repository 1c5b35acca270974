--------------------------- MODULE TeacherWorker ---------------------------
(***************************************************************************)
(* The event loop of recipe/deep_grpo/teacher_worker.py: a daemon thread   *)
(* that fetches failed work from a pool and annotates at most MaxConcurrent*)
(* pieces of it at a time, gated by an asyncio semaphore; it races each    *)
(* wait against a sentinel that the stop event resolves, drains its tasks  *)
(* when told to stop and cancels those that do not end in time.            *)
(*                                                                         *)
(* The loop is single-threaded, so what runs between two awaits is one     *)
(* action; the trainer's thread adds work and sets the stop event at any   *)
(* time.  The three kinds of work differ only in the pool they come from:  *)
(* the flat and the forest mode fetch one piece at a time, the chain mode  *)
(* drains its pool into a cache (batch).  A piece of work is its identity; *)
(* what the teacher makes of it is left to the pools' modules.  Nothing    *)
(* cancels _async_main from outside, so its handlers for that are left out.*)
(***************************************************************************)
EXTENDS Naturals, FiniteSets

CONSTANTS
  Work,          \* pieces of failed work the trainer may hand over
  MaxConcurrent, \* max_concurrent_annotations
  MaxStops       \* bound: stop requests

ASSUME WorkerAssumption ==
  /\ IsFiniteSet(Work) /\ MaxConcurrent \in Nat \ {0}
  /\ MaxStops \in Nat

VARIABLES
  batch,     \* chain mode: the pool is drained into the cache
  pool,      \* work that waits in the pool
  cache,     \* _chain_pending_cache
  running,   \* the work of the live tasks
  reported,  \* work whose outcome has been handed to the pool
  dropped,   \* work whose task was cancelled
  phase,     \* where _async_main is
  permits,   \* the semaphore's value
  acquire,   \* current_acquire: none, pending, held; cancelled: on its way out
  stop,      \* _stop_event
  sentinel,  \* stop_sentinel is done
  stops      \* number of stop requests

work == <<pool, cache, running, reported, dropped>>
loop == <<batch, phase, permits, acquire>>
vars == <<batch, pool, cache, running, reported, dropped, phase, permits, acquire, stop, sentinel, stops>>

-----------------------------------------------------------------------------
Init ==
  /\ batch \in BOOLEAN
  /\ pool = {} /\ cache = {} /\ running = {} /\ reported = {} /\ dropped = {}
  /\ phase = "off" /\ permits = 0 /\ acquire = "none"
  /\ stop = FALSE /\ sentinel = FALSE /\ stops = 0

\* The trainer hands over a failure.
Produce(w) ==
  /\ w \notin pool \cup cache \cup running \cup reported \cup dropped
  /\ pool' = pool \cup {w}
  /\ UNCHANGED <<cache, running, reported, dropped, loop, stop, sentinel, stops>>

\* start(): a new thread, a new semaphore, and the first acquire of the loop.
\* A worker that is stopped is started again only after its thread has ended:
\* stop() forgets a thread that drains for more than the 10 seconds of its
\* join, but no caller starts a worker twice.
Start ==
  /\ phase = "off"
  /\ stop' = FALSE /\ sentinel' = FALSE
  /\ permits' = MaxConcurrent /\ acquire' = "pending" /\ phase' = "acquiring"
  /\ UNCHANGED <<batch, work, stops>>

\* stop().
Stop ==
  /\ ~stop /\ phase # "off" /\ stops < MaxStops
  /\ stop' = TRUE /\ stops' = stops + 1
  /\ UNCHANGED <<work, loop, sentinel>>

\* _poll_stop sees the event.
PollStop ==
  /\ stop /\ ~sentinel /\ phase \in {"acquiring", "idle"}
  /\ sentinel' = TRUE
  /\ UNCHANGED <<work, loop, stop, stops>>

\* The semaphore grants the pending acquire.
Grant ==
  /\ acquire = "pending" /\ permits > 0
  /\ acquire' = "held" /\ permits' = permits - 1
  /\ UNCHANGED <<batch, work, phase, stop, sentinel, stops>>

\* The loop body after a grant that came before the sentinel.
Granted == phase = "acquiring" /\ acquire = "held" /\ ~sentinel

\* Mutant: the pool is drained whether or not the cache is empty.
FetchOver(fetched, rest, left) ==
  fetched \in pool /\ rest = pool \ {fetched} /\ left = {}

\* _fetch_next_work: the piece fetched, the cache and the pool it leaves.
Fetch(fetched, rest, left) ==
  IF batch
    THEN LET source == IF cache = {} THEN pool ELSE cache IN
         /\ fetched \in source /\ rest = source \ {fetched}
         /\ left = IF cache = {} THEN {} ELSE pool
    ELSE fetched \in pool /\ rest = cache /\ left = pool \ {fetched}

\* Work is fetched, its task created, and the next acquire requested.
Dispatch(w) ==
  /\ Granted
  /\ \E rest, left \in SUBSET (pool \cup cache) :
       Fetch(w, rest, left) /\ cache' = rest /\ pool' = left
  /\ running' = running \cup {w}
  /\ acquire' = "pending"
  /\ UNCHANGED <<batch, reported, dropped, phase, permits, stop, sentinel, stops>>

\* Mutant: the permit is kept during the sleep.
RestHolding ==
  /\ Granted /\ pool = {} /\ cache = {}
  /\ acquire' = "none" /\ phase' = "idle"
  /\ UNCHANGED <<batch, work, permits, stop, sentinel, stops>>

\* No work: the permit goes back and the loop sleeps for poll_interval.
Rest ==
  /\ Granted /\ pool = {} /\ cache = {}
  /\ permits' = permits + 1 /\ acquire' = "none" /\ phase' = "idle"
  /\ UNCHANGED <<batch, work, stop, sentinel, stops>>

\* The sleep ends, by itself or by the sentinel.
Wake ==
  /\ phase = "idle"
  /\ IF sentinel THEN phase' = "cleanup" /\ UNCHANGED acquire
                 ELSE phase' = "acquiring" /\ acquire' = "pending"
  /\ UNCHANGED <<batch, work, permits, stop, sentinel, stops>>

\* Mutant: the pending acquire is waited for without the sentinel.
BreakWhenGranted ==
  /\ phase = "acquiring" /\ sentinel /\ acquire = "held" /\ phase' = "cleanup"
  /\ UNCHANGED <<batch, work, permits, acquire, stop, sentinel, stops>>

\* The sentinel wins the wait for the acquire.
Break ==
  /\ phase = "acquiring" /\ sentinel /\ phase' = "cleanup"
  /\ UNCHANGED <<batch, work, permits, acquire, stop, sentinel, stops>>

\* Fetching raises: the exception leaves the loop with the permit held.
FetchRaises ==
  /\ Granted /\ phase' = "cleanup"
  /\ UNCHANGED <<batch, work, permits, acquire, stop, sentinel, stops>>

\* The end of a _run_one task: the outcome is reported, the permit released.
EndTask(w) ==
  /\ w \in running /\ running' = running \ {w}
  /\ reported' = reported \cup {w}
  /\ permits' = permits + 1
  /\ UNCHANGED <<batch, pool, cache, dropped, phase, acquire, stop, sentinel, stops>>

-----------------------------------------------------------------------------
(* The finally clause.                                                     *)

\* A pending acquire is cancelled, a granted permit released.
Cleanup ==
  /\ phase = "cleanup"
  /\ acquire' = IF acquire = "pending" THEN "cancelled" ELSE "none"
  /\ permits' = IF acquire = "held" THEN permits + 1 ELSE permits
  /\ phase' = IF running = {} THEN "off" ELSE "draining"
  /\ UNCHANGED <<batch, work, stop, sentinel, stops>>

\* The cancelled acquire ends without a permit, or was granted one all the
\* same, which its callback releases.
AcquireEnds ==
  /\ phase = "draining" /\ acquire = "cancelled" /\ acquire' = "none"
  /\ UNCHANGED <<batch, work, phase, permits, stop, sentinel, stops>>

\* All tasks have ended within the drain's 30 seconds.
Drained ==
  /\ phase = "draining" /\ running = {} /\ phase' = "off"
  /\ UNCHANGED <<batch, work, permits, acquire, stop, sentinel, stops>>

\* They have not: the rest is cancelled, and releases without reporting.
ForceCancel ==
  /\ phase = "draining" /\ running # {} /\ phase' = "off"
  /\ dropped' = dropped \cup running /\ running' = {}
  /\ permits' = permits + Cardinality(running)
  /\ UNCHANGED <<batch, pool, cache, reported, acquire, stop, sentinel, stops>>

Loop == Grant \/ (\E w \in Work : Dispatch(w)) \/ Rest \/ Wake \/ Break \/ Cleanup \/ Drained \/ ForceCancel

Next ==
  \/ \E w \in Work : Produce(w) \/ Dispatch(w) \/ EndTask(w)
  \/ Start \/ Stop \/ PollStop
  \/ Grant \/ Rest \/ Wake \/ Break \/ FetchRaises
  \/ Cleanup \/ AcquireEnds \/ Drained \/ ForceCancel

Spec == Init /\ [][Next]_vars

\* The event loop keeps running what is ready, timers included: the poll of
\* the stop event, the sleep, the drain's timeout.  Nobody has to start, stop
\* or feed it, and teacher calls may hang.
FairSpec == Spec /\ WF_vars(PollStop) /\ WF_vars(Loop)

-----------------------------------------------------------------------------
(* Properties.                                                             *)

\* The type invariant.
TypeOK ==
  /\ batch \in BOOLEAN
  /\ pool \subseteq Work /\ cache \subseteq Work /\ running \subseteq Work
  /\ reported \subseteq Work /\ dropped \subseteq Work
  /\ phase \in {"off", "acquiring", "idle", "cleanup", "draining"}
  /\ permits \in 0..MaxConcurrent /\ acquire \in {"none", "pending", "held", "cancelled"}
  /\ stop \in BOOLEAN /\ sentinel \in BOOLEAN /\ stops \in 0..MaxStops

\* No permit leaks on any path through the loop, the sleep, the finally clause
\* or a task: while the thread lives, the permits left, the one the loop holds
\* and those of the tasks are always the MaxConcurrent of the semaphore.
PermitsConserved ==
  phase # "off" =>
    permits + Cardinality(running) + (IF acquire = "held" THEN 1 ELSE 0) = MaxConcurrent

\* No work is lost or done twice: a piece is in one place only.
OnePlace ==
  /\ pool \cap cache = {} /\ running \cap (pool \cup cache) = {}
  /\ (reported \cup dropped) \cap (pool \cup cache \cup running) = {}
  /\ reported \cap dropped = {}

\* Nothing that has been handed over disappears without an outcome.
NothingLost == [][\A w \in Work :
  w \in pool \cup cache \cup running => w \in (pool \cup cache \cup running \cup reported \cup dropped)']_vars

\* So every piece that is handed over ends under one outcome at most, whatever
\* is fetched, cached, stopped and cancelled on the way.
WorkIsKept == []OnePlace /\ NothingLost

\* A worker that lives takes the work it is given, sooner or later, unless all
\* its permits are with tasks.
WorkIsTaken == \A w \in Work :
  w \in pool \cup cache ~>
    w \notin pool \cup cache \/ stop \/ phase = "off" \/ Cardinality(running) = MaxConcurrent

\* A stop request ends the thread, wherever the loop is and even if its tasks
\* never end.
StopEnds == stop ~> phase = "off"
=============================================================================
