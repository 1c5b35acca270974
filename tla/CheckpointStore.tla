-------------------------- MODULE CheckpointStore --------------------------
(***************************************************************************)
(* What checkpointing promises a training run, without folders, files or   *)
(* rotation: the run advances step by step, now and then makes the step it *)
(* has completed durable, and a crash takes it back to the last durable    *)
(* step, never further and never to the beginning.                         *)
(***************************************************************************)
EXTENDS Naturals

VARIABLES
  position, \* the last completed step
  durable   \* the step a restart continues from; 0 before the first commit

storeVars == <<position, durable>>

StoreInit == position = 0 /\ durable = 0

Advance == position' = position + 1 /\ UNCHANGED durable
Commit == durable' = position /\ UNCHANGED position
Crash == position' = durable /\ UNCHANGED durable

StoreNext == Advance \/ Commit \/ Crash
StoreSpec == StoreInit /\ [][StoreNext]_storeVars
=============================================================================
