-------------------------- MODULE MCForestTraining --------------------------
(* Settings of ForestTraining for model checking.                          *)
EXTENDS ForestTraining

Setting(s, len, total, n, freq) ==
  [schedule |-> s, epochLen |-> len, totalSteps |-> total, passes |-> n,
   saveFreq |-> freq, bestFreq |-> 0, expires |-> FALSE]

\* Replay after each step, with nothing saved but the best checkpoints; at the
\* end of an epoch in two passes; and at the end of epochs of two steps, saved
\* after any step, with a step behind the first of them.
Schedules == {[Setting("post_step", 2, 2, 2, 0) EXCEPT !.bestFreq = 1],
              Setting("epoch_local", 2, 2, 2, 1),
              [Setting("epoch_local", 2, 3, 1, 2) EXCEPT !.expires = TRUE]}

\* A checkpoint at the end of an epoch.
EpochEnd == {Setting("epoch_local", 2, 3, 2, 2)}
=============================================================================
