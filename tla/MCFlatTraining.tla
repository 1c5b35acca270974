--------------------------- MODULE MCFlatTraining ---------------------------
(* Settings and failed responses for model checking FlatTraining.          *)
EXTENDS FlatTraining

CONSTANTS p, word, dot

\* Of the partitions, one comes with best checkpoints, one with a plan that expires.
Setting(m, seg, size, freq, failures) ==
  [mode |-> m, strategy |-> IF seg = "sp" THEN "uniform" ELSE "stratified",
   segments |-> seg, totalSteps |-> Len(failures), saveFreq |-> freq,
   bestFreq |-> IF seg = "tp" THEN 1 ELSE 0, expires |-> seg = "sp",
   maxSize |-> size, failures |-> failures]

\* Branch points of two trees and two steps, and then none.
Regular == {Setting("regular", seg, 3, 2, <<2, 1, 0, 0>>) : seg \in {"sp", "tp", "fp"}}

\* Three failures of two steps for two places, and a switch of the mode.
Teacher == {Setting("teacher", "tp", 2, 1, <<2, 1, 1>>)}
Inject == {Setting("inject", "tp", 2, 1, <<2, 2, 0>>)}

MCSettings == Regular \cup Teacher \cup Inject

MCResponse == {<<word, dot, word>>, <<word, word, word, word, dot>>}
MCPriors == {<<1, 2>>}

ASSUME MCWeights == MasteredWeighsLeast
=============================================================================
