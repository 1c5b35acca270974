-------------------------- MODULE MCCheckpointing --------------------------
(* Settings of a training run for TLC.                                     *)
EXTENDS Checkpointing

With(keep, saveBest, saveFreq, testFreq, resumePath, emptyPools) ==
  [keep |-> keep, saveBest |-> saveBest, saveFreq |-> saveFreq, testFreq |-> testFreq,
   resumePath |-> resumePath, emptyPools |-> emptyPools]

\* The release script's settings; rotation by the workers; any resumption.
Many == {With(1, TRUE, 2, 1, FALSE, FALSE), With(2, FALSE, 1, 0, FALSE, FALSE), With(1, TRUE, 2, 2, TRUE, TRUE)}

KeepOne == {With(1, FALSE, 2, 1, FALSE, FALSE)}
=============================================================================
