------------------------ MODULE MCPrefixForestPool ------------------------
(* Instances of PrefixForestPool for TLC.  Prompts are ordered by their    *)
(* rank, so only the tokens are interchangeable.                           *)
EXTENDS PrefixForestPool, TLC

TokenSymmetry == Permutations(Token)
=============================================================================
