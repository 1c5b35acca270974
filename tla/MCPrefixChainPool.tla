------------------------- MODULE MCPrefixChainPool -------------------------
(* Two prompts, the teacher reaching deeper into one than into the other.  *)
EXTENDS PrefixChainPool, TLC

CONSTANTS p, q

MCMaxDepth == p :> 2 @@ q :> 1
=============================================================================
