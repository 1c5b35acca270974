--------------------------- MODULE MCEntropyTree ---------------------------
(* EntropyTree on small trees. *)
EXTENDS EntropyTree

\* One round of two forks; two rounds of two, which hit one leaf or two; three
\* rounds; a prompt that leaves no room.
MCSettings ==
  {[prompt |-> 2, n |-> 2, l |-> 1, t |-> 2], [prompt |-> 2, n |-> 2, l |-> 2, t |-> 1],
   [prompt |-> 3, n |-> 1, l |-> 3, t |-> 2], [prompt |-> 10, n |-> 1, l |-> 1, t |-> 1]}
=============================================================================
