--------------------------- MODULE ChainLifecycle ---------------------------
(***************************************************************************)
(* What the prefix chain pool promises of one prompt after another, without*)
(* nodes, queues, caches or worker tasks: the state machine that the       *)
(* docstring of recipe/deep_grpo/pools/prefix_chain_pool.py draws.  A chain*)
(* is absent until the main batch fails on its prompt; it alternates       *)
(* between waiting for the teacher and learning, grows by one node with    *)
(* each teacher success, shrinks by one with each mastered node, and ends  *)
(* completed or abandoned.  A restart rewinds all chains to one checkpoint.*)
(***************************************************************************)
EXTENDS Naturals

CONSTANT Prompt

VARIABLES
  phase,   \* prompt |-> where its chain is
  height,  \* prompt |-> number of nodes in its chain
  kept     \* the <<phase, height>> of the last checkpoint

lifeVars == <<phase, height, kept>>

Phases == {"absent", "learning", "deepening", "completed", "abandoned"}

Move(k, from, to, h) ==
  /\ phase[k] = from
  /\ phase' = [phase EXCEPT ![k] = to]
  /\ height' = [height EXCEPT ![k] = h]
  /\ UNCHANGED kept

LifeInit ==
  /\ phase = [k \in Prompt |-> "absent"] /\ height = [k \in Prompt |-> 0]
  /\ kept = <<phase, height>>

Create(k) == Move(k, "absent", "deepening", 1)
Deepen(k) == Move(k, "deepening", "learning", height[k] + 1)
Stick(k) == Move(k, "learning", "deepening", height[k])
Retreat(k) == height[k] > 1 /\ Move(k, "learning", "learning", height[k] - 1)
Complete(k) == height[k] = 1 /\ Move(k, "learning", "completed", 0)

\* One drain of the queue may abandon several chains at once.
Abandon(S) ==
  /\ \A k \in S : phase[k] = "deepening"
  /\ phase' = [k \in Prompt |-> IF k \in S THEN "abandoned" ELSE phase[k]]
  /\ UNCHANGED <<height, kept>>

Checkpoint == kept' = <<phase, height>> /\ UNCHANGED <<phase, height>>
Rewind == phase' = kept[1] /\ height' = kept[2] /\ UNCHANGED kept

LifeNext ==
  \/ \E k \in Prompt : Create(k) \/ Deepen(k) \/ Stick(k) \/ Retreat(k) \/ Complete(k)
  \/ \E S \in SUBSET Prompt : Abandon(S)
  \/ Checkpoint
  \/ Rewind

LifeSpec == LifeInit /\ [][LifeNext]_lifeVars
=============================================================================
