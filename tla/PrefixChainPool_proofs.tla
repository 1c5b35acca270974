----------------------- MODULE PrefixChainPool_proofs -----------------------
(***************************************************************************)
(* Proofs about PrefixChainPool, for every set of prompts, every depth the *)
(* teacher may reach, every number of injection slots and permits, and any *)
(* number of restarts.                                                     *)
(***************************************************************************)
EXTENDS PrefixChainPool, SequenceTheorems, FiniteSetTheorems, TLAPS

\* The nodes of a chain for prompt k: none mastered, each deeper than the one
\* before, the first one the prompt itself.
NodesOK(k, s) ==
  /\ s \in Seq(NodeType)
  /\ \A i \in 1..Len(s) : s[i].depth <= MaxDepth[k] /\ s[i].last # "all"
  /\ \A i, j \in 1..Len(s) : i < j => s[i].depth < s[j].depth
  /\ s # << >> => s[1].depth = 0

\* A chain as the pool keeps it.
ChainOK(k, c) ==
  /\ c \in ChainType /\ NodesOK(k, c.nodes)
  /\ c.active = Len(c.nodes) - 1
  /\ c.state = "completed" <=> c.nodes = << >>
  /\ c.state = "learning" => ActiveNode(c).last \in {"untried", "some"}

PoolOK(cs, q) ==
  /\ DOMAIN cs \subseteq Prompt /\ q \in [Prompt -> Nat]
  /\ \A k \in DOMAIN cs : ChainOK(k, cs[k])

\* A checkpoint may miss the requests the worker held, but has no others.
SavedOK ==
  /\ PoolOK(saved.chains, saved.queue)
  /\ \A k \in Prompt : saved.queue[k] \in {0, 1}
  /\ \A k \in Prompt : saved.queue[k] = 1 =>
       k \in DOMAIN saved.chains /\ saved.chains[k].state = "deepening"

\* A permit that is not in the semaphore belongs to a running task.
Running == {k \in Prompt : tasks[k] > 0}
PermitsOK ==
  /\ IsFiniteSet(Running)
  /\ permits \in Nat /\ permits + Cardinality(Running) = MaxConcurrent

BagsOK == cache \in [Prompt -> Nat] /\ tasks \in [Prompt -> Nat]

LentOK == DOMAIN lent \subseteq DOMAIN chains /\ ReportsReachTheirNode

\* The inductive invariant.
Inv ==
  /\ PoolOK(chains, queue) /\ SavedOK /\ BagsOK
  /\ OneRequestPerWaitingChain /\ LentOK /\ PermitsOK
  /\ restarts \in 0..MaxRestarts

-----------------------------------------------------------------------------
(* The nodes of a chain: what the three ways to change them leave.         *)

\* The last node is relabelled (record_observation).
LEMMA Relabelled ==
  ASSUME NEW k \in Prompt, NEW s, NodesOK(k, s), s # << >>, NEW n \in NodeType,
         n.depth = s[Len(s)].depth, n.last # "all"
  PROVE  /\ NodesOK(k, [s EXCEPT ![Len(s)] = n])
         /\ Len([s EXCEPT ![Len(s)] = n]) = Len(s)
         /\ [s EXCEPT ![Len(s)] = n][Len(s)] = n
<1> DEFINE t == [s EXCEPT ![Len(s)] = n]
<1>1. s \in Seq(NodeType) /\ Len(s) \in Nat \ {0}
  BY EmptySeq DEF NodesOK
<1>2. Len(s) \in 1..Len(s) /\ 1 \in 1..Len(s)
  BY <1>1
<1>3. /\ t \in Seq(NodeType) /\ Len(t) = Len(s)
      /\ \A j \in 1..Len(s) : t[j] = IF j = Len(s) THEN n ELSE s[j]
  BY <1>1, <1>2, ExceptSeq
<1>4. \A i \in 1..Len(t) : t[i].depth = s[i].depth /\ t[i].last # "all"
  BY <1>3 DEF NodesOK
<1>5. NodesOK(k, t)
  BY <1>2, <1>3, <1>4 DEF NodesOK
<1> QED BY <1>2, <1>3, <1>5

\* The last node is popped (_on_master).
LEMMA Popped ==
  ASSUME NEW k \in Prompt, NEW s, NodesOK(k, s), s # << >>
  PROVE  /\ NodesOK(k, SubSeq(s, 1, Len(s) - 1))
         /\ Len(SubSeq(s, 1, Len(s) - 1)) = Len(s) - 1
         /\ \A i \in 1..(Len(s) - 1) : SubSeq(s, 1, Len(s) - 1)[i] = s[i]
<1> DEFINE t == SubSeq(s, 1, Len(s) - 1)
<1>1. s \in Seq(NodeType) /\ Len(s) \in Nat \ {0}
  BY EmptySeq DEF NodesOK
<1>2. \A i \in 1..(Len(s) - 1) : s[i] \in NodeType
  BY <1>1, ElementOfSeq
<1>3. /\ t \in Seq(NodeType) /\ Len(t) = Len(s) - 1
      /\ \A i \in 1..(Len(s) - 1) : t[i] = s[i]
  <2>1. /\ t \in Seq(NodeType)
        /\ Len(t) = IF 1 <= Len(s) - 1 THEN (Len(s) - 1) - 1 + 1 ELSE 0
        /\ \A i \in 1..((Len(s) - 1) - 1 + 1) : t[i] = s[1 + i - 1]
    BY <1>1, <1>2, SubSeqProperties, 1 \in Int, Len(s) - 1 \in Int
  <2>2. Len(t) = Len(s) - 1
    <3>1. \A l \in Nat \ {0} : (IF 1 <= l - 1 THEN (l - 1) - 1 + 1 ELSE 0) = l - 1
      OBVIOUS
    <3> QED BY <1>1, <2>1, <3>1, Zenon
  <2>3. ASSUME NEW i \in 1..(Len(s) - 1) PROVE t[i] = s[i]
    <3>1. i \in 1..((Len(s) - 1) - 1 + 1) /\ 1 + i - 1 = i
      BY <1>1
    <3> QED BY <2>1, <3>1
  <2> QED BY <2>1, <2>2, <2>3
<1>4. t # << >> => 1 \in 1..Len(t)
  BY <1>3, EmptySeq
<1>5. NodesOK(k, t)
  BY <1>1, <1>3, <1>4 DEF NodesOK
<1> QED BY <1>3, <1>5

\* A deeper node is appended (on_teacher_response).
LEMMA Appended ==
  ASSUME NEW k \in Prompt, NEW s, NodesOK(k, s), s # << >>, NEW n \in NodeType,
         n.depth > s[Len(s)].depth, n.depth <= MaxDepth[k], n.last # "all"
  PROVE  /\ NodesOK(k, Append(s, n))
         /\ Len(Append(s, n)) = Len(s) + 1
         /\ Append(s, n)[Len(s) + 1] = n
<1> DEFINE t == Append(s, n)
<1>1. s \in Seq(NodeType) /\ Len(s) \in Nat \ {0}
  BY EmptySeq DEF NodesOK
<1>2. /\ t \in Seq(NodeType) /\ Len(t) = Len(s) + 1 /\ t[Len(s) + 1] = n
      /\ \A i \in 1..Len(s) : t[i] = s[i] /\ s[i] \in NodeType
  BY <1>1, AppendProperties, ElementOfSeq
<1>3. \A i \in 1..Len(s) : s[i].depth <= s[Len(s)].depth
  <2>1. Len(s) \in 1..Len(s) /\ \A i \in 1..Len(s) : s[i].depth \in Nat
    BY <1>1, <1>2 DEF NodeType
  <2> QED BY <1>1, <2>1 DEF NodesOK
<1>4. \A i, j \in 1..Len(t) : i < j => t[i].depth < t[j].depth
  <2>1. ASSUME NEW i \in 1..Len(t), NEW j \in 1..Len(t), i < j PROVE t[i].depth < t[j].depth
    <3>1. i \in 1..Len(s) /\ t[i] = s[i] /\ s[i].depth \in Nat
      BY <1>1, <1>2, <2>1 DEF NodeType
    <3>2. s[Len(s)].depth \in Nat /\ n.depth \in Nat
      BY <1>1, <1>2 DEF NodeType
    <3>3. CASE j \in 1..Len(s)
      BY <1>2, <2>1, <3>1, <3>3 DEF NodesOK
    <3>4. CASE j = Len(s) + 1
      BY <1>2, <1>3, <3>1, <3>2, <3>4
    <3> QED BY <1>1, <1>2, <3>3, <3>4
  <2> QED BY <2>1
<1>5. \A i \in 1..Len(t) : t[i].depth <= MaxDepth[k] /\ t[i].last # "all"
  BY <1>1, <1>2 DEF NodesOK
<1>6. 1 \in 1..Len(s) /\ t[1].depth = 0
  BY <1>1, <1>2 DEF NodesOK
<1>7. NodesOK(k, t)
  BY <1>2, <1>4, <1>5, <1>6 DEF NodesOK
<1> QED BY <1>2, <1>7

-----------------------------------------------------------------------------
(* Chains: what the pool's methods make of one.                            *)

LEMMA ChainShape ==
  ASSUME NEW k \in Prompt, NEW c, ChainOK(k, c)
  PROVE  /\ c = [nodes |-> c.nodes, active |-> Len(c.nodes) - 1, state |-> c.state]
         /\ NodesOK(k, c.nodes) /\ Len(c.nodes) \in Nat
         /\ c.nodes # << >> => Len(c.nodes) \in Nat \ {0} /\ ActiveNode(c) = c.nodes[Len(c.nodes)]
                                /\ ActiveNode(c) \in NodeType
<1>1. /\ c = [nodes |-> c.nodes, active |-> Len(c.nodes) - 1, state |-> c.state]
      /\ NodesOK(k, c.nodes) /\ c.nodes \in Seq(NodeType) /\ c.active + 1 = Len(c.nodes)
  BY LenProperties DEF ChainOK, ChainType
<1>2. Len(c.nodes) \in Nat
  BY <1>1, LenProperties
<1>3. ASSUME c.nodes # << >>
      PROVE  /\ Len(c.nodes) \in Nat \ {0} /\ ActiveNode(c) = c.nodes[Len(c.nodes)]
             /\ ActiveNode(c) \in NodeType
  <2>1. Len(c.nodes) \in Nat \ {0}
    BY <1>1, <1>3, EmptySeq
  <2>2. c.nodes[Len(c.nodes)] \in NodeType
    BY <1>1, <2>1, ElementOfSeq
  <2> QED BY <1>1, <2>1, <2>2 DEF ActiveNode
<1> QED BY <1>1, <1>2, <1>3

\* A chain is rebuilt from nodes and a state that fit.
LEMMA ChainBuilt ==
  ASSUME NEW k \in Prompt, NEW s, NodesOK(k, s),
         NEW state \in {"learning", "deepening", "completed", "abandoned"},
         state = "completed" <=> s = << >>,
         state = "learning" => s[Len(s)].last \in {"untried", "some"}
  PROVE  ChainOK(k, [nodes |-> s, active |-> Len(s) - 1, state |-> state])
<1> DEFINE c == [nodes |-> s, active |-> Len(s) - 1, state |-> state]
<1>1. s \in Seq(NodeType) /\ Len(s) \in Nat
  BY LenProperties DEF NodesOK
<1>2. c \in ChainType /\ c.nodes = s /\ c.active = Len(s) - 1 /\ c.state = state
  BY <1>1 DEF ChainType
<1>3. c.active + 1 = Len(s)
  BY <1>1
<1> QED BY <1>2, <1>3 DEF ChainOK, ActiveNode

\* on_main_failure.
Fresh == [nodes |-> <<Node(0, TRUE)>>, active |-> 0, state |-> "deepening"]
LEMMA FreshOK ==
  ASSUME NEW k \in Prompt
  PROVE  ChainOK(k, Fresh) /\ Fresh.state = "deepening" /\ Len(Fresh.nodes) = 1
<1> DEFINE n == Node(0, TRUE)
           s == <<n>>
<1>1. n \in NodeType /\ n.depth = 0 /\ n.last = "untried"
  BY DEF Node, NodeType, Outcome
<1>2. MaxDepth[k] \in Nat
  BY ChainAssumption DEF ChainAssumption
<1> HIDE DEF n
<1>3. s \in Seq(NodeType) /\ Len(s) = 1 /\ s[1] = n /\ s # << >>
  BY <1>1
<1> HIDE DEF s
<1>4. \A i \in 1..Len(s) : i = 1
  BY <1>3
<1>5. NodesOK(k, s)
  <2>1. \A i \in 1..Len(s) : s[i].depth <= MaxDepth[k] /\ s[i].last # "all"
    BY <1>1, <1>2, <1>3, <1>4
  <2>2. \A i, j \in 1..Len(s) : i < j => s[i].depth < s[j].depth
    BY <1>4
  <2> QED BY <1>1, <1>3, <2>1, <2>2 DEF NodesOK
<1>6. ChainOK(k, [nodes |-> s, active |-> Len(s) - 1, state |-> "deepening"])
  BY <1>3, <1>5, ChainBuilt
<1>7. Fresh = [nodes |-> s, active |-> 0, state |-> "deepening"]
  BY DEF Fresh, s, n
<1> QED BY <1>3, <1>6, <1>7

\* record_observation where some or none of the rollouts succeeded.
LEMMA ObservedOK ==
  ASSUME NEW k \in Prompt, NEW c, ChainOK(k, c), c.state = "learning", NEW f \in BOOLEAN
  PROVE  /\ ChainOK(k, Observed(c, "some"))
         /\ Observed(c, "some").state = "learning"
         /\ Len(Observed(c, "some").nodes) = Len(c.nodes)
         /\ ChainOK(k, Stuck(c, f))
         /\ Stuck(c, f).state = "deepening"
         /\ Len(Stuck(c, f).nodes) = Len(c.nodes)
<1> DEFINE s == c.nodes
           l == Len(c.nodes)
           some == [s[l] EXCEPT !.last = "some"]
           none == [[s[l] EXCEPT !.last = "none"] EXCEPT !.failures = f]
<1>1. /\ c = [nodes |-> s, active |-> l - 1, state |-> "learning"]
      /\ NodesOK(k, s) /\ l \in Nat \ {0} /\ s[l] \in NodeType /\ s # << >>
      /\ s \in Seq(NodeType) /\ (l - 1) + 1 = l
  BY ChainShape DEF ChainOK, NodesOK
<1>2. /\ some \in NodeType /\ some.depth = s[l].depth /\ some.last = "some"
      /\ none \in NodeType /\ none.depth = s[l].depth /\ none.last = "none"
  BY <1>1 DEF NodeType, Outcome
<1>3. Observed(c, "some") = [nodes |-> [s EXCEPT ![l] = some], active |-> l - 1, state |-> "learning"]
  BY <1>1 DEF Observed
<1>4. Stuck(c, f) = [nodes |-> [s EXCEPT ![l] = none], active |-> l - 1, state |-> "deepening"]
  <2> DEFINE once == [s EXCEPT ![l] = [s[l] EXCEPT !.last = "none"]]
  <2>1. Observed(c, "none") = [nodes |-> once, active |-> l - 1, state |-> "learning"]
    BY <1>1 DEF Observed
  <2>2. l \in DOMAIN s
    BY <1>1
  <2>3. [once EXCEPT ![l] = [once[l] EXCEPT !.failures = f]] = [s EXCEPT ![l] = none]
    BY <2>2
  <2>4. Stuck(c, f) = [nodes |-> [once EXCEPT ![l] = [once[l] EXCEPT !.failures = f]],
                       active |-> l - 1, state |-> "deepening"]
    <3> DEFINE o == [nodes |-> once, active |-> l - 1, state |-> "learning"]
               p == [o EXCEPT !.nodes[l].failures = f]
    <3>1. c.active + 1 = l
      BY <1>1
    <3>2. l \in DOMAIN once
      BY <2>2
    <3>3. Stuck(c, f) = [o EXCEPT !.nodes[l].failures = f, !.state = "deepening"]
      <4> HIDE DEF once, l, o
      <4> QED BY <2>1, <3>1 DEF Stuck, o
    <3> HIDE DEF once, l
    <3>4. p = [nodes |-> [once EXCEPT ![l] = [once[l] EXCEPT !.failures = f]],
               active |-> l - 1, state |-> "learning"]
      BY <3>2
    <3>5. Stuck(c, f) = [p EXCEPT !.state = "deepening"]
      BY <3>3
    <3> HIDE DEF p
    <3> QED BY <3>4, <3>5
  <2> QED BY <2>3, <2>4
<1>5. /\ NodesOK(k, [s EXCEPT ![l] = some]) /\ Len([s EXCEPT ![l] = some]) = l
      /\ [s EXCEPT ![l] = some][l] = some
      /\ NodesOK(k, [s EXCEPT ![l] = none]) /\ Len([s EXCEPT ![l] = none]) = l
  <2> HIDE DEF some, none
  <2> QED BY <1>1, <1>2, Relabelled
<1>6. [s EXCEPT ![l] = some] # << >> /\ [s EXCEPT ![l] = none] # << >>
  BY <1>1, <1>5, EmptySeq
<1>7. /\ ChainOK(k, [nodes |-> [s EXCEPT ![l] = some], active |-> l - 1, state |-> "learning"])
      /\ ChainOK(k, [nodes |-> [s EXCEPT ![l] = none], active |-> l - 1, state |-> "deepening"])
  <2> DEFINE t == [s EXCEPT ![l] = some]
             u == [s EXCEPT ![l] = none]
  <2>1. NodesOK(k, t) /\ Len(t) = l /\ t # << >> /\ t[Len(t)].last = "some"
    BY <1>2, <1>5, <1>6
  <2>2. NodesOK(k, u) /\ Len(u) = l /\ u # << >>
    BY <1>5, <1>6
  <2> HIDE DEF t, u
  <2>3. ChainOK(k, [nodes |-> t, active |-> Len(t) - 1, state |-> "learning"])
    BY <2>1, ChainBuilt
  <2>4. ChainOK(k, [nodes |-> u, active |-> Len(u) - 1, state |-> "deepening"])
    BY <2>2, ChainBuilt
  <2> QED BY <2>1, <2>2, <2>3, <2>4 DEF t, u
<1> HIDE DEF some, none
<1>8. Observed(c, "some").state = "learning" /\ Observed(c, "some").nodes = [s EXCEPT ![l] = some]
  BY <1>3
<1>9. Stuck(c, f).state = "deepening" /\ Stuck(c, f).nodes = [s EXCEPT ![l] = none]
  BY <1>4
<1> QED BY <1>3, <1>4, <1>5, <1>7, <1>8, <1>9, Zenon

LEMMA ObservedIs ==
  ASSUME NEW k \in Prompt, NEW c, ChainOK(k, c), c.nodes # << >>, NEW o
  PROVE  Observed(c, o) =
           [nodes |-> [c.nodes EXCEPT ![Len(c.nodes)] = [c.nodes[Len(c.nodes)] EXCEPT !.last = o]],
            active |-> Len(c.nodes) - 1, state |-> c.state]
<1> DEFINE l == Len(c.nodes)
<1>1. c = [nodes |-> c.nodes, active |-> l - 1, state |-> c.state] /\ c.active + 1 = l
  BY ChainShape DEF ChainOK
<1> HIDE DEF l
<1>2. Observed(c, o) = [c EXCEPT !.nodes[l].last = o]
  BY <1>1 DEF Observed
<1>3. [c EXCEPT !.nodes[l].last = o] =
        [nodes |-> [c.nodes EXCEPT ![l] = [c.nodes[l] EXCEPT !.last = o]],
         active |-> l - 1, state |-> c.state]
  BY <1>1
<1> QED BY <1>2, <1>3 DEF l

\* _on_master: as no other node is mastered, exactly one is popped.
LEMMA MasteredOK ==
  ASSUME NEW k \in Prompt, NEW c, ChainOK(k, c), c.state = "learning"
  PROVE  LET m == Mastered(Observed(c, "all"))
         IN  /\ ChainOK(k, m) /\ Len(m.nodes) = Len(c.nodes) - 1
             /\ m.state = IF Len(c.nodes) = 1 THEN "completed" ELSE "learning"
<1> DEFINE s == c.nodes
           l == Len(c.nodes)
           all == [s EXCEPT ![l] = [s[l] EXCEPT !.last = "all"]]
           o == [nodes |-> all, active |-> l - 1, state |-> "learning"]
           kept == {i \in 1..(o.active + 1) : o.nodes[i].last # "all"}
           top == IF kept = {} THEN 0 ELSE CHOOSE i \in kept : \A j \in kept : j <= i
           t == SubSeq(s, 1, l - 1)
           rest == SubSeq(o.nodes, 1, top) \o SubSeq(o.nodes, o.active + 2, Len(o.nodes))
<1>1. /\ c = [nodes |-> s, active |-> l - 1, state |-> "learning"]
      /\ NodesOK(k, s) /\ l \in Nat \ {0} /\ s[l] \in NodeType /\ s # << >>
      /\ s \in Seq(NodeType) /\ (l - 1) + 1 = l /\ Len(s) = l
  BY ChainShape DEF ChainOK, NodesOK
<1>2. Observed(c, "all") = o
  BY <1>1, ObservedIs
<1>3. /\ all \in Seq(NodeType) /\ Len(all) = l
      /\ \A j \in 1..l : all[j] = IF j = l THEN [s[l] EXCEPT !.last = "all"] ELSE s[j]
  <2>1. [s[l] EXCEPT !.last = "all"] \in NodeType
    BY <1>1 DEF NodeType, Outcome
  <2> QED BY <1>1, <2>1, ExceptSeq
<1>4. /\ o.nodes = all /\ o.active = l - 1 /\ o.state = "learning"
  OBVIOUS
<1> HIDE DEF l
<1>5. kept = 1..(l - 1)
  <2>1. [s[l] EXCEPT !.last = "all"].last = "all"
    BY <1>1 DEF NodeType
  <2>2. ASSUME NEW i \in 1..(l - 1) PROVE i \in 1..l /\ i # l /\ s[i].last # "all"
    <3>1. i \in 1..l /\ i \in 1..Len(s) /\ i # l
      BY <1>1
    <3> QED BY <1>1, <3>1 DEF NodesOK
  <2>3. kept = {i \in 1..l : all[i].last # "all"}
    BY <1>1, <1>4
  <2> HIDE DEF kept
  <2>4. ASSUME NEW i \in kept PROVE i \in 1..(l - 1)
    <3>1. i \in 1..l /\ all[i].last # "all"
      BY <2>3, <2>4
    <3>2. i # l
      BY <1>3, <2>1, <3>1
    <3> QED BY <1>1, <3>1, <3>2
  <2>5. ASSUME NEW i \in 1..(l - 1) PROVE i \in kept
    BY <1>3, <2>2, <2>3, <2>5
  <2> QED BY <2>4, <2>5
<1>6. top = l - 1
  <2> HIDE DEF kept
  <2>1. CASE l = 1
    <3>1. kept = {}
      BY <1>5, <2>1
    <3> QED BY <2>1, <3>1
  <2>2. CASE l > 1
    <3>1. kept # {} /\ l - 1 \in kept /\ \A j \in kept : j <= l - 1
      BY <1>1, <1>5, <2>2
    <3>2. ASSUME NEW i \in kept, \A j \in kept : j <= i PROVE i = l - 1
      BY <1>1, <1>5, <3>1, <3>2
    <3> QED BY <3>1, <3>2
  <2> QED BY <1>1, <2>1, <2>2
<1>7. /\ NodesOK(k, t) /\ Len(t) = l - 1 /\ t \in Seq(NodeType)
      /\ \A i \in 1..(l - 1) : t[i] = s[i]
  BY <1>1, Popped DEF NodesOK
<1>8. rest = t
  <2>1. SubSeq(o.nodes, o.active + 2, Len(o.nodes)) = << >>
    <3>1. o.active + 2 = l + 1 /\ Len(o.nodes) = l /\ l < l + 1 /\ l + 1 \in Int /\ l \in Int
      BY <1>1, <1>3, <1>4
    <3> HIDE DEF o, l
    <3> QED BY <3>1, SubSeqEmpty
  <2>2. SubSeq(o.nodes, 1, top) = SubSeq(all, 1, l - 1)
    BY <1>4, <1>6
  <2>3. SubSeq(all, 1, l - 1) = t
    <3> HIDE DEF all, l, s
    <3>1. \A i \in 1..(l - 1) : i \in 1..l /\ all[i] = s[i] /\ all[i] \in NodeType
      BY <1>1, <1>3, ElementOfSeq
    <3> DEFINE u == SubSeq(all, 1, l - 1)
    <3>2. /\ u \in Seq(NodeType) /\ Len(u) = IF 1 <= l - 1 THEN (l - 1) - 1 + 1 ELSE 0
          /\ \A i \in 1..((l - 1) - 1 + 1) : u[i] = all[1 + i - 1]
      BY <1>1, <3>1, SubSeqProperties, 1 \in Int, l - 1 \in Int
    <3>3. Len(u) = l - 1
      <4>1. \A n \in Nat \ {0} : (IF 1 <= n - 1 THEN (n - 1) - 1 + 1 ELSE 0) = n - 1
        OBVIOUS
      <4> QED BY <1>1, <3>2, <4>1, Zenon
    <3>4. ASSUME NEW i \in 1..(l - 1) PROVE u[i] = t[i]
      <4>1. i \in 1..((l - 1) - 1 + 1) /\ 1 + i - 1 = i
        BY <1>1
      <4> QED BY <1>7, <3>1, <3>2, <4>1
    <3> HIDE DEF u, t
    <3>5. u = t
      BY <1>7, <3>2, <3>3, <3>4, SeqEqual
    <3> QED BY <3>5 DEF u
  <2>4. t \o << >> = t
    BY <1>7, ConcatEmptySeq
  <2> QED BY <2>1, <2>2, <2>3, <2>4
<1>9. Mastered(Observed(c, "all")) =
        [nodes |-> IF top = 0 THEN rest ELSE [rest EXCEPT ![top] = Node(@.depth, FALSE)],
         active |-> top - 1, state |-> IF top = 0 THEN "completed" ELSE "learning"]
  <2>1. Mastered(o) =
          [nodes |-> IF top = 0 THEN rest ELSE [rest EXCEPT ![top] = Node(@.depth, FALSE)],
           active |-> top - 1, state |-> IF top = 0 THEN "completed" ELSE o.state]
    BY DEF Mastered
  <2> HIDE DEF top, rest, o
  <2> QED BY <1>2, <1>4, <2>1
<1> HIDE DEF top, rest, o, all, kept, t
<1>10. CASE l = 1
  <2>1. Mastered(Observed(c, "all")) = [nodes |-> t, active |-> Len(t) - 1, state |-> "completed"]
    BY <1>6, <1>7, <1>8, <1>9, <1>10
  <2>2. t = << >>
    BY <1>7, <1>10, EmptySeq
  <2>3. ChainOK(k, [nodes |-> t, active |-> Len(t) - 1, state |-> "completed"])
    BY <1>7, <2>2, ChainBuilt
  <2>4. Mastered(Observed(c, "all")).nodes = t /\ Mastered(Observed(c, "all")).state = "completed"
    BY <2>1
  <2> QED BY <1>7, <1>10, <2>1, <2>3, <2>4 DEF l
<1>11. CASE l > 1
  <2> DEFINE n == Node(t[Len(t)].depth, FALSE)
             u == [t EXCEPT ![Len(t)] = n]
  <2>1. Len(t) \in Nat \ {0} /\ t # << >> /\ t[Len(t)] \in NodeType
    BY <1>1, <1>7, <1>11, EmptySeq, ElementOfSeq
  <2>2. n \in NodeType /\ n.depth = t[Len(t)].depth /\ n.last = "untried"
    BY <2>1 DEF Node, NodeType, Outcome
  <2>3. Mastered(Observed(c, "all")) = [nodes |-> u, active |-> Len(t) - 1, state |-> "learning"]
    <3>1. top = Len(t) /\ top # 0
      BY <1>6, <1>7, <2>1
    <3> QED BY <1>8, <1>9, <3>1
  <2> HIDE DEF n
  <2>4. NodesOK(k, u) /\ Len(u) = Len(t) /\ u[Len(t)] = n
    BY <1>7, <2>1, <2>2, Relabelled
  <2> HIDE DEF u
  <2>5. u # << >> /\ u[Len(u)].last = "untried"
    BY <2>1, <2>2, <2>4, EmptySeq
  <2>6. ChainOK(k, [nodes |-> u, active |-> Len(u) - 1, state |-> "learning"])
    BY <2>4, <2>5, ChainBuilt
  <2>7. Mastered(Observed(c, "all")).nodes = u /\ Mastered(Observed(c, "all")).state = "learning"
    BY <2>3
  <2>8. l # 1
    BY <1>11
  <2> QED BY <1>7, <2>3, <2>4, <2>6, <2>7, <2>8, Zenon DEF l
<1> QED BY <1>1, <1>10, <1>11

\* on_teacher_response: the chain grows by a deeper node or is given up.
LEMMA AnsweredOK ==
  ASSUME NEW k \in Prompt, NEW c, ChainOK(k, c), c.state = "deepening", NEW a \in Answers(k)
  PROVE  /\ ChainOK(k, Answered(c, a))
         /\ \/ /\ Answered(c, a).state = "learning"
               /\ Len(Answered(c, a).nodes) = Len(c.nodes) + 1
            \/ /\ Answered(c, a).state = "abandoned"
               /\ Len(Answered(c, a).nodes) = Len(c.nodes)
<1> DEFINE s == c.nodes
           l == Len(c.nodes)
<1>1. /\ c = [nodes |-> s, active |-> l - 1, state |-> "deepening"]
      /\ NodesOK(k, s) /\ l \in Nat \ {0} /\ s[l] \in NodeType /\ s # << >>
      /\ s \in Seq(NodeType)
  BY ChainShape DEF ChainOK, NodesOK
<1>2. CASE a.kind = "ids" /\ IsDeeper(c, a.depth)
  <2> DEFINE n == Node(a.depth, FALSE)
             t == Append(s, n)
  <2>1. a.depth \in 0..MaxDepth[k] /\ MaxDepth[k] \in Nat
    BY <1>2, ChainAssumption DEF Answers, Failure, Misrouted, Deeper, ChainAssumption
  <2>2. n \in NodeType /\ n.depth = a.depth /\ n.last = "untried"
    BY <2>1 DEF Node, NodeType, Outcome
  <2>3. n.depth > s[Len(s)].depth /\ n.depth <= MaxDepth[k]
    <3>1. a.depth > c.nodes[Len(c.nodes)].depth
      BY <1>1, <1>2 DEF IsDeeper
    <3> HIDE DEF n
    <3> QED BY <2>1, <2>2, <3>1
  <2>4. Answered(c, a) = [nodes |-> t, active |-> l, state |-> "learning"]
    BY <1>2 DEF Answered
  <2> HIDE DEF n
  <2>5. NodesOK(k, t) /\ Len(t) = l + 1 /\ t[l + 1] = n
    BY <1>1, <2>2, <2>3, Appended
  <2> HIDE DEF t
  <2>6. t # << >> /\ t[Len(t)].last = "untried" /\ Len(t) - 1 = l
    BY <1>1, <2>2, <2>5, EmptySeq
  <2>7. ChainOK(k, [nodes |-> t, active |-> Len(t) - 1, state |-> "learning"])
    BY <2>5, <2>6, ChainBuilt
  <2> QED BY <2>4, <2>5, <2>6, <2>7
<1>3. CASE ~(a.kind = "ids" /\ IsDeeper(c, a.depth))
  <2>1. Answered(c, a) = [nodes |-> s, active |-> l - 1, state |-> "abandoned"]
    BY <1>1, <1>3 DEF Answered
  <2>2. ChainOK(k, [nodes |-> s, active |-> l - 1, state |-> "abandoned"])
    BY <1>1, ChainBuilt
  <2> QED BY <2>1, <2>2
<1> QED BY <1>2, <1>3

\* pending_teacher_requests gives a chain up.
LEMMA AbandonedOK ==
  ASSUME NEW k \in Prompt, NEW c, ChainOK(k, c), c.state = "deepening"
  PROVE  LET d == [c EXCEPT !.state = "abandoned"]
         IN  ChainOK(k, d) /\ d.state = "abandoned" /\ Len(d.nodes) = Len(c.nodes)
<1>1. /\ c = [nodes |-> c.nodes, active |-> Len(c.nodes) - 1, state |-> "deepening"]
      /\ NodesOK(k, c.nodes) /\ c.nodes # << >>
  BY ChainShape DEF ChainOK
<1>2. [c EXCEPT !.state = "abandoned"] =
        [nodes |-> c.nodes, active |-> Len(c.nodes) - 1, state |-> "abandoned"]
  BY <1>1
<1>3. ChainOK(k, [nodes |-> c.nodes, active |-> Len(c.nodes) - 1, state |-> "abandoned"])
  BY <1>1, ChainBuilt
<1> QED BY <1>2, <1>3

-----------------------------------------------------------------------------
(* The pool: one chain put or replaced, and the bags.                      *)

\* Both ways to write a chain back.
LEMMA Stored ==
  ASSUME NEW cs, NEW k \in Prompt, NEW c, NEW after,
         \/ after = Put(cs, k, c)
         \/ k \in DOMAIN cs /\ after = [cs EXCEPT ![k] = c]
  PROVE  /\ DOMAIN after = DOMAIN cs \cup {k} /\ after[k] = c
         /\ \A j \in DOMAIN cs : j # k => after[j] = cs[j]
<1>1. CASE after = Put(cs, k, c)
  BY <1>1 DEF Put
<1>2. CASE k \in DOMAIN cs /\ after = [cs EXCEPT ![k] = c]
  BY <1>2
<1> QED BY <1>1, <1>2

LEMMA StoredOK ==
  ASSUME NEW cs, NEW q, PoolOK(cs, q), NEW k \in Prompt, NEW c, ChainOK(k, c), NEW after,
         \/ after = Put(cs, k, c)
         \/ k \in DOMAIN cs /\ after = [cs EXCEPT ![k] = c],
         NEW r \in [Prompt -> Nat]
  PROVE  PoolOK(after, r)
<1>1. /\ DOMAIN after = DOMAIN cs \cup {k} /\ after[k] = c
      /\ \A j \in DOMAIN cs : j # k => after[j] = cs[j]
  BY Stored
<1>2. \A j \in DOMAIN after : ChainOK(j, after[j])
  BY <1>1 DEF PoolOK
<1> QED BY <1>1, <1>2 DEF PoolOK

LEMMA Counted ==
  ASSUME NEW bag \in [Prompt -> Nat], NEW k \in Prompt
  PROVE  /\ Plus(bag, k) \in [Prompt -> Nat]
         /\ \A j \in Prompt : Plus(bag, k)[j] = IF j = k THEN bag[k] + 1 ELSE bag[j]
         /\ bag[k] > 0 => Minus(bag, k) \in [Prompt -> Nat]
         /\ \A j \in Prompt : Minus(bag, k)[j] = IF j = k THEN bag[k] - 1 ELSE bag[j]
BY DEF Plus, Minus

\* A permit becomes a task, and a task a permit.
LEMMA TaskBegins ==
  ASSUME PermitsOK, BagsOK, permits > 0, NEW k \in Prompt, tasks[k] = 0,
         tasks' = Plus(tasks, k), permits' = permits - 1
  PROVE  PermitsOK'
<1>1. Running' = Running \cup {k} /\ k \notin Running
  BY Counted DEF Running, BagsOK
<1>2. IsFiniteSet(Running') /\ Cardinality(Running') = Cardinality(Running) + 1
  BY <1>1, FS_AddElement DEF PermitsOK
<1>3. Cardinality(Running) \in Nat
  BY FS_CardinalityType DEF PermitsOK
<1> QED BY <1>2, <1>3 DEF PermitsOK

LEMMA TaskEnds ==
  ASSUME PermitsOK, BagsOK, NEW k \in Prompt, tasks[k] = 1,
         tasks' = Minus(tasks, k), permits' = permits + 1
  PROVE  PermitsOK'
<1>1. Running' = Running \ {k} /\ k \in Running
  BY Counted DEF Running, BagsOK
<1>2. IsFiniteSet(Running') /\ Cardinality(Running') = Cardinality(Running) - 1
  BY <1>1, FS_RemoveElement DEF PermitsOK
<1>3. Cardinality(Running) \in Nat
  BY FS_CardinalityType DEF PermitsOK
<1> QED BY <1>2, <1>3 DEF PermitsOK

\* Without tasks every permit is in the semaphore (a new process).
LEMMA NoTasks ==
  ASSUME tasks' = NoBag, permits' = MaxConcurrent
  PROVE  PermitsOK'
<1>1. Running' = {}
  BY DEF Running, NoBag
<1> QED BY <1>1, FS_EmptySet, ChainAssumption DEF PermitsOK, ChainAssumption

-----------------------------------------------------------------------------
(* The actions of the trainer.                                             *)

LEMMA InitInv == Init => Inv
<1> SUFFICES ASSUME Init PROVE Inv
  OBVIOUS
<1>1. NoBag \in [Prompt -> Nat] /\ \A k \in Prompt : NoBag[k] = 0
  BY DEF NoBag
<1>2. PoolOK(chains, queue) /\ SavedOK /\ BagsOK
  BY <1>1 DEF Init, PoolOK, SavedOK, BagsOK
<1>3. OneRequestPerWaitingChain /\ LentOK
  BY <1>1 DEF Init, OneRequestPerWaitingChain, In, LentOK, ReportsReachTheirNode
<1>4. PermitsOK
  <2>1. Running = {}
    BY DEF Init, Running, NoBag
  <2> QED BY <2>1, FS_EmptySet, ChainAssumption DEF Init, PermitsOK, ChainAssumption
<1> QED BY <1>2, <1>3, <1>4, ChainAssumption DEF Init, Inv, ChainAssumption

LEMMA OnMainFailureInv ==
  ASSUME Inv, NEW k \in Prompt, OnMainFailure(k)
  PROVE  Inv'
<1> USE DEF Inv
<1>0. chains' = Put(chains, k, Fresh) /\ k \notin DOMAIN chains
  BY DEF OnMainFailure, Fresh
<1>1. /\ DOMAIN chains' = DOMAIN chains \cup {k} /\ chains'[k] = Fresh
      /\ \A j \in DOMAIN chains : chains'[j] = chains[j]
  <2>1. /\ DOMAIN chains' = DOMAIN chains \cup {k} /\ chains'[k] = Fresh
        /\ \A j \in DOMAIN chains : j # k => chains'[j] = chains[j]
    BY <1>0 DEF Put
  <2> QED BY <1>0, <2>1
<1>2. queue' \in [Prompt -> Nat] /\ \A j \in Prompt : queue'[j] = IF j = k THEN queue[k] + 1 ELSE queue[j]
  BY Counted DEF OnMainFailure, PoolOK
<1>3. PoolOK(chains, queue)'
  BY <1>0, <1>2, FreshOK, StoredOK
<1>4. OneRequestPerWaitingChain'
  <2>1. ASSUME NEW j \in Prompt
        PROVE  queue'[j] + cache'[j] + tasks'[j] = IF j \in In("deepening")' THEN 1 ELSE 0
    <3>1. /\ queue[j] \in Nat /\ cache'[j] = cache[j] /\ tasks'[j] = tasks[j]
          /\ cache[j] \in Nat /\ tasks[j] \in Nat
          /\ queue[j] + cache[j] + tasks[j] = IF j \in In("deepening") THEN 1 ELSE 0
      BY DEF OnMainFailure, PoolOK, BagsOK, OneRequestPerWaitingChain
    <3>2. CASE j = k
      BY <1>0, <1>1, <1>2, <3>1, <3>2, FreshOK DEF In
    <3>3. CASE j # k
      <4>1. j \in In("deepening")' <=> j \in In("deepening")
        BY <1>1, <3>3 DEF In
      <4> QED BY <1>2, <3>1, <3>3, <4>1
    <3> QED BY <3>2, <3>3
  <2> QED BY <2>1 DEF OneRequestPerWaitingChain
<1>5. LentOK'
  BY <1>0, <1>1 DEF OnMainFailure, LentOK, ReportsReachTheirNode, In
<1> QED BY <1>3, <1>4, <1>5 DEF OnMainFailure, SavedOK, BagsOK, PermitsOK, Running

LEMMA SampleInv == ASSUME Inv, Sample PROVE Inv'
<1>1. LentOK'
  BY DEF Sample, LentOK, ReportsReachTheirNode, Learning, In
<1> QED BY <1>1
  DEF Sample, Inv, PoolOK, SavedOK, BagsOK, PermitsOK, Running, OneRequestPerWaitingChain, In

LEMMA RecordObservationInv ==
  ASSUME Inv, NEW k \in Prompt, NEW o \in Outcome \ {"untried"}, NEW f \in BOOLEAN,
         RecordObservation(k, o, f)
  PROVE  Inv'
<1> USE DEF Inv
<1> DEFINE c == chains[k]
<1>1. k \in DOMAIN lent /\ k \in DOMAIN chains /\ c.state = "learning" /\ ChainOK(k, c)
  BY DEF RecordObservation, LentOK, ReportsReachTheirNode, In, PoolOK
<1>2. \E d : /\ ChainOK(k, d) /\ chains' = [chains EXCEPT ![k] = d]
              /\ \/ d.state = "deepening" /\ queue' = Plus(queue, k)
                 \/ d.state # "deepening" /\ queue' = queue
  <2>1. CASE o = "all"
    <3>1. /\ ChainOK(k, Mastered(Observed(c, "all")))
          /\ Mastered(Observed(c, "all")).state # "deepening"
      BY <1>1, MasteredOK
    <3> QED BY <1>1, <2>1, <3>1 DEF RecordObservation, In
  <2>2. CASE o = "none"
    <3>1. ChainOK(k, Stuck(c, f)) /\ Stuck(c, f).state = "deepening"
      BY <1>1, ObservedOK
    <3> QED BY <1>1, <2>2, <3>1 DEF RecordObservation, In
  <2>3. CASE o = "some"
    <3>1. ChainOK(k, Observed(c, "some")) /\ Observed(c, "some").state = "learning"
      BY <1>1, ObservedOK
    <3> QED BY <1>1, <2>3, <3>1 DEF RecordObservation, In
  <2> QED BY <2>1, <2>2, <2>3 DEF Outcome
<1>3. PICK d : /\ ChainOK(k, d) /\ chains' = [chains EXCEPT ![k] = d]
               /\ \/ d.state = "deepening" /\ queue' = Plus(queue, k)
                  \/ d.state # "deepening" /\ queue' = queue
  BY <1>2
<1>4. /\ DOMAIN chains' = DOMAIN chains /\ chains'[k] = d
      /\ \A j \in DOMAIN chains : j # k => chains'[j] = chains[j]
  BY <1>1, <1>3, Stored
<1>5. /\ queue' \in [Prompt -> Nat]
      /\ \A j \in Prompt : queue'[j] = IF j = k /\ d.state = "deepening" THEN queue[k] + 1 ELSE queue[j]
  BY <1>3, Counted DEF PoolOK
<1>6. PoolOK(chains, queue)'
  BY <1>1, <1>3, <1>5, StoredOK
<1>7. OneRequestPerWaitingChain'
  <2>1. ASSUME NEW j \in Prompt
        PROVE  queue'[j] + cache'[j] + tasks'[j] = IF j \in In("deepening")' THEN 1 ELSE 0
    <3>1. /\ queue[j] \in Nat /\ cache'[j] = cache[j] /\ tasks'[j] = tasks[j]
          /\ cache[j] \in Nat /\ tasks[j] \in Nat
          /\ queue[j] + cache[j] + tasks[j] = IF j \in In("deepening") THEN 1 ELSE 0
      BY DEF RecordObservation, PoolOK, BagsOK, OneRequestPerWaitingChain
    <3>2. CASE j = k
      <4>1. k \notin In("deepening") /\ (k \in In("deepening")' <=> d.state = "deepening")
        BY <1>1, <1>4 DEF In
      <4> QED BY <1>5, <3>1, <3>2, <4>1
    <3>3. CASE j # k
      <4>1. j \in In("deepening")' <=> j \in In("deepening")
        BY <1>4, <3>3 DEF In
      <4> QED BY <1>5, <3>1, <3>3, <4>1
    <3> QED BY <3>2, <3>3
  <2> QED BY <2>1 DEF OneRequestPerWaitingChain
<1>8. LentOK'
  BY <1>4 DEF RecordObservation, LentOK, ReportsReachTheirNode, In
<1> QED BY <1>6, <1>7, <1>8 DEF RecordObservation, SavedOK, BagsOK, PermitsOK, Running

LEMMA EndStepInv == ASSUME Inv, EndStep PROVE Inv'
<1>1. LentOK'
  BY DEF EndStep, LentOK, ReportsReachTheirNode
<1> QED BY <1>1
  DEF EndStep, Inv, PoolOK, SavedOK, BagsOK, PermitsOK, Running, OneRequestPerWaitingChain, In

-----------------------------------------------------------------------------
(* The actions of the worker.                                              *)

LEMMA DispatchCounts ==
  ASSUME Inv, permits > 0, NEW batch \in [Prompt -> Nat], Dispatch(batch),
         \A k \in Prompt : batch[k] + tasks[k] <= 1
  PROVE  /\ BagsOK' /\ PermitsOK'
         /\ \A k \in Prompt : cache'[k] + tasks'[k] = batch[k] + tasks[k]
<1> USE DEF Inv
<1>1. ASSUME NEW k \in Prompt, batch[k] > 0, cache' = Minus(batch, k), tasks' = Plus(tasks, k),
             permits' = permits - 1
      PROVE  /\ BagsOK' /\ PermitsOK'
             /\ \A j \in Prompt : cache'[j] + tasks'[j] = batch[j] + tasks[j]
  <2>1. tasks \in [Prompt -> Nat] /\ tasks[k] = 0
    BY <1>1 DEF BagsOK
  <2>2. PermitsOK'
    BY <1>1, <2>1, TaskBegins
  <2>3. /\ cache' \in [Prompt -> Nat] /\ tasks' \in [Prompt -> Nat]
        /\ \A j \in Prompt : cache'[j] = IF j = k THEN batch[k] - 1 ELSE batch[j]
        /\ \A j \in Prompt : tasks'[j] = IF j = k THEN tasks[k] + 1 ELSE tasks[j]
    BY <1>1, <2>1, Counted
  <2>4. ASSUME NEW j \in Prompt PROVE cache'[j] + tasks'[j] = batch[j] + tasks[j]
    <3>1. batch[j] \in Nat /\ tasks[j] \in Nat
      BY <2>1
    <3> QED BY <2>3, <3>1
  <2> QED BY <2>2, <2>3, <2>4 DEF BagsOK
<1>2. CASE batch = NoBag /\ cache' = batch /\ UNCHANGED <<tasks, permits>>
  BY <1>2 DEF BagsOK, PermitsOK, Running
<1> QED BY <1>1, <1>2 DEF Dispatch

\* Hopeless chains are given up, those that can be continued are handed out.
LEMMA FetchNextWorkInv == ASSUME Inv, FetchNextWork PROVE Inv'
<1> USE DEF Inv
<1>0. ASSUME NEW k \in Prompt
      PROVE  /\ queue[k] \in Nat /\ cache[k] \in Nat /\ tasks[k] \in Nat
             /\ queue[k] + cache[k] + tasks[k] = IF k \in In("deepening") THEN 1 ELSE 0
  BY DEF PoolOK, BagsOK, OneRequestPerWaitingChain
<1>1. permits > 0 /\ lent' = lent /\ saved' = saved /\ restarts' = restarts
  BY DEF FetchNextWork
<1>2. CASE cache = NoBag /\ queue # NoBag /\ chains' = AbandonAll(Hopeless) /\ queue' = NoBag /\ Dispatch(Drained)
  <2>1. Drained \in [Prompt -> Nat]
    BY <1>0 DEF Drained
  <2>2. ASSUME NEW k \in Prompt
        PROVE  /\ Drained[k] + tasks[k] <= 1 /\ tasks[k] \in Nat
               /\ Drained[k] = IF k \in In("deepening") /\ HasFailures(k) THEN queue[k] ELSE 0
    BY <1>0 DEF Drained
  <2>3. /\ BagsOK' /\ PermitsOK'
        /\ \A k \in Prompt : cache'[k] + tasks'[k] = Drained[k] + tasks[k]
    BY <1>1, <1>2, <2>1, <2>2, DispatchCounts
  <2>4. /\ DOMAIN chains' = DOMAIN chains
        /\ \A k \in DOMAIN chains :
             chains'[k] = IF k \in Hopeless THEN [chains[k] EXCEPT !.state = "abandoned"] ELSE chains[k]
    BY <1>2 DEF AbandonAll
  <2>5. queue' \in [Prompt -> Nat] /\ \A k \in Prompt : queue'[k] = 0 /\ cache[k] = 0
    BY <1>2 DEF NoBag
  <2>6. PoolOK(chains, queue)'
    <3>1. ASSUME NEW k \in DOMAIN chains PROVE ChainOK(k, chains'[k])
      <4>1. k \in Prompt /\ ChainOK(k, chains[k])
        BY DEF PoolOK
      <4>2. k \in Hopeless => chains[k].state = "deepening"
        BY DEF Hopeless, In
      <4> QED BY <2>4, <4>1, <4>2, AbandonedOK
    <3> QED BY <2>4, <2>5, <3>1 DEF PoolOK
  <2>7. \A k \in DOMAIN chains : /\ k \in Hopeless => chains'[k].state = "abandoned"
                                 /\ k \notin Hopeless => chains'[k] = chains[k]
    <3>1. ASSUME NEW k \in Hopeless PROVE chains'[k].state = "abandoned"
      <4>1. k \in Prompt /\ k \in DOMAIN chains /\ ChainOK(k, chains[k]) /\ chains[k].state = "deepening"
        BY DEF Hopeless, In, PoolOK
      <4>2. chains'[k] = [chains[k] EXCEPT !.state = "abandoned"]
        BY <2>4, <4>1
      <4> QED BY <4>1, <4>2, AbandonedOK
    <3> QED BY <2>4, <3>1
  <2>8. ASSUME NEW k \in Prompt
        PROVE  queue'[k] + cache'[k] + tasks'[k] = IF k \in In("deepening")' THEN 1 ELSE 0
    <3> DEFINE waiting == k \in In("deepening")
    <3>3. /\ queue[k] \in Nat /\ cache[k] = 0 /\ tasks[k] \in Nat
          /\ queue[k] + tasks[k] = IF waiting THEN 1 ELSE 0
      BY <1>0, <2>5
    <3>4. Drained[k] = IF waiting /\ HasFailures(k) THEN queue[k] ELSE 0
      BY <2>2
    <3>0. cache'[k] \in Nat /\ tasks'[k] \in Nat /\ cache'[k] + tasks'[k] = Drained[k] + tasks[k]
      BY <2>3 DEF BagsOK
    <3>1. CASE k \in Hopeless
      <4>1. k \in In("deepening") /\ queue[k] > 0 /\ ~HasFailures(k)
        BY <3>1 DEF Hopeless
      <4>2. k \notin In("deepening")'
        BY <2>4, <2>7, <3>1 DEF In
      <4>3. Drained[k] = 0 /\ tasks[k] = 0
        BY <3>3, <3>4, <4>1
      <4> QED BY <2>5, <3>0, <4>2, <4>3
    <3>2. CASE k \notin Hopeless
      <4>1. k \in In("deepening")' <=> k \in In("deepening")
        BY <2>4, <2>7, <3>2 DEF In
      <4>2. k \in In("deepening") /\ ~HasFailures(k) => queue[k] = 0
        BY <1>0, <3>2 DEF Hopeless
      <4>3. Drained[k] = queue[k]
        <5>1. CASE ~waiting
          BY <3>3, <3>4, <5>1
        <5>2. CASE waiting
          BY <3>4, <4>2, <5>2
        <5> QED BY <5>1, <5>2
      <4> QED BY <2>5, <3>0, <3>3, <4>1, <4>3
    <3> QED BY <3>1, <3>2
  <2>9. LentOK'
    <3>1. ASSUME NEW k \in DOMAIN lent PROVE k \in DOMAIN chains' /\ chains'[k] = chains[k]
      <4>1. k \in DOMAIN chains /\ k \notin Hopeless
        BY DEF LentOK, ReportsReachTheirNode, Hopeless, In
      <4> QED BY <2>4, <2>7, <4>1
    <3> QED BY <1>1, <3>1 DEF LentOK, ReportsReachTheirNode, In
  <2> QED BY <1>1, <2>3, <2>6, <2>8, <2>9 DEF SavedOK, OneRequestPerWaitingChain
<1>3. CASE Dispatch(cache) /\ UNCHANGED <<chains, queue>>
  <2>1. \A k \in Prompt : cache[k] + tasks[k] <= 1
    BY <1>0
  <2>2. /\ BagsOK' /\ PermitsOK'
        /\ \A k \in Prompt : cache'[k] + tasks'[k] = cache[k] + tasks[k]
    BY <1>1, <1>3, <2>1, DispatchCounts DEF BagsOK
  <2>3. ASSUME NEW k \in Prompt
        PROVE  queue'[k] + cache'[k] + tasks'[k] = IF k \in In("deepening")' THEN 1 ELSE 0
    <3>1. cache'[k] \in Nat /\ tasks'[k] \in Nat /\ queue'[k] = queue[k] /\ In("deepening")' = In("deepening")
      BY <1>3, <2>2 DEF BagsOK, In
    <3> QED BY <1>0, <2>2, <3>1
  <2>4. PoolOK(chains, queue)' /\ LentOK'
    BY <1>1, <1>3 DEF PoolOK, LentOK, ReportsReachTheirNode, In
  <2> QED BY <1>1, <2>2, <2>3, <2>4 DEF SavedOK, OneRequestPerWaitingChain
<1> QED BY <1>2, <1>3 DEF FetchNextWork

LEMMA FinishTaskInv ==
  ASSUME Inv, NEW k \in Prompt, NEW a \in Answers(k), FinishTask(k, a)
  PROVE  Inv'
<1> USE DEF Inv
<1>0. ASSUME NEW j \in Prompt
      PROVE  /\ queue[j] \in Nat /\ cache[j] \in Nat /\ tasks[j] \in Nat
             /\ queue[j] + cache[j] + tasks[j] = IF j \in In("deepening") THEN 1 ELSE 0
  BY DEF PoolOK, BagsOK, OneRequestPerWaitingChain
<1>1. tasks[k] = 1 /\ k \in In("deepening")
  <2>1. tasks[k] > 0
    BY DEF FinishTask
  <2> QED BY <1>0, <2>1
<1>2. k \in DOMAIN chains /\ chains[k].state = "deepening" /\ ChainOK(k, chains[k])
  BY <1>1 DEF In, PoolOK
<1> DEFINE d == Answered(chains[k], a)
<1>3. ChainOK(k, d) /\ d.state # "deepening"
  BY <1>2, AnsweredOK
<1>4. chains' = [chains EXCEPT ![k] = d] /\ tasks' = Minus(tasks, k) /\ permits' = permits + 1
  BY <1>1 DEF FinishTask
<1> HIDE DEF d
<1>5. /\ DOMAIN chains' = DOMAIN chains /\ chains'[k] = d
      /\ \A j \in DOMAIN chains : j # k => chains'[j] = chains[j]
  BY <1>2, <1>4, Stored
<1>6. /\ tasks' \in [Prompt -> Nat]
      /\ \A j \in Prompt : tasks'[j] = IF j = k THEN tasks[k] - 1 ELSE tasks[j]
  BY <1>1, <1>4, Counted DEF BagsOK
<1>7. PoolOK(chains, queue)'
  <2>1. queue' \in [Prompt -> Nat]
    BY DEF FinishTask, PoolOK
  <2> QED BY <1>2, <1>3, <1>4, <2>1, StoredOK
<1>8. ASSUME NEW j \in Prompt
      PROVE  queue'[j] + cache'[j] + tasks'[j] = IF j \in In("deepening")' THEN 1 ELSE 0
  <2>1. queue'[j] = queue[j] /\ cache'[j] = cache[j]
    BY DEF FinishTask
  <2>2. CASE j = k
    <3>1. k \notin In("deepening")'
      BY <1>3, <1>5 DEF In
    <3> QED BY <1>0, <1>1, <1>6, <2>1, <2>2, <3>1
  <2>3. CASE j # k
    <3>1. j \in In("deepening")' <=> j \in In("deepening")
      BY <1>5, <2>3 DEF In
    <3> QED BY <1>0, <1>6, <2>1, <2>3, <3>1
  <2> QED BY <2>2, <2>3
<1>9. LentOK'
  <2>1. ASSUME NEW j \in DOMAIN lent PROVE j \in DOMAIN chains' /\ chains'[j] = chains[j]
    BY <1>1, <1>5, <2>1 DEF LentOK, ReportsReachTheirNode, In
  <2> QED BY <2>1 DEF FinishTask, LentOK, ReportsReachTheirNode, In
<1>10. PermitsOK'
  BY <1>1, <1>4, TaskEnds
<1> QED BY <1>6, <1>7, <1>8, <1>9, <1>10 DEF FinishTask, BagsOK, SavedOK, OneRequestPerWaitingChain

-----------------------------------------------------------------------------
(* Checkpoints.                                                            *)

LEMMA SaveInv == ASSUME Inv, Save PROVE Inv'
<1> USE DEF Inv
<1>1. ASSUME NEW k \in Prompt
      PROVE  queue[k] \in {0, 1} /\ (queue[k] = 1 => k \in In("deepening"))
  <2>1. /\ queue[k] \in Nat /\ cache[k] \in Nat /\ tasks[k] \in Nat
        /\ queue[k] + cache[k] + tasks[k] = IF k \in In("deepening") THEN 1 ELSE 0
    BY DEF PoolOK, BagsOK, OneRequestPerWaitingChain
  <2> QED BY <2>1
<1>2. saved'.chains = chains /\ saved'.queue = queue
  BY DEF Save
<1>3. SavedOK'
  BY <1>1, <1>2 DEF SavedOK, PoolOK, In
<1> QED BY <1>3
  DEF Save, PoolOK, BagsOK, PermitsOK, Running, OneRequestPerWaitingChain, In, LentOK, ReportsReachTheirNode

\* The requests the worker held are queued again.
LEMMA RestartInv == ASSUME Inv, Restart PROVE Inv'
<1> USE DEF Inv
<1>1. /\ chains' = saved.chains /\ queue' = RestoredQueue /\ saved' = saved
      /\ cache' = NoBag /\ tasks' = NoBag /\ permits' = MaxConcurrent /\ lent' = << >>
      /\ restarts' \in 0..MaxRestarts
  BY ChainAssumption DEF Restart, ChainAssumption
<1>2. queue' \in [Prompt -> Nat]
      /\ \A k \in Prompt : queue'[k] = IF k \in In("deepening")' THEN 1 ELSE 0
  <2>1. ASSUME NEW k \in Prompt
        PROVE  queue'[k] = IF k \in In("deepening")' THEN 1 ELSE 0
    BY <1>1 DEF RestoredQueue, SavedOK, In
  <2> QED BY <1>1, <2>1 DEF RestoredQueue, SavedOK, PoolOK
<1>3. PoolOK(chains, queue)'
  BY <1>1, <1>2 DEF SavedOK, PoolOK
<1>4. BagsOK' /\ \A k \in Prompt : cache'[k] = 0 /\ tasks'[k] = 0
  BY <1>1 DEF BagsOK, NoBag
<1>5. OneRequestPerWaitingChain'
  BY <1>2, <1>4 DEF OneRequestPerWaitingChain
<1>6. LentOK'
  BY <1>1 DEF LentOK, ReportsReachTheirNode
<1>7. PermitsOK'
  BY <1>1, NoTasks
<1> QED BY <1>1, <1>3, <1>4, <1>5, <1>6, <1>7 DEF SavedOK

LEMMA StutterInv == ASSUME Inv, UNCHANGED vars PROVE Inv'
BY DEF vars, Inv, PoolOK, SavedOK, BagsOK, PermitsOK, Running, OneRequestPerWaitingChain, In,
       LentOK, ReportsReachTheirNode

LEMMA NextInv == Inv /\ [Next]_vars => Inv'
<1> SUFFICES ASSUME Inv, [Next]_vars PROVE Inv'
  OBVIOUS
<1>1. ASSUME TrainerNext PROVE Inv'
  BY <1>1, OnMainFailureInv, SampleInv, RecordObservationInv, EndStepInv, SaveInv DEF TrainerNext
<1>2. ASSUME WorkerNext PROVE Inv'
  BY <1>2, FetchNextWorkInv, FinishTaskInv DEF WorkerNext
<1> QED BY <1>1, <1>2, RestartInv, StutterInv DEF Next

LEMMA Invariance == Spec => []Inv
BY InitInv, NextInv, PTL DEF Spec

-----------------------------------------------------------------------------
(* Theorems.                                                               *)

\* The counterpart of a chain's well-formedness in the model.
LEMMA ChainIsWellFormed ==
  ASSUME NEW k \in Prompt, NEW c, ChainOK(k, c)
  PROVE  WellFormed(c)
BY DEF ChainOK, NodesOK, WellFormed

\* Every node lies as deep as the teacher reaches at most.
LEMMA ActiveDepth ==
  ASSUME NEW k \in Prompt, NEW c, ChainOK(k, c), c.state = "learning"
  PROVE  ActiveNode(c).depth \in 0..MaxDepth[k]
<1>1. /\ NodesOK(k, c.nodes) /\ Len(c.nodes) \in Nat \ {0} /\ ActiveNode(c) = c.nodes[Len(c.nodes)]
      /\ ActiveNode(c) \in NodeType
  BY ChainShape DEF ChainOK
<1>2. Len(c.nodes) \in 1..Len(c.nodes) /\ ActiveNode(c).depth \in Nat
  BY <1>1 DEF NodeType
<1>3. ActiveNode(c).depth <= MaxDepth[k] /\ MaxDepth[k] \in Nat
  BY <1>1, <1>2, ChainAssumption DEF NodesOK, ChainAssumption
<1> QED BY <1>2, <1>3

LEMMA InvProperties ==
  ASSUME Inv
  PROVE  TypeOK /\ ChainsWellFormed /\ ReportsReachTheirNode /\ OneRequestPerWaitingChain
<1>1. ChainsWellFormed
  BY ChainIsWellFormed DEF Inv, PoolOK, SavedOK, ChainsWellFormed
<1>2. PoolType(chains, queue) /\ PoolType(saved.chains, saved.queue)
  BY DEF Inv, SavedOK, PoolOK, ChainOK, PoolType
<1>3. permits \in 0..MaxConcurrent
  <2>1. Cardinality(Running) \in Nat
    BY FS_CardinalityType DEF Inv, PermitsOK
  <2> QED BY <2>1, ChainAssumption DEF Inv, PermitsOK, ChainAssumption
<1>4. DOMAIN lent \subseteq Prompt /\ \A k \in DOMAIN lent : lent[k] \in 0..MaxDepth[k]
  <2>1. ASSUME NEW k \in DOMAIN lent PROVE k \in Prompt /\ lent[k] \in 0..MaxDepth[k]
    <3>1. /\ k \in Prompt /\ ChainOK(k, chains[k]) /\ chains[k].state = "learning"
          /\ lent[k] = ActiveNode(chains[k]).depth
      BY DEF Inv, LentOK, ReportsReachTheirNode, In, PoolOK
    <3> QED BY <3>1, ActiveDepth
  <2> QED BY <2>1
<1> QED BY <1>1, <1>2, <1>3, <1>4 DEF Inv, BagsOK, LentOK, TypeOK

\* The pool, the worker and the checkpoint keep their types; in particular the
\* semaphore never holds more permits than max_concurrent_annotations
\* (_async_main in chain mode).
THEOREM ChainTypes == Spec => []TypeOK
BY InvProperties, Invariance, PTL

\* INV-1 to INV-4 of the pool's docstring hold of every chain, live or saved,
\* whatever order observations, answers, drains and restarts come in
\* (record_observation, _on_master, on_teacher_response, load_state_dict).
THEOREM WellFormedness == Spec => []ChainsWellFormed
BY InvProperties, Invariance, PTL

\* What is reported of a prompt is about the node its chain is still at
\* (sample, record_observation).
THEOREM ReportsArrive == Spec => []ReportsReachTheirNode
BY InvProperties, Invariance, PTL

\* No request for a teacher is lost or duplicated between the pool's queue,
\* the worker's cache and its tasks (pending_teacher_requests,
\* _fetch_next_work, load_state_dict).
THEOREM OneRequest == Spec => []OneRequestPerWaitingChain
BY InvProperties, Invariance, PTL

-----------------------------------------------------------------------------
(* The life cycle of the docstring.                                        *)

\* after is cs with the chain of k written.
Written(cs, k, d, after) ==
  /\ DOMAIN after = DOMAIN cs \cup {k} /\ after[k] = d
  /\ \A j \in DOMAIN cs : j # k => after[j] = cs[j]

\* What the life cycle sees of a pool in which one chain was written.
LEMMA OneMoves ==
  ASSUME NEW cs, NEW k \in Prompt, NEW d, NEW after,
         Written(cs, k, d, after)
  PROVE  /\ PhaseIn(after) = [PhaseIn(cs) EXCEPT ![k] = d.state]
         /\ HeightIn(after) = [HeightIn(cs) EXCEPT ![k] = Len(d.nodes)]
BY DEF Written, PhaseIn, HeightIn

\* One chain written is a step of the life cycle if its phase and its height
\* change as one of the transitions says.
LEMMA OneTransition ==
  ASSUME NEW k \in Prompt, NEW d, saved' = saved,
         Written(chains, k, d, chains'),
         NEW from, PhaseIn(chains)[k] = from, NEW h, HeightIn(chains)[k] = h,
         \/ from = "absent" /\ d.state = "deepening" /\ Len(d.nodes) = 1
         \/ from = "deepening" /\ d.state = "learning" /\ Len(d.nodes) = h + 1
         \/ from = "learning" /\ d.state = "deepening" /\ Len(d.nodes) = h
         \/ from = "learning" /\ d.state = "learning" /\ h > 1 /\ Len(d.nodes) = h - 1
         \/ from = "learning" /\ d.state = "completed" /\ h = 1 /\ Len(d.nodes) = 0
  PROVE  Life!LifeNext
<1>1. /\ PhaseIn(chains') = [PhaseIn(chains) EXCEPT ![k] = d.state]
      /\ HeightIn(chains') = [HeightIn(chains) EXCEPT ![k] = Len(d.nodes)]
  BY OneMoves
<1>2. Life!Move(k, from, d.state, Len(d.nodes))
  BY <1>1 DEF Life!Move
<1>3. Life!Create(k) \/ Life!Deepen(k) \/ Life!Stick(k) \/ Life!Retreat(k) \/ Life!Complete(k)
  BY <1>2 DEF Life!Create, Life!Deepen, Life!Stick, Life!Retreat, Life!Complete
<1> QED BY <1>3 DEF Life!LifeNext

LEMMA RecordObservationLives ==
  ASSUME Inv, NEW k \in Prompt, NEW o \in Outcome \ {"untried"}, NEW f \in BOOLEAN,
         RecordObservation(k, o, f)
  PROVE  [Life!LifeNext]_(Life!lifeVars)
<1> DEFINE c == chains[k]
<1>1. k \in DOMAIN chains /\ c.state = "learning" /\ ChainOK(k, c) /\ k \in In("learning")
  BY DEF Inv, RecordObservation, LentOK, ReportsReachTheirNode, In, PoolOK
<1>2. /\ saved' = saved /\ PhaseIn(chains)[k] = "learning" /\ HeightIn(chains)[k] = Len(c.nodes)
      /\ Len(c.nodes) \in Nat \ {0}
  BY <1>1, ChainShape DEF RecordObservation, PhaseIn, HeightIn, ChainOK
<1>3. CASE o = "all"
  <2> DEFINE d == Mastered(Observed(c, "all"))
  <2>1. /\ Len(d.nodes) = Len(c.nodes) - 1
        /\ d.state = IF Len(c.nodes) = 1 THEN "completed" ELSE "learning"
    BY <1>1, MasteredOK
  <2>2. Written(chains, k, d, chains')
    BY <1>1, <1>3 DEF RecordObservation, Written
  <2> HIDE DEF d
  <2>3. CASE Len(c.nodes) = 1
    <3>1. d.state = "completed" /\ Len(d.nodes) = 0
      BY <2>1, <2>3
    <3> QED BY <1>2, <2>2, <2>3, <3>1, OneTransition
  <2>4. CASE Len(c.nodes) > 1
    <3>1. \A n : n > 1 => n # 1
      OBVIOUS
    <3>2. d.state = "learning" /\ Len(d.nodes) = Len(c.nodes) - 1
      BY <2>1, <2>4, <3>1, Zenon
    <3> QED BY <1>2, <2>2, <2>4, <3>2, OneTransition
  <2>5. Len(c.nodes) = 1 \/ Len(c.nodes) > 1
    <3>1. \A n \in Nat \ {0} : n = 1 \/ n > 1
      OBVIOUS
    <3> QED BY <1>2, <3>1, Zenon
  <2> QED BY <2>3, <2>4, <2>5
<1>4. CASE o = "none"
  <2>1. Stuck(c, f).state = "deepening" /\ Len(Stuck(c, f).nodes) = Len(c.nodes)
    BY <1>1, ObservedOK
  <2>2. Written(chains, k, Stuck(c, f), chains')
    BY <1>1, <1>4 DEF RecordObservation, Written
  <2> QED BY <1>1, <1>2, <2>1, <2>2, OneTransition
\* Some succeeded: nothing the life cycle sees.
<1>5. CASE o = "some"
  <2>1. Observed(c, "some").state = "learning" /\ Len(Observed(c, "some").nodes) = Len(c.nodes)
    BY <1>1, ObservedOK
  <2>2. Written(chains, k, Observed(c, "some"), chains')
    BY <1>1, <1>5 DEF RecordObservation, Written
  <2> DEFINE d == Observed(c, "some")
  <2>3. /\ PhaseIn(chains') = [PhaseIn(chains) EXCEPT ![k] = d.state]
        /\ HeightIn(chains') = [HeightIn(chains) EXCEPT ![k] = Len(d.nodes)]
    BY <2>2, OneMoves
  <2>4. PhaseIn(chains') = PhaseIn(chains) /\ HeightIn(chains') = HeightIn(chains)
    <3> HIDE DEF d
    <3> QED BY <1>2, <2>1, <2>3 DEF PhaseIn, HeightIn, d
  <2> QED BY <1>2, <2>4 DEF Life!lifeVars
<1> QED BY <1>3, <1>4, <1>5 DEF Outcome

LEMMA FetchNextWorkLives == ASSUME Inv, FetchNextWork PROVE [Life!LifeNext]_(Life!lifeVars)
<1>1. saved' = saved
  BY DEF FetchNextWork
<1>2. CASE chains' = AbandonAll(Hopeless)
  <2>1. /\ DOMAIN chains' = DOMAIN chains
        /\ \A k \in DOMAIN chains :
             chains'[k] = IF k \in Hopeless THEN [chains[k] EXCEPT !.state = "abandoned"] ELSE chains[k]
    BY <1>2 DEF AbandonAll
  <2>2. \A k \in Hopeless : k \in DOMAIN chains /\ k \in Prompt /\ chains[k].state = "deepening"
    BY DEF Hopeless, In, Inv, PoolOK
  <2>3. \A k \in Hopeless : chains'[k].state = "abandoned" /\ Len(chains'[k].nodes) = Len(chains[k].nodes)
    <3>1. ASSUME NEW k \in Hopeless
          PROVE chains'[k].state = "abandoned" /\ Len(chains'[k].nodes) = Len(chains[k].nodes)
      <4>1. k \in Prompt /\ ChainOK(k, chains[k]) /\ chains[k].state = "deepening"
            /\ chains'[k] = [chains[k] EXCEPT !.state = "abandoned"]
        BY <2>1, <2>2 DEF Inv, PoolOK
      <4> QED BY <4>1, AbandonedOK
    <3> QED BY <3>1
  <2>4. PhaseIn(chains') = [k \in Prompt |-> IF k \in Hopeless THEN "abandoned" ELSE PhaseIn(chains)[k]]
    BY <2>1, <2>2, <2>3 DEF PhaseIn
  <2>5. HeightIn(chains') = HeightIn(chains)
    BY <2>1, <2>2, <2>3 DEF HeightIn
  <2>6. Hopeless \in SUBSET Prompt /\ \A k \in Hopeless : PhaseIn(chains)[k] = "deepening"
    BY <2>2 DEF PhaseIn
  <2>7. Life!Abandon(Hopeless)
    BY <1>1, <2>4, <2>5, <2>6 DEF Life!Abandon
  <2> QED BY <2>6, <2>7 DEF Life!LifeNext
<1>3. CASE chains' = chains
  BY <1>1, <1>3 DEF Life!lifeVars
<1> QED BY <1>2, <1>3 DEF FetchNextWork

LEMMA FinishTaskLives ==
  ASSUME Inv, NEW k \in Prompt, NEW a \in Answers(k), FinishTask(k, a)
  PROVE  [Life!LifeNext]_(Life!lifeVars)
<1> DEFINE c == chains[k]
           d == Answered(c, a)
<1>1. saved' = saved
  BY DEF FinishTask
<1>2. CASE k \in In("deepening")
  <2>1. k \in DOMAIN chains /\ c.state = "deepening" /\ ChainOK(k, c)
    BY <1>2 DEF Inv, In, PoolOK
  <2>2. \/ d.state = "learning" /\ Len(d.nodes) = Len(c.nodes) + 1
        \/ d.state = "abandoned" /\ Len(d.nodes) = Len(c.nodes)
    BY <2>1, AnsweredOK
  <2>3. Written(chains, k, d, chains')
    BY <1>2, <2>1 DEF FinishTask, Written
  <2>4. PhaseIn(chains)[k] = "deepening" /\ HeightIn(chains)[k] = Len(c.nodes)
    BY <2>1 DEF PhaseIn, HeightIn
  <2> HIDE DEF d
  <2>5. CASE d.state = "learning" /\ Len(d.nodes) = Len(c.nodes) + 1
    BY <1>1, <2>1, <2>3, <2>4, <2>5, OneTransition
  <2>6. CASE d.state = "abandoned" /\ Len(d.nodes) = Len(c.nodes)
    <3>1. /\ PhaseIn(chains') = [PhaseIn(chains) EXCEPT ![k] = d.state]
          /\ HeightIn(chains') = [HeightIn(chains) EXCEPT ![k] = Len(d.nodes)]
      BY <2>3, OneMoves
    <3>2. PhaseIn(chains') = [j \in Prompt |-> IF j \in {k} THEN "abandoned" ELSE PhaseIn(chains)[j]]
      BY <2>6, <3>1 DEF PhaseIn
    <3>3. HeightIn(chains') = HeightIn(chains)
      BY <2>4, <2>6, <3>1 DEF HeightIn
    <3>4. Life!Abandon({k})
      BY <1>1, <2>4, <3>2, <3>3 DEF Life!Abandon
    <3>5. {k} \in SUBSET Prompt
      OBVIOUS
    <3> QED BY <3>4, <3>5 DEF Life!LifeNext
  <2> QED BY <2>2, <2>5, <2>6
<1>3. CASE k \notin In("deepening")
  BY <1>1, <1>3 DEF FinishTask, Life!lifeVars
<1> QED BY <1>2, <1>3

LEMMA StepLives == Inv /\ [Next]_vars => [Life!LifeNext]_(Life!lifeVars)
<1> SUFFICES ASSUME Inv, [Next]_vars PROVE [Life!LifeNext]_(Life!lifeVars)
  OBVIOUS
<1>1. ASSUME NEW k \in Prompt, OnMainFailure(k) PROVE Life!LifeNext
  <2>1. /\ Written(chains, k, Fresh, chains') /\ saved' = saved
        /\ PhaseIn(chains)[k] = "absent" /\ HeightIn(chains)[k] = 0
    BY <1>1 DEF OnMainFailure, Fresh, Put, Written, PhaseIn, HeightIn
  <2> QED BY <2>1, FreshOK, OneTransition
<1>2. CASE Sample \/ EndStep \/ UNCHANGED vars
  BY <1>2 DEF Sample, EndStep, vars, Life!lifeVars
<1>3. CASE Save
  <2>1. Life!Checkpoint
    BY <1>3 DEF Save, Life!Checkpoint
  <2> QED BY <2>1 DEF Life!LifeNext
<1>4. CASE Restart
  <2>1. Life!Rewind
    BY <1>4 DEF Restart, Life!Rewind
  <2> QED BY <2>1 DEF Life!LifeNext
<1>5. ASSUME TrainerNext PROVE [Life!LifeNext]_(Life!lifeVars)
  BY <1>1, <1>2, <1>3, <1>5, RecordObservationLives DEF TrainerNext
<1>6. ASSUME WorkerNext PROVE [Life!LifeNext]_(Life!lifeVars)
  BY <1>6, FetchNextWorkLives, FinishTaskLives DEF WorkerNext
<1> QED BY <1>2, <1>4, <1>5, <1>6 DEF Next

\* Every behaviour of the pool, its clients and its checkpoints is a behaviour
\* of the state machine in the pool's docstring.
THEOREM FollowsLifecycle == Spec => ImplementsLifecycle
<1>1. Init => Life!LifeInit
  BY DEF Init, Life!LifeInit, PhaseIn, HeightIn
<1> QED BY <1>1, StepLives, Invariance, PTL DEF Spec, ImplementsLifecycle, Life!LifeSpec
=============================================================================
