----------------------- MODULE PrefixForestPool_proofs -----------------------
(***************************************************************************)
(* Theorems about PrefixForestPool for every set of prompts and tokens and *)
(* every value of the other constants, and at the end about the histories  *)
(* that ForestLru adds to it.                                              *)
(***************************************************************************)
EXTENDS ForestLru, FiniteSetTheorems, TLAPS

\* The finite answers of the general client are token sequences.
LEMMA AnswerTyping ==
  ASSUME PoolAssumption, NEW a \in Answers, a # NoAnswer
  PROVE  a.prefix \in Seq(Token) /\ a.suffix \in BOOLEAN
<1>1. PICK p \in AnswerPrefixes, s \in BOOLEAN : a = Answer(p, s)
  BY DEF Answers
<1>2. PICK n \in 0..(MaxPrefixLen + 1) : p \in [1..n -> Token]
  BY DEF AnswerPrefixes
<1>3. p \in Seq(Token)
  BY <1>2, PoolAssumption DEF PoolAssumption
<1> QED BY <1>1, <1>3 DEF Answer

\* A step of any client that keeps to the protocol of the pool.  The bounds of
\* Next (MaxStep aside) are no part of it, nor is the order of its calls.
ClientStep ==
  \/ NextStep
  \/ \E n \in 1..InjectSlots : Sample(n)
  \/ \E k \in Prompt, o \in Outcomes : RecordRootObservation(k, o[1], o[2])
  \/ \E r \in lent, o \in Outcomes : RecordObservation(r[1], r[2], o[1], o[2])
  \/ CleanupInactiveTrees
  \/ SampleSuffixSft(SftSlots)
  \/ \E r \in sftLent : RecordSuffixSft(r[1], r[2])
  \/ ClearTeacherEvents /\ \E lo, hi : sftLent' = FrozenRoutes(lo, hi)
  \/ \E routes \in FullBatches : MarkSuffixSftSampled(routes)
  \/ \E s \in TeacherSteps : PendingTeacherRequests(DispatchSlots, s)
  \/ \E e \in owed, a \in Answers, s \in TeacherSteps : OnTeacherResponse(e, a, s)
  \/ UNCHANGED vars

LEMMA NextIsClientStep == [Next]_vars => ClientStep
BY DEF Next, TrainerNext, WorkerNext, ClientStep

-----------------------------------------------------------------------------
(* Type correctness.                                                       *)

\* Updating one field of a typed record keeps it typed.
LEMMA TreeStamped ==
  ASSUME NEW t \in TreeType, NEW s \in Stamp
  PROVE  /\ [t EXCEPT !.lastRollout = s] \in TreeType
         /\ [t EXCEPT !.lastTeacher = s] \in TreeType
         /\ [t EXCEPT !.lastSft = s] \in TreeType
BY DEF TreeType

LEMMA NodeStamped ==
  ASSUME NEW n \in NodeType, NEW s \in Stamp, NEW b \in BOOLEAN
  PROVE  /\ [n EXCEPT !.lastRollout = s] \in NodeType
         /\ [n EXCEPT !.lastTeacher = s] \in NodeType
         /\ [n EXCEPT !.lastSft = s] \in NodeType
         /\ [n EXCEPT !.lastRollout = s, !.active = b] \in NodeType
<1>1. [n EXCEPT !.lastRollout = s] \in NodeType BY DEF NodeType
<1>2. [n EXCEPT !.lastTeacher = s] \in NodeType BY DEF NodeType
<1>3. [n EXCEPT !.lastSft = s] \in NodeType BY DEF NodeType
<1>4. [n EXCEPT !.lastRollout = s, !.active = b] \in NodeType BY DEF NodeType
<1> QED BY <1>1, <1>2, <1>3, <1>4

LEMMA NodeTrained ==
  ASSUME NEW n \in NodeType
  PROVE  [n EXCEPT !.sftUpdates = @ + 1] \in NodeType
BY DEF NodeType

LEMMA InitTypeOK == PoolAssumption /\ Init => TypeOK
BY DEF PoolAssumption, Init, TypeOK, Counters, NodeId, EventId

LEMMA NextStepTypeOK ==
  ASSUME TypeOK, NextStep
  PROVE  TypeOK'
<1> USE DEF NextStep, poolVars
<1>1. step' \in Nat /\ 0..step \subseteq 0..step' /\ Stamp \subseteq Stamp'
  BY DEF TypeOK, Stamp
<1>2. NodeId' = NodeId /\ EventId' = EventId
  BY DEF NodeId, EventId
<1>3. \A k \in DOMAIN trees : trees[k] \in TreeType'
  BY <1>1, <1>2 DEF TypeOK, TreeType
<1>4. \A n \in DOMAIN nodes : nodes[n] \in NodeType'
  BY <1>1, <1>2 DEF TypeOK, NodeType
<1>5. \A e \in DOMAIN events : events[e] \in EventType'
  BY <1>1, <1>2 DEF TypeOK, EventType
<1> QED BY <1>1, <1>2, <1>3, <1>4, <1>5 DEF TypeOK, TreeType, NodeType, EventType

LEMMA SampleTypeOK ==
  ASSUME TypeOK, NEW n, Sample(n)
  PROVE  TypeOK'
<1>0. PICK chosen \in SUBSET Eligible : \E pick \in [chosen -> DOMAIN nodes] :
        SampleEffect(chosen, pick)
  BY DEF Sample
<1>1. PICK pick \in [chosen -> DOMAIN nodes] : SampleEffect(chosen, pick)
  BY <1>0
<1> USE DEF SampleEffect
<1>2. step \in Stamp /\ chosen \subseteq Prompt /\ DOMAIN nodes \subseteq NodeId
  BY DEF TypeOK, Stamp, Eligible, ReadyTrees
<1>3. \A k \in DOMAIN trees' : trees'[k] \in TreeType
  BY <1>1, <1>2, TreeStamped DEF TypeOK
<1>4. \A m \in DOMAIN nodes' : nodes'[m] \in NodeType
  BY <1>1, <1>2, NodeStamped DEF TypeOK
<1>5. lent' \subseteq Prompt \X NodeId
  BY <1>1, <1>2 DEF TypeOK
<1> QED BY <1>1, <1>3, <1>4, <1>5 DEF TypeOK, TreeType, NodeType, EventType, Stamp, NodeId, EventId

\* When ids are only given out and the step only advances, what had a type
\* before the step has it after the step.
LEMMA TypesGrow ==
  ASSUME TypeOK, nodeCount' \in Nat, nodeCount <= nodeCount', step' \in Nat, step <= step',
         count' \in [Counters -> Nat], count.enqueued <= count'.enqueued
  PROVE  /\ TreeType \subseteq TreeType' /\ NodeType \subseteq NodeType'
         /\ EventType \subseteq EventType'
         /\ NodeId \subseteq NodeId' /\ EventId \subseteq EventId'
<1>1. NodeId \subseteq NodeId' BY DEF TypeOK, NodeId
<1>2. EventId \subseteq EventId' BY DEF TypeOK, EventId, Counters
<1>3. 0..step \subseteq 0..step' /\ Stamp \subseteq Stamp' BY DEF TypeOK, Stamp
<1>4. TreeType \subseteq TreeType' BY <1>1, <1>3 DEF TreeType
<1>5. NodeType \subseteq NodeType' BY <1>1, <1>3 DEF NodeType
<1>6. EventType \subseteq EventType' BY <1>1, <1>3 DEF EventType
<1> QED BY <1>1, <1>2, <1>4, <1>5, <1>6

LEMMA EventIdFinite ==
  ASSUME TypeOK
  PROVE  IsFiniteSet(EventId)
<1>1. count.enqueued \in Int
  BY DEF TypeOK, Counters
<1> QED BY <1>1, FS_Interval DEF EventId

LEMMA EventsFinite ==
  ASSUME TypeOK
  PROVE  IsFiniteSet(DOMAIN events) /\ Cardinality(DOMAIN events) \in Nat
<1>1. DOMAIN events \in SUBSET EventId
  BY DEF TypeOK
<1>2. IsFiniteSet(DOMAIN events)
  BY <1>1, EventIdFinite, FS_Subset
<1> QED BY <1>2, FS_CardinalityType

LEMMA AddTyping ==
  ASSUME TypeOK, NEW c \in Counters, NEW n \in Nat
  PROVE  /\ Add(c, n) \in [Counters -> Nat]
         /\ Add(c, n)[c] = count[c] + n
         /\ \A d \in Counters \ {c} : Add(c, n)[d] = count[d]
BY DEF TypeOK, Add

LEMMA BumpTyping ==
  ASSUME TypeOK, NEW cs
  PROVE  /\ Bump(cs) \in [Counters -> Nat]
         /\ \A c \in Counters : Bump(cs)[c] = count[c] + (IF c \in cs THEN 1 ELSE 0)
BY DEF TypeOK, Bump

\* What Observe leaves behind, for any nodes it is applied to.
LEMMA ObserveTyping ==
  ASSUME TypeOK, step' = step, nodeCount' \in Nat, nodeCount <= nodeCount',
         NEW ns, NEW k \in Prompt, NEW n \in DOMAIN ns, NEW bad \in Nat, NEW m \in Nat,
         DOMAIN ns \subseteq NodeId', \A x \in DOMAIN ns : ns[x] \in NodeType',
         Observe(ns, k, n, bad, m)
  PROVE  /\ count' \in [Counters -> Nat] /\ count.enqueued <= count'.enqueued
         /\ DOMAIN nodes' = DOMAIN ns /\ \A x \in DOMAIN nodes' : nodes'[x] \in NodeType'
         /\ DOMAIN events' \subseteq EventId' /\ \A e \in DOMAIN events' : events'[e] \in EventType'
         /\ queue' \in [Prompt -> SUBSET EventId']
<1>1. step \in Stamp' /\ step \in 0..step'
  BY DEF TypeOK, Stamp
<1>2. DOMAIN nodes' = DOMAIN ns /\ \A x \in DOMAIN nodes' : nodes'[x] \in NodeType'
  <2> DEFINE seen == [ns[n] EXCEPT !.lastRollout = step, !.active = (bad > 0)]
  <2>1. seen \in NodeType'
    <3> DEFINE failed == bad > 0
    <3>1. failed \in BOOLEAN /\ ns[n] \in NodeType'
      OBVIOUS
    <3> HIDE DEF failed
    <3>2. [ns[n] EXCEPT !.lastRollout = step, !.active = failed] \in NodeType'
      BY <1>1, <3>1 DEF NodeType
    <3> QED BY <3>2 DEF failed
  <2>2. nodes' = [ns EXCEPT ![n] = seen]
    BY DEF Observe
  <2> HIDE DEF seen
  <2> QED BY <2>1, <2>2
<1>3. CASE bad > 0
  <2> DEFINE new == (count.enqueued + 1)..(count.enqueued + m)
  <2>1. EnqueueEvents(k, n, m)
    BY <1>3 DEF Observe
  <2>2. count' \in [Counters -> Nat] /\ count'.enqueued = count.enqueued + m
    BY <2>1, AddTyping DEF EnqueueEvents, Counters
  <2>3. count.enqueued \in Nat
    BY DEF TypeOK, Counters
  <2>4. EventType \subseteq EventType' /\ EventId \subseteq EventId'
    BY <2>2, <2>3, TypesGrow DEF TypeOK
  <2>5. new \subseteq EventId'
    BY <2>2, <2>3 DEF EventId
  <2>6. [tree |-> k, parent |-> n, created |-> step, inFlight |-> FALSE] \in EventType'
    BY <1>1 DEF EventType
  <2>7. DOMAIN events' = DOMAIN events \cup new
    BY <2>1 DEF EnqueueEvents
  <2>8. \A e \in DOMAIN events' : events'[e] \in EventType'
    BY <2>1, <2>4, <2>6 DEF EnqueueEvents, TypeOK
  <2>9. queue' \in [Prompt -> SUBSET EventId']
    BY <2>1, <2>4, <2>5 DEF EnqueueEvents, TypeOK
  <2> QED BY <1>2, <2>2, <2>3, <2>4, <2>5, <2>7, <2>8, <2>9 DEF TypeOK
<1>4. CASE ~(bad > 0)
  <2>1. UNCHANGED <<events, queue, count>>
    BY <1>4 DEF Observe
  <2>2. count.enqueued \in Nat
    BY DEF TypeOK, Counters
  <2>3. EventType \subseteq EventType' /\ EventId \subseteq EventId'
    BY <2>1, <2>2, TypesGrow DEF TypeOK
  <2> QED BY <1>2, <2>1, <2>2, <2>3 DEF TypeOK
<1> QED BY <1>3, <1>4

LEMMA RecordRootObservationTypeOK ==
  ASSUME TypeOK, NEW k \in Prompt, NEW bad \in Nat, NEW m \in Nat,
         TreesHaveRoots, RecordRootObservation(k, bad, m)
  PROVE  TypeOK'
<1>1. CASE k \in DOMAIN trees /\ Observe(nodes, k, trees[k].root, bad, m) /\ UNCHANGED <<trees, nodeCount>>
  <2>1. trees[k].root \in DOMAIN nodes
    BY <1>1 DEF TreesHaveRoots, NodesOf
  <2>2. UNCHANGED <<step, owed, lent, sftLent>>
    BY DEF RecordRootObservation
  <2>3. NodeId' = NodeId /\ NodeType' = NodeType /\ TreeType' = TreeType
    BY <1>1, <2>2 DEF NodeId, NodeType, TreeType, Stamp
  <2>4. /\ count' \in [Counters -> Nat] /\ count.enqueued <= count'.enqueued
        /\ DOMAIN nodes' = DOMAIN nodes /\ \A x \in DOMAIN nodes' : nodes'[x] \in NodeType'
        /\ DOMAIN events' \subseteq EventId' /\ \A e \in DOMAIN events' : events'[e] \in EventType'
        /\ queue' \in [Prompt -> SUBSET EventId']
    BY <1>1, <2>1, <2>2, <2>3, ObserveTyping DEF TypeOK
  <2>5. EventId \subseteq EventId'
    BY <1>1, <2>2, <2>4, TypesGrow DEF TypeOK
  <2> QED BY <1>1, <2>2, <2>3, <2>4, <2>5 DEF TypeOK
<1>2. CASE /\ k \notin DOMAIN trees
           /\ nodeCount' = nodeCount + 1
           /\ trees' = Put(trees, k, NewTree(nodeCount'))
           /\ Observe(Put(nodes, nodeCount', NewNode(k, NoParent, << >>, FALSE, step)), k, nodeCount', bad, m)
  <2> DEFINE ns == Put(nodes, nodeCount', NewNode(k, NoParent, << >>, FALSE, step))
  <2>1. UNCHANGED <<step, owed, lent, sftLent>>
    BY DEF RecordRootObservation
  <2>2. nodeCount' \in Nat /\ nodeCount <= nodeCount' /\ nodeCount' \in NodeId'
    BY <1>2 DEF TypeOK, NodeId
  <2>3. NodeId \subseteq NodeId' /\ NodeType \subseteq NodeType'
    <3>1. 0..step \subseteq 0..step' /\ Stamp \subseteq Stamp' /\ NodeId \subseteq NodeId'
      BY <2>1, <2>2 DEF Stamp, NodeId, TypeOK
    <3> QED BY <3>1 DEF NodeType
  <2>4. NewNode(k, NoParent, << >>, FALSE, step) \in NodeType'
    BY <2>1 DEF NewNode, NodeType, Stamp, Never, TypeOK
  <2>5. DOMAIN ns = DOMAIN nodes \cup {nodeCount'} /\ \A x \in DOMAIN ns : ns[x] \in NodeType'
    BY <2>3, <2>4 DEF Put, TypeOK
  <2>6. DOMAIN ns \subseteq NodeId'
    BY <2>2, <2>3, <2>5 DEF TypeOK
  <2>7. Observe(ns, k, nodeCount', bad, m)
    BY <1>2
  <2> HIDE DEF ns
  <2>8. /\ count' \in [Counters -> Nat] /\ count.enqueued <= count'.enqueued
        /\ DOMAIN nodes' = DOMAIN ns /\ \A x \in DOMAIN nodes' : nodes'[x] \in NodeType'
        /\ DOMAIN events' \subseteq EventId' /\ \A e \in DOMAIN events' : events'[e] \in EventType'
        /\ queue' \in [Prompt -> SUBSET EventId']
    BY <2>1, <2>2, <2>5, <2>6, <2>7, ObserveTyping
  <2>9. /\ TreeType \subseteq TreeType' /\ EventId \subseteq EventId'
    BY <2>1, <2>2, <2>8, TypesGrow DEF TypeOK
  <2>10. NewTree(nodeCount') \in TreeType'
    BY <2>1, <2>2 DEF NewTree, TreeType, Stamp, Never, TypeOK
  <2>11. DOMAIN trees' \subseteq Prompt /\ \A j \in DOMAIN trees' : trees'[j] \in TreeType'
    BY <1>2, <2>9, <2>10 DEF Put, TypeOK
  <2> QED BY <2>1, <2>2, <2>3, <2>6, <2>8, <2>9, <2>11 DEF TypeOK
<1>3. CASE UNCHANGED poolVars
  BY <1>3 DEF RecordRootObservation, poolVars, TypeOK, TreeType, NodeType, EventType, Stamp, NodeId, EventId
<1> QED BY <1>1, <1>2, <1>3 DEF RecordRootObservation

LEMMA RecordObservationTypeOK ==
  ASSUME TypeOK, NEW k \in Prompt, NEW n, NEW bad \in Nat, NEW m \in Nat,
         RecordObservation(k, n, bad, m)
  PROVE  TypeOK'
<1>1. UNCHANGED <<step, owed, sftLent>> /\ lent' \subseteq lent
  BY DEF RecordObservation
<1>2. CASE n \in NodesOf(k) /\ Observe(nodes, k, n, bad, m) /\ UNCHANGED <<trees, nodeCount>>
  <2>1. n \in DOMAIN nodes
    BY <1>2 DEF NodesOf
  <2>2. NodeId' = NodeId /\ NodeType' = NodeType /\ TreeType' = TreeType
    BY <1>1, <1>2 DEF NodeId, NodeType, TreeType, Stamp
  <2>3. /\ count' \in [Counters -> Nat] /\ count.enqueued <= count'.enqueued
        /\ DOMAIN nodes' = DOMAIN nodes /\ \A x \in DOMAIN nodes' : nodes'[x] \in NodeType'
        /\ DOMAIN events' \subseteq EventId' /\ \A e \in DOMAIN events' : events'[e] \in EventType'
        /\ queue' \in [Prompt -> SUBSET EventId']
    BY <1>1, <1>2, <2>1, <2>2, ObserveTyping DEF TypeOK
  <2>4. EventId \subseteq EventId'
    BY <1>1, <1>2, <2>3, TypesGrow DEF TypeOK
  <2> QED BY <1>1, <1>2, <2>2, <2>3, <2>4 DEF TypeOK
<1>3. CASE UNCHANGED poolVars
  BY <1>1, <1>3 DEF poolVars, TypeOK, TreeType, NodeType, EventType, Stamp, NodeId, EventId
<1> QED BY <1>2, <1>3 DEF RecordObservation

LEMMA PendingTeacherRequestsTypeOK ==
  ASSUME TypeOK, NEW maxItems, NEW s \in TeacherSteps, PendingTeacherRequests(maxItems, s),
         PoolAssumption
  PROVE  TypeOK'
<1> DEFINE candidates == {k \in DOMAIN trees : SelectedEvents(k) # {}}
<1>1. PICK chosen \in SUBSET candidates : \E pick \in [chosen -> DOMAIN events] :
        DispatchEffect({pick[k] : k \in chosen}, s)
  BY DEF PendingTeacherRequests
<1>2. PICK pick \in [chosen -> DOMAIN events] : DispatchEffect({pick[k] : k \in chosen}, s)
  BY <1>1
<1> DEFINE out == {pick[k] : k \in chosen}
<1>3. out \subseteq DOMAIN events /\ DispatchEffect(out, s)
  BY <1>2
<1>4. Cardinality(out) \in Nat
  <2>1. IsFiniteSet(EventId)
    BY EventIdFinite
  <2>2. out \subseteq EventId
    BY <1>3 DEF TypeOK
  <2> QED BY <2>1, <2>2, FS_Subset, FS_CardinalityType
<1> HIDE DEF out
<1>5. s \in Stamp
  BY DEF TeacherSteps, Stamp, TypeOK
<1>6. UNCHANGED <<nodeCount, step, lent, sftLent>>
  BY <1>3 DEF DispatchEffect
<1>7. count' \in [Counters -> Nat] /\ count'.enqueued = count.enqueued
  BY <1>3, <1>4, AddTyping DEF DispatchEffect, Counters
<1>8. DOMAIN trees' = DOMAIN trees /\ \A k \in DOMAIN trees' : trees'[k] \in TreeType
  BY <1>3, <1>5, TreeStamped DEF DispatchEffect, TypeOK
<1>9. DOMAIN nodes' = DOMAIN nodes /\ \A n \in DOMAIN nodes' : nodes'[n] \in NodeType
  BY <1>3, <1>5, NodeStamped DEF DispatchEffect, TypeOK
<1>10. DOMAIN events' = DOMAIN events /\ \A e \in DOMAIN events' : events'[e] \in EventType
  <2>1. \A e \in DOMAIN events : [events[e] EXCEPT !.inFlight = TRUE] \in EventType
    BY DEF TypeOK, EventType
  <2> QED BY <1>3, <2>1 DEF DispatchEffect, TypeOK
<1>11. queue' \in [Prompt -> SUBSET EventId] /\ owed' \subseteq EventId
  BY <1>3 DEF DispatchEffect, TypeOK
<1>12. TreeType' = TreeType /\ NodeType' = NodeType /\ EventType' = EventType
       /\ NodeId' = NodeId /\ EventId' = EventId
  BY <1>6, <1>7 DEF TreeType, NodeType, EventType, Stamp, NodeId, EventId
<1> QED BY <1>6, <1>7, <1>8, <1>9, <1>10, <1>11, <1>12 DEF TypeOK

LEMMA OnTeacherResponseTypeOK ==
  ASSUME TypeOK, EventsHaveParents, PoolAssumption,
         NEW e, NEW a \in Answers, NEW s \in TeacherSteps, OnTeacherResponse(e, a, s)
  PROVE  TypeOK'
<1>1. UNCHANGED <<trees, step, lent, sftLent>> /\ owed' \subseteq owed
  BY DEF OnTeacherResponse
<1>2. count' \in [Counters -> Nat] /\ count.enqueued <= count'.enqueued
  BY BumpTyping DEF OnTeacherResponse, Counters, TypeOK
<1>3. nodeCount' \in Nat /\ nodeCount <= nodeCount'
  BY DEF OnTeacherResponse, TypeOK
<1>4. /\ TreeType \subseteq TreeType' /\ NodeType \subseteq NodeType'
      /\ EventType \subseteq EventType'
      /\ NodeId \subseteq NodeId' /\ EventId \subseteq EventId'
  BY <1>1, <1>2, <1>3, TypesGrow DEF TypeOK
<1>5. DOMAIN events' \subseteq EventId' /\ \A d \in DOMAIN events' : events'[d] \in EventType'
  BY <1>4 DEF OnTeacherResponse, PopEvent, TypeOK, Without, Restrict
<1>6. queue' \in [Prompt -> SUBSET EventId']
  BY <1>4 DEF OnTeacherResponse, PopEvent, TypeOK
<1>7. DOMAIN nodes' \subseteq NodeId' /\ \A n \in DOMAIN nodes' : nodes'[n] \in NodeType'
  <2>1. CASE Verdict(e, a) # {"success"}
    BY <1>4, <2>1 DEF OnTeacherResponse, TypeOK
  <2>2. CASE Verdict(e, a) = {"success"}
    <3> DEFINE p == events[e].parent
               k == events[e].tree
               child == NewNode(k, p, a.prefix, TRUE, s)
               new == Put(nodes, nodeCount', child)
    <3>1. nodeCount' = nodeCount + 1 /\ nodes' = [new EXCEPT ![p].children = @ \cup {nodeCount'}]
      BY <2>2 DEF OnTeacherResponse, WithChild
    <3>2. e \in DOMAIN events /\ p \in DOMAIN nodes /\ a # NoAnswer
      BY <2>2 DEF Verdict, ParentLives, NodesOf
    <3>3. k \in Prompt /\ p \in NodeId /\ s \in 0..step'
      BY <1>1, <3>2 DEF TypeOK, EventType, TeacherSteps
    <3>4. child \in NodeType'
      <4>1. a.prefix \in Seq(Token)
        BY <3>2, AnswerTyping
      <4>2. Never \in Stamp' /\ p \in NodeId'
        BY <1>1, <1>4, <3>3 DEF Stamp, Never, TypeOK
      <4> QED BY <3>3, <4>1, <4>2 DEF NewNode, NodeType
    <3>5. nodeCount' \in NodeId'
      BY <3>1 DEF NodeId, TypeOK
    <3> HIDE DEF child
    <3>6. DOMAIN new \subseteq NodeId' /\ p \in DOMAIN new /\ \A n \in DOMAIN new : new[n] \in NodeType'
      BY <1>4, <3>2, <3>4, <3>5 DEF Put, TypeOK
    <3> HIDE DEF new
    <3>7. [new[p] EXCEPT !.children = @ \cup {nodeCount'}] \in NodeType'
      BY <3>5, <3>6 DEF NodeType
    <3> QED BY <3>1, <3>6, <3>7
  <2> QED BY <2>1, <2>2
<1> QED BY <1>1, <1>2, <1>3, <1>4, <1>5, <1>6, <1>7 DEF TypeOK

LEMMA CleanupTypeOK ==
  ASSUME TypeOK, CleanupInactiveTrees
  PROVE  TypeOK'
<1>1. UNCHANGED <<nodeCount, events, count, step, owed, lent, sftLent>>
  BY DEF CleanupInactiveTrees
<1>2. TreeType' = TreeType /\ NodeType' = NodeType /\ EventType' = EventType
      /\ NodeId' = NodeId /\ EventId' = EventId
  BY <1>1 DEF TreeType, NodeType, EventType, Stamp, NodeId, EventId
<1>3. DOMAIN trees' \subseteq DOMAIN trees /\ \A k \in DOMAIN trees' : trees'[k] = trees[k]
  BY DEF CleanupInactiveTrees, Without, Restrict
<1>4. DOMAIN nodes' \subseteq DOMAIN nodes /\ \A n \in DOMAIN nodes' : nodes'[n] = nodes[n]
  BY DEF CleanupInactiveTrees, Without, Restrict
<1>5. queue' \in [Prompt -> SUBSET EventId]
  BY DEF CleanupInactiveTrees, TypeOK
<1> QED BY <1>1, <1>2, <1>3, <1>4, <1>5 DEF TypeOK

LEMMA StampSftTyping ==
  ASSUME TypeOK, NEW routes, StampSft(routes)
  PROVE  /\ DOMAIN trees' = DOMAIN trees /\ \A k \in DOMAIN trees' : trees'[k] \in TreeType
         /\ DOMAIN nodes' = DOMAIN nodes /\ \A n \in DOMAIN nodes' : nodes'[n] \in NodeType
<1>1. step \in Stamp
  BY DEF TypeOK, Stamp
<1> QED BY <1>1, TreeStamped, NodeStamped DEF StampSft, TypeOK

\* The four suffix-SFT steps of the client.
LEMMA SftTypeOK ==
  ASSUME TypeOK, QueueMirrorsEvents, PoolAssumption,
         \/ SampleSuffixSft(SftSlots)
         \/ \E r \in sftLent : RecordSuffixSft(r[1], r[2])
         \/ ClearTeacherEvents /\ \E lo, hi : sftLent' = FrozenRoutes(lo, hi)
         \/ (\E routes \in FullBatches : MarkSuffixSftSampled(routes))
  PROVE  TypeOK'
<1> DEFINE Same == /\ UNCHANGED <<nodeCount, count, step, owed, lent>>
           Types == /\ TreeType' = TreeType /\ NodeType' = NodeType /\ EventType' = EventType
                    /\ NodeId' = NodeId /\ EventId' = EventId
<1>0. Same => Types
  BY DEF TreeType, NodeType, EventType, Stamp, NodeId, EventId
<1>1. CASE SampleSuffixSft(SftSlots)
  <2>1. PICK chosen \in SUBSET SftReadyTrees : \E pick \in [chosen -> DOMAIN nodes] :
          /\ StampSft({<<k, pick[k]>> : k \in chosen})
          /\ sftLent' = {<<k, pick[k]>> : k \in chosen}
    BY <1>1 DEF SampleSuffixSft
  <2>2. PICK pick \in [chosen -> DOMAIN nodes] :
          /\ StampSft({<<k, pick[k]>> : k \in chosen})
          /\ sftLent' = {<<k, pick[k]>> : k \in chosen}
    BY <2>1
  <2>3. UNCHANGED <<nodeCount, events, queue, count, step, owed, lent>>
    BY <1>1 DEF SampleSuffixSft
  <2>4. chosen \subseteq Prompt /\ DOMAIN nodes \subseteq NodeId
    BY DEF SftReadyTrees, TypeOK
  <2>5. sftLent' \subseteq Prompt \X NodeId
    <3>1. \A k \in chosen : k \in Prompt /\ pick[k] \in NodeId
      BY <2>4
    <3>2. \A k \in chosen : <<k, pick[k]>> \in Prompt \X NodeId
      BY <3>1
    <3>3. sftLent' = {<<k, pick[k]>> : k \in chosen}
      BY <2>2
    <3> QED BY ONLY <3>2, <3>3
  <2>6. /\ DOMAIN trees' = DOMAIN trees /\ \A k \in DOMAIN trees' : trees'[k] \in TreeType
        /\ DOMAIN nodes' = DOMAIN nodes /\ \A n \in DOMAIN nodes' : nodes'[n] \in NodeType
    BY <2>2, StampSftTyping
  <2> QED BY <1>0, <2>3, <2>5, <2>6 DEF TypeOK
<1>2. CASE \E r \in sftLent : RecordSuffixSft(r[1], r[2])
  <2>1. PICK r \in sftLent : RecordSuffixSft(r[1], r[2])
    BY <1>2
  <2>2. DOMAIN nodes' = DOMAIN nodes /\ \A n \in DOMAIN nodes' : nodes'[n] \in NodeType
    <3>1. \A n \in DOMAIN nodes : [nodes[n] EXCEPT !.sftUpdates = @ + 1] \in NodeType
      BY NodeTrained DEF TypeOK
    <3> QED BY <2>1, <3>1 DEF RecordSuffixSft, TypeOK
  <2>3. UNCHANGED <<trees, nodeCount, events, queue, count, step, owed, lent>> /\ sftLent' \subseteq sftLent
    BY <2>1 DEF RecordSuffixSft
  <2> QED BY <1>0, <2>2, <2>3 DEF TypeOK
<1>3. CASE ClearTeacherEvents /\ \E lo, hi : sftLent' = FrozenRoutes(lo, hi)
  <2>1. sftLent' \subseteq Prompt \X NodeId
    BY <1>3 DEF FrozenRoutes, TypeOK, NodeType
  <2>2. Cardinality(DOMAIN events) \in Nat
    BY EventIdFinite, FS_Subset, FS_CardinalityType DEF TypeOK
  <2>3. count' \in [Counters -> Nat] /\ count'.enqueued = count.enqueued
    <3> DEFINE size == Cardinality(DOMAIN events)
    <3>1. count' = Add("cleared", size) /\ size \in Nat
      BY <1>3, <2>2 DEF ClearTeacherEvents
    <3> HIDE DEF size
    <3>2. "cleared" \in Counters /\ "enqueued" \in Counters \ {"cleared"}
      BY DEF Counters
    <3>3. Add("cleared", size) \in [Counters -> Nat]
      BY <3>1, <3>2, AddTyping
    <3>4. Add("cleared", size)["enqueued"] = count["enqueued"]
      BY <3>2 DEF Add, TypeOK
    <3> QED BY <3>1, <3>3, <3>4
  <2>4. UNCHANGED <<trees, nodes, nodeCount, step, owed, lent>>
    BY <1>3 DEF ClearTeacherEvents
  <2>5. Types
    BY <2>3, <2>4 DEF TreeType, NodeType, EventType, Stamp, NodeId, EventId
  <2>6. DOMAIN events' = {} /\ queue' \in [Prompt -> SUBSET EventId]
    BY <1>3 DEF ClearTeacherEvents
  <2> QED BY <2>1, <2>3, <2>4, <2>5, <2>6 DEF TypeOK
<1>4. CASE (\E routes \in FullBatches : MarkSuffixSftSampled(routes))
  <2>1. PICK routes : StampSft(routes)
    BY <1>4 DEF MarkSuffixSftSampled
  <2>2. UNCHANGED <<nodeCount, events, queue, count, step, owed, lent, sftLent>>
    BY <1>4 DEF MarkSuffixSftSampled
  <2>3. /\ DOMAIN trees' = DOMAIN trees /\ \A k \in DOMAIN trees' : trees'[k] \in TreeType
        /\ DOMAIN nodes' = DOMAIN nodes /\ \A n \in DOMAIN nodes' : nodes'[n] \in NodeType
    BY <2>1, StampSftTyping
  <2> QED BY <1>0, <2>2, <2>3 DEF TypeOK
<1> QED BY <1>1, <1>2, <1>3, <1>4

\* Outcomes and the trees' roots, as the client's steps use them.
LEMMA NextTypeOK ==
  ASSUME PoolAssumption, TypeOK, TreesHaveRoots, QueueMirrorsEvents, EventsHaveParents, ClientStep
  PROVE  TypeOK'
<1>1. CASE NextStep
  BY <1>1, NextStepTypeOK
<1>2. CASE \E n \in 1..InjectSlots : Sample(n)
  BY <1>2, SampleTypeOK
<1>3. ASSUME NEW k \in Prompt, NEW o \in Outcomes, RecordRootObservation(k, o[1], o[2])
      PROVE  TypeOK'
  BY <1>3, RecordRootObservationTypeOK DEF Outcomes, PoolAssumption
<1>4. ASSUME NEW r \in lent, NEW o \in Outcomes, RecordObservation(r[1], r[2], o[1], o[2])
      PROVE  TypeOK'
  <2>1. r[1] \in Prompt
    BY DEF TypeOK
  <2>2. o[1] \in Nat /\ o[2] \in Nat
    BY DEF Outcomes, PoolAssumption
  <2> QED BY <1>4, <2>1, <2>2, RecordObservationTypeOK
<1>5. CASE CleanupInactiveTrees
  BY <1>5, CleanupTypeOK
<1>6. CASE \/ SampleSuffixSft(SftSlots)
           \/ \E r \in sftLent : RecordSuffixSft(r[1], r[2])
           \/ ClearTeacherEvents /\ \E lo, hi : sftLent' = FrozenRoutes(lo, hi)
           \/ (\E routes \in FullBatches : MarkSuffixSftSampled(routes))
  BY <1>6, SftTypeOK
<1>7. ASSUME NEW s \in TeacherSteps, PendingTeacherRequests(DispatchSlots, s)
      PROVE  TypeOK'
  BY <1>7, PendingTeacherRequestsTypeOK
<1>8. ASSUME NEW e \in owed, NEW a \in Answers, NEW s \in TeacherSteps, OnTeacherResponse(e, a, s)
      PROVE  TypeOK'
  BY <1>8, OnTeacherResponseTypeOK
<1>9. CASE UNCHANGED vars
  BY <1>9 DEF vars, TypeOK, TreeType, NodeType, EventType, Stamp, NodeId, EventId
<1> QED BY <1>1, <1>2, <1>3, <1>4, <1>5, <1>6, <1>7, <1>8, <1>9
        DEF ClientStep

-----------------------------------------------------------------------------
(* The trees.                                                              *)

\* A step that moves no node and changes nothing about where nodes sit.
SameShape ==
  /\ DOMAIN trees' = DOMAIN trees /\ DOMAIN nodes' = DOMAIN nodes
  /\ \A k \in DOMAIN trees : trees'[k].root = trees[k].root
  /\ \A n \in DOMAIN nodes : /\ nodes'[n].tree = nodes[n].tree
                             /\ nodes'[n].parent = nodes[n].parent
                             /\ nodes'[n].prefix = nodes[n].prefix
                             /\ nodes'[n].suffix = nodes[n].suffix
                             /\ nodes'[n].children = nodes[n].children

\* Where events, queues and their owner stand after such a step.
LEMMA SameShapeNodesOf ==
  ASSUME SameShape, NEW k
  PROVE  NodesOf(k)' = NodesOf(k)
BY DEF SameShape, NodesOf

LEMMA SameShapeTreeShape ==
  ASSUME TreeShape, SameShape
  PROVE  TreeShape'
<1>1. \A k : NodesOf(k)' = NodesOf(k)
  BY SameShapeNodesOf
<1>2. TreesHaveRoots'
  BY <1>1 DEF TreesHaveRoots, SameShape, TreeShape
<1>3. \A n \in DOMAIN nodes' : nodes'[n].tree \in DOMAIN trees'
  BY DEF TreeShape, SameShape
<1>4. \A k \in DOMAIN trees' :
        /\ \A n \in NodesOf(k)' : nodes'[n].parent = NoParent <=> n = trees'[k].root
        /\ nodes'[trees'[k].root].prefix = << >>
  BY <1>1 DEF TreeShape, SameShape, TreesHaveRoots, NodesOf
<1>5. \A n \in DOMAIN nodes' : nodes'[n].parent # NoParent =>
        /\ nodes'[n].parent \in DOMAIN nodes' /\ nodes'[nodes'[n].parent].tree = nodes'[n].tree
        /\ ValidChild(nodes'[nodes'[n].parent].prefix, nodes'[n].prefix)
        /\ nodes'[n].suffix
  BY DEF TreeShape, SameShape, NodesOf
<1>6. \A n \in DOMAIN nodes' : nodes'[n].children = {m \in DOMAIN nodes' : nodes'[m].parent = n}
  BY DEF TreeShape, SameShape
<1>7. \A m, n \in DOMAIN nodes' :
        nodes'[m].tree = nodes'[n].tree /\ nodes'[m].prefix = nodes'[n].prefix => m = n
  BY DEF TreeShape, SameShape
<1>8. \A n \in DOMAIN nodes' : nodes'[n].tree = nodes[n].tree
  BY DEF SameShape
<1> QED BY <1>1, <1>2, <1>3, <1>4, <1>5, <1>6, <1>7, <1>8 DEF TreeShape

\* Observing an existing node keeps the shape.
LEMMA ObserveSameShape ==
  ASSUME TypeOK, NEW k, NEW n \in DOMAIN nodes, NEW bad, NEW m,
         Observe(nodes, k, n, bad, m), UNCHANGED trees
  PROVE  SameShape
<1>1. nodes' = [nodes EXCEPT ![n] = [@ EXCEPT !.lastRollout = step, !.active = (bad > 0)]]
  BY DEF Observe
<1>2. nodes[n] \in NodeType
  BY DEF TypeOK
<1>3. DOMAIN nodes' = DOMAIN nodes
  BY <1>1
<1>4. \A x \in DOMAIN nodes : /\ nodes'[x].tree = nodes[x].tree
                              /\ nodes'[x].parent = nodes[x].parent
                              /\ nodes'[x].prefix = nodes[x].prefix
                              /\ nodes'[x].suffix = nodes[x].suffix
                              /\ nodes'[x].children = nodes[x].children
  BY <1>1, <1>2 DEF NodeType
<1> QED BY <1>3, <1>4 DEF SameShape

\* So does every stamping step.
LEMMA StampSameShape ==
  ASSUME TypeOK,
         \/ NextStep
         \/ \E n : Sample(n)
         \/ \E n, s : PendingTeacherRequests(n, s)
         \/ SampleSuffixSft(SftSlots)
         \/ \E r \in sftLent : RecordSuffixSft(r[1], r[2])
         \/ ClearTeacherEvents
         \/ (\E routes \in FullBatches : MarkSuffixSftSampled(routes))
         \/ UNCHANGED vars
  PROVE  SameShape
<1> USE DEF SameShape
<1>0. \A n \in DOMAIN nodes : nodes[n] \in NodeType /\ \A k \in DOMAIN trees : trees[k] \in TreeType
  BY DEF TypeOK
<1>1. CASE NextStep \/ ClearTeacherEvents \/ UNCHANGED vars
  BY <1>1 DEF NextStep, ClearTeacherEvents, vars, poolVars
<1>2. CASE \E n : Sample(n)
  <2>1. PICK chosen, pick : SampleEffect(chosen, pick)
    BY <1>2 DEF Sample
  <2> QED BY <1>0, <2>1 DEF SampleEffect, NodeType, TreeType, TypeOK
<1>3. CASE \E n, s : PendingTeacherRequests(n, s)
  <2>1. PICK out, s : DispatchEffect(out, s)
    BY <1>3 DEF PendingTeacherRequests
  <2> QED BY <1>0, <2>1 DEF DispatchEffect, NodeType, TreeType, TypeOK
<1>4. CASE SampleSuffixSft(SftSlots) \/ (\E routes \in FullBatches : MarkSuffixSftSampled(routes))
  <2>1. PICK routes : StampSft(routes)
    BY <1>4 DEF SampleSuffixSft, MarkSuffixSftSampled
  <2> QED BY <1>0, <2>1 DEF StampSft, NodeType, TreeType, TypeOK
<1>5. CASE \E r \in sftLent : RecordSuffixSft(r[1], r[2])
  <2>1. PICK r \in sftLent : RecordSuffixSft(r[1], r[2])
    BY <1>5
  <2> QED BY <1>0, <2>1 DEF RecordSuffixSft, NodeType
<1> QED BY <1>1, <1>2, <1>3, <1>4, <1>5

\* A node c joins the forest: a root of a new tree k, or a valid new child of
\* a node of tree k whose state no other node of k has.
Joins(c, k, parent, prefix) ==
  /\ c \notin DOMAIN nodes /\ c # NoParent
  /\ DOMAIN nodes' = DOMAIN nodes \cup {c}
  /\ DOMAIN trees' = DOMAIN trees \cup {k}
  /\ \A j \in DOMAIN trees : trees'[j].root = trees[j].root
  /\ \A n \in DOMAIN nodes : /\ nodes'[n].tree = nodes[n].tree
                             /\ nodes'[n].parent = nodes[n].parent
                             /\ nodes'[n].prefix = nodes[n].prefix
                             /\ nodes'[n].suffix = nodes[n].suffix
                             /\ nodes'[n].children =
                                  IF n = parent THEN nodes[n].children \cup {c} ELSE nodes[n].children
  /\ nodes'[c].tree = k /\ nodes'[c].parent = parent /\ nodes'[c].prefix = prefix
  /\ nodes'[c].children = {}

LEMMA RootJoins ==
  ASSUME TypeOK, TreeShape, NEW k, NEW c, k \notin DOMAIN trees,
         Joins(c, k, NoParent, << >>), trees'[k].root = c
  PROVE  TreeShape'
<1>a. c \notin DOMAIN nodes /\ c # NoParent /\ DOMAIN nodes' = DOMAIN nodes \cup {c}
  BY DEF Joins
<1>b. DOMAIN trees' = DOMAIN trees \cup {k} /\ \A j \in DOMAIN trees : trees'[j].root = trees[j].root
  BY DEF Joins
<1>c. \A n \in DOMAIN nodes : /\ nodes'[n].tree = nodes[n].tree /\ nodes'[n].parent = nodes[n].parent
                              /\ nodes'[n].prefix = nodes[n].prefix /\ nodes'[n].suffix = nodes[n].suffix
  BY DEF Joins
<1>d. \A n \in DOMAIN nodes : nodes'[n].children =
                                IF n = NoParent THEN nodes[n].children \cup {c} ELSE nodes[n].children
  BY DEF Joins
<1>e. nodes'[c].tree = k /\ nodes'[c].parent = NoParent /\ nodes'[c].prefix = << >> /\ nodes'[c].children = {}
  BY DEF Joins
<1>1. \A n \in DOMAIN nodes : nodes[n].tree # k /\ nodes[n].parent # c /\ n # NoParent
  BY <1>a, <1>b, <1>c, <1>d, <1>e DEF TreeShape, TypeOK, NodeId, NoParent, NodesOf
<1>2. \A j \in DOMAIN trees : NodesOf(j)' = NodesOf(j)
  BY <1>a, <1>b, <1>c, <1>d, <1>e, <1>1 DEF NodesOf
<1>3. NodesOf(k)' = {c}
  BY <1>a, <1>b, <1>c, <1>d, <1>e, <1>1 DEF NodesOf
<1>4. TreesHaveRoots'
  BY <1>a, <1>b, <1>c, <1>d, <1>e, <1>2, <1>3 DEF TreesHaveRoots, TreeShape
<1>5. \A n \in DOMAIN nodes' : nodes'[n].tree \in DOMAIN trees'
  BY <1>a, <1>b, <1>c, <1>d, <1>e DEF TreeShape
<1>6. \A j \in DOMAIN trees' :
        /\ \A n \in NodesOf(j)' : nodes'[n].parent = NoParent <=> n = trees'[j].root
        /\ nodes'[trees'[j].root].prefix = << >>
  <2> TAKE j \in DOMAIN trees'
  <2>1. CASE j = k
    BY <1>3, <1>e, <2>1
  <2>2. CASE j \in DOMAIN trees
    <3>1. trees[j].root \in NodesOf(j) /\ trees'[j].root = trees[j].root
      BY <1>b, <2>2 DEF TreeShape, TreesHaveRoots
    <3>2. nodes'[trees[j].root].prefix = << >>
      BY <1>c, <2>2, <3>1 DEF TreeShape, NodesOf
    <3>3. \A n \in NodesOf(j) : nodes'[n].parent = NoParent <=> n = trees[j].root
      BY <1>c, <2>2 DEF TreeShape, NodesOf
    <3> QED BY <1>2, <2>2, <3>1, <3>2, <3>3
  <2> QED BY <1>b, <2>1, <2>2
<1>7. \A n \in DOMAIN nodes' : nodes'[n].parent # NoParent =>
        /\ nodes'[n].parent \in DOMAIN nodes' /\ nodes'[nodes'[n].parent].tree = nodes'[n].tree
        /\ ValidChild(nodes'[nodes'[n].parent].prefix, nodes'[n].prefix)
        /\ nodes'[n].suffix
  BY <1>a, <1>b, <1>c, <1>d, <1>e DEF TreeShape, NodesOf
<1>8. \A n \in DOMAIN nodes' : nodes'[n].children = {m \in DOMAIN nodes' : nodes'[m].parent = n}
  <2>1. ASSUME NEW n \in DOMAIN nodes
        PROVE  nodes'[n].children = {m \in DOMAIN nodes' : nodes'[m].parent = n}
    <3>1. nodes[n].children = {m \in DOMAIN nodes : nodes[m].parent = n}
      BY DEF TreeShape
    <3>2. n # NoParent /\ nodes'[n].children = nodes[n].children
      BY <1>d, <1>1
    <3>3. {m \in DOMAIN nodes' : nodes'[m].parent = n} = {m \in DOMAIN nodes : nodes[m].parent = n}
      BY <1>a, <1>c, <1>e, <3>2
    <3> QED BY <3>1, <3>2, <3>3
  <2>2. nodes'[c].children = {m \in DOMAIN nodes' : nodes'[m].parent = c}
    BY <1>a, <1>c, <1>e, <1>1
  <2> QED BY <1>a, <2>1, <2>2
<1>9. \A m, n \in DOMAIN nodes' :
        nodes'[m].tree = nodes'[n].tree /\ nodes'[m].prefix = nodes'[n].prefix => m = n
  BY <1>a, <1>b, <1>c, <1>d, <1>e, <1>1 DEF TreeShape
<1> QED BY <1>4, <1>5, <1>6, <1>7, <1>8, <1>9 DEF TreeShape

LEMMA ChildJoins ==
  ASSUME TypeOK, TreeShape, NEW k \in DOMAIN trees, NEW c, NEW parent \in NodesOf(k), NEW prefix,
         Joins(c, k, parent, prefix), nodes'[c].suffix,
         ValidChild(nodes[parent].prefix, prefix), ~IsKnown(k, prefix)
  PROVE  TreeShape'
<1>a. c \notin DOMAIN nodes /\ c # NoParent /\ DOMAIN nodes' = DOMAIN nodes \cup {c}
  BY DEF Joins
<1>b. DOMAIN trees' = DOMAIN trees \cup {k} /\ \A j \in DOMAIN trees : trees'[j].root = trees[j].root
  BY DEF Joins
<1>c. \A n \in DOMAIN nodes : /\ nodes'[n].tree = nodes[n].tree /\ nodes'[n].parent = nodes[n].parent
                              /\ nodes'[n].prefix = nodes[n].prefix /\ nodes'[n].suffix = nodes[n].suffix
  BY DEF Joins
<1>d. \A n \in DOMAIN nodes : nodes'[n].children =
                                IF n = parent THEN nodes[n].children \cup {c} ELSE nodes[n].children
  BY DEF Joins
<1>e. nodes'[c].tree = k /\ nodes'[c].parent = parent /\ nodes'[c].prefix = prefix /\ nodes'[c].children = {}
  BY DEF Joins
<1>1. \A n \in DOMAIN nodes : nodes[n].parent # c /\ n # NoParent
  BY <1>a, <1>b, <1>c, <1>d, <1>e DEF TreeShape, TypeOK, NodeId, NoParent, NodesOf
<1>2. \A j : NodesOf(j)' = IF j = k THEN NodesOf(k) \cup {c} ELSE NodesOf(j)
  BY <1>a, <1>b, <1>c, <1>d, <1>e DEF NodesOf
<1>3. DOMAIN trees' = DOMAIN trees /\ parent \in DOMAIN nodes /\ parent # NoParent
  BY <1>a, <1>b, <1>c, <1>d, <1>e, <1>1 DEF NodesOf
<1>4. TreesHaveRoots'
  BY <1>a, <1>b, <1>c, <1>d, <1>e, <1>2, <1>3 DEF TreesHaveRoots, TreeShape
<1>5. \A n \in DOMAIN nodes' : nodes'[n].tree \in DOMAIN trees'
  BY <1>a, <1>b, <1>c, <1>d, <1>e DEF TreeShape
<1>6. \A j \in DOMAIN trees' :
        /\ \A n \in NodesOf(j)' : nodes'[n].parent = NoParent <=> n = trees'[j].root
        /\ nodes'[trees'[j].root].prefix = << >>
  <2> TAKE j \in DOMAIN trees'
  <2>1. j \in DOMAIN trees /\ trees'[j].root = trees[j].root
    BY <1>b, <1>3
  <2>2. trees[j].root \in DOMAIN nodes /\ nodes[trees[j].root].prefix = << >>
    BY <2>1 DEF TreeShape, TreesHaveRoots, NodesOf
  <2>3. \A n \in NodesOf(j) : nodes'[n].parent = NoParent <=> n = trees[j].root
    BY <1>c, <2>1 DEF TreeShape, NodesOf
  <2>4. nodes'[c].parent # NoParent /\ trees[j].root # c
    BY <1>a, <1>e, <1>3, <2>2
  <2>5. \A n \in NodesOf(j)' : nodes'[n].parent = NoParent <=> n = trees'[j].root
    BY <1>2, <2>1, <2>3, <2>4
  <2>6. nodes'[trees'[j].root].prefix = << >>
    BY <1>c, <2>1, <2>2
  <2> QED BY <2>5, <2>6
<1>7. \A n \in DOMAIN nodes' : nodes'[n].parent # NoParent =>
        /\ nodes'[n].parent \in DOMAIN nodes' /\ nodes'[nodes'[n].parent].tree = nodes'[n].tree
        /\ ValidChild(nodes'[nodes'[n].parent].prefix, nodes'[n].prefix)
        /\ nodes'[n].suffix
  BY <1>a, <1>b, <1>c, <1>d, <1>e DEF TreeShape, NodesOf
<1>8. \A n \in DOMAIN nodes' : nodes'[n].children = {m \in DOMAIN nodes' : nodes'[m].parent = n}
  <2>1. ASSUME NEW n \in DOMAIN nodes
        PROVE  nodes'[n].children = {m \in DOMAIN nodes' : nodes'[m].parent = n}
    <3>1. nodes[n].children = {m \in DOMAIN nodes : nodes[m].parent = n}
      BY DEF TreeShape
    <3>2. CASE n = parent
      <4>1. nodes'[n].children = nodes[n].children \cup {c}
        BY <1>d, <3>2
      <4>2. {m \in DOMAIN nodes' : nodes'[m].parent = n}
              = {m \in DOMAIN nodes : nodes[m].parent = n} \cup {c}
        BY <1>a, <1>c, <1>e, <3>2
      <4> QED BY <3>1, <4>1, <4>2
    <3>3. CASE n # parent
      <4>1. nodes'[n].children = nodes[n].children
        BY <1>d, <3>3
      <4>2. {m \in DOMAIN nodes' : nodes'[m].parent = n} = {m \in DOMAIN nodes : nodes[m].parent = n}
        BY <1>a, <1>c, <1>e, <3>3
      <4> QED BY <3>1, <4>1, <4>2
    <3> QED BY <3>2, <3>3
  <2>2. nodes'[c].children = {m \in DOMAIN nodes' : nodes'[m].parent = c}
    BY <1>a, <1>c, <1>e, <1>1, <1>3
  <2> QED BY <1>a, <2>1, <2>2
<1>9. \A m, n \in DOMAIN nodes' :
        nodes'[m].tree = nodes'[n].tree /\ nodes'[m].prefix = nodes'[n].prefix => m = n
  BY <1>a, <1>b, <1>c, <1>d, <1>e DEF TreeShape, IsKnown, NodesOf
<1> QED BY <1>4, <1>5, <1>6, <1>7, <1>8, <1>9 DEF TreeShape

\* Whole trees leave the forest.
LEMMA CleanupTreeShape ==
  ASSUME TypeOK, TreeShape, CleanupInactiveTrees
  PROVE  TreeShape'
<1>1. /\ DOMAIN trees' = DOMAIN trees \ Removable
      /\ \A k \in DOMAIN trees' : trees'[k] = trees[k]
  BY DEF CleanupInactiveTrees, Without, Restrict
<1>2. /\ DOMAIN nodes' = {n \in DOMAIN nodes : nodes[n].tree \notin Removable}
      /\ \A n \in DOMAIN nodes' : nodes'[n] = nodes[n]
  BY DEF CleanupInactiveTrees, Without, Restrict
<1>3. \A k \in DOMAIN trees' : NodesOf(k)' = NodesOf(k)
  BY <1>1, <1>2 DEF NodesOf
<1>4. TreesHaveRoots'
  BY <1>1, <1>3 DEF TreesHaveRoots, TreeShape
<1>5. \A n \in DOMAIN nodes' : nodes'[n].tree \in DOMAIN trees'
  BY <1>1, <1>2 DEF TreeShape
<1>6. \A j \in DOMAIN trees' :
        /\ \A n \in NodesOf(j)' : nodes'[n].parent = NoParent <=> n = trees'[j].root
        /\ nodes'[trees'[j].root].prefix = << >>
  <2> TAKE j \in DOMAIN trees'
  <2>1. j \in DOMAIN trees /\ trees[j].root \in NodesOf(j) /\ NodesOf(j)' = NodesOf(j)
    BY <1>1, <1>3 DEF TreeShape, TreesHaveRoots
  <2>2. \A n \in NodesOf(j)' : n \in DOMAIN nodes' /\ nodes'[n] = nodes[n]
    BY <1>2 DEF NodesOf
  <2> QED BY <1>1, <2>1, <2>2 DEF TreeShape
<1>7. \A n \in DOMAIN nodes' : nodes'[n].parent # NoParent =>
        /\ nodes'[n].parent \in DOMAIN nodes' /\ nodes'[nodes'[n].parent].tree = nodes'[n].tree
        /\ ValidChild(nodes'[nodes'[n].parent].prefix, nodes'[n].prefix)
        /\ nodes'[n].suffix
  BY <1>2 DEF TreeShape, NodesOf
<1>8. \A n \in DOMAIN nodes' : nodes'[n].children = {m \in DOMAIN nodes' : nodes'[m].parent = n}
  <2> TAKE n \in DOMAIN nodes'
  <2>1. \A m \in DOMAIN nodes : nodes[m].parent = n => m \in DOMAIN nodes'
    <3> TAKE m \in DOMAIN nodes
    <3> HAVE nodes[m].parent = n
    <3>1. n # NoParent
      BY <1>2 DEF TypeOK, NodeId, NoParent
    <3>2. nodes[m].tree = nodes[n].tree
      BY <3>1 DEF TreeShape, NodesOf
    <3> QED BY <1>2, <3>2
  <2> QED BY <1>2, <2>1 DEF TreeShape
<1>9. \A m, n \in DOMAIN nodes' :
        nodes'[m].tree = nodes'[n].tree /\ nodes'[m].prefix = nodes'[n].prefix => m = n
  BY <1>2 DEF TreeShape
<1> QED BY <1>4, <1>5, <1>6, <1>7, <1>8, <1>9 DEF TreeShape

LEMMA FreshNode ==
  ASSUME TypeOK, nodeCount' = nodeCount + 1
  PROVE  nodeCount' \notin DOMAIN nodes /\ nodeCount' # NoParent
BY DEF TypeOK, NodeId, NoParent

\* record_root_observation on a prompt that has no tree yet.
NewTreeStep(k, bad, m) ==
  /\ k \notin DOMAIN trees
  /\ nodeCount' = nodeCount + 1
  /\ trees' = Put(trees, k, NewTree(nodeCount'))
  /\ Observe(Put(nodes, nodeCount', NewNode(k, NoParent, << >>, FALSE, step)), k, nodeCount', bad, m)

LEMMA NewTreeJoins ==
  ASSUME TypeOK, TreeShape, NEW k \in Prompt, NEW bad, NEW m, NewTreeStep(k, bad, m)
  PROVE  Joins(nodeCount', k, NoParent, << >>) /\ trees'[k].root = nodeCount'
<1> DEFINE c == nodeCount'
           root == NewNode(k, NoParent, << >>, FALSE, step)
           ns == Put(nodes, c, root)
<1>1. c \notin DOMAIN nodes /\ c # NoParent
  BY FreshNode DEF NewTreeStep
<1>2. DOMAIN ns = DOMAIN nodes \cup {c} /\ ns[c] = root /\ \A n \in DOMAIN nodes : ns[n] = nodes[n]
  BY <1>1 DEF Put
<1>3. nodes' = [ns EXCEPT ![c] = [@ EXCEPT !.lastRollout = step, !.active = (bad > 0)]]
  BY DEF NewTreeStep, Observe
<1>4. root.tree = k /\ root.parent = NoParent /\ root.prefix = << >> /\ root.children = {}
  BY DEF NewNode
<1>5. nodes'[c] = [root EXCEPT !.lastRollout = step, !.active = (bad > 0)]
  <2> HIDE DEF ns, root, c
  <2> QED BY <1>2, <1>3
<1>6. /\ nodes'[c].tree = k /\ nodes'[c].parent = NoParent
      /\ nodes'[c].prefix = << >> /\ nodes'[c].children = {}
  BY <1>5 DEF NewNode
<1>7. DOMAIN nodes' = DOMAIN nodes \cup {c} /\ \A n \in DOMAIN nodes : nodes'[n] = nodes[n]
  <2> HIDE DEF ns
  <2> QED BY <1>1, <1>2, <1>3
<1>8. \A n \in DOMAIN nodes : n # NoParent
  BY DEF TypeOK, NodeId, NoParent
<1>9. /\ DOMAIN trees' = DOMAIN trees \cup {k}
      /\ \A j \in DOMAIN trees : trees'[j].root = trees[j].root
      /\ trees'[k].root = c
  BY DEF NewTreeStep, Put, NewTree
<1> QED BY <1>1, <1>6, <1>7, <1>8, <1>9 DEF Joins

\* on_teacher_response when it creates a child.
NewChildStep(e, a, s) ==
  /\ Verdict(e, a) = {"success"}
  /\ nodeCount' = nodeCount + 1
  /\ nodes' = WithChild(nodeCount', events[e].tree, events[e].parent, a, s)
  /\ UNCHANGED trees

LEMMA SuccessMeans ==
  ASSUME NEW e, NEW a, Verdict(e, a) = {"success"}
  PROVE  /\ e \in DOMAIN events /\ ParentLives(e) /\ a # NoAnswer
         /\ ValidChild(nodes[events[e].parent].prefix, a.prefix)
         /\ ~IsKnown(events[e].tree, a.prefix) /\ a.suffix
BY DEF Verdict

LEMMA NewChildJoins ==
  ASSUME TypeOK, NEW e, NEW a, NEW s, NewChildStep(e, a, s)
  PROVE  /\ Joins(nodeCount', events[e].tree, events[e].parent, a.prefix)
         /\ nodes'[nodeCount'].suffix /\ nodes'[nodeCount'].active
         /\ \A n \in DOMAIN nodes : nodes'[n].active = nodes[n].active
<1> DEFINE c == nodeCount'
           k == events[e].tree
           p == events[e].parent
           child == NewNode(k, p, a.prefix, TRUE, s)
           new == Put(nodes, c, child)
<1>1. c \notin DOMAIN nodes /\ c # NoParent
  BY FreshNode DEF NewChildStep
<1>2. k \in DOMAIN trees /\ p \in NodesOf(k) /\ p \in DOMAIN nodes
  BY SuccessMeans DEF NewChildStep, ParentLives, NodesOf
<1>3. DOMAIN new = DOMAIN nodes \cup {c} /\ new[c] = child /\ \A n \in DOMAIN nodes : new[n] = nodes[n]
  BY <1>1 DEF Put
<1>4. nodes' = [new EXCEPT ![p].children = @ \cup {c}]
  BY DEF NewChildStep, WithChild
<1>5. DOMAIN nodes' = DOMAIN nodes \cup {c} /\ nodes'[c] = child
      /\ nodes'[p] = [nodes[p] EXCEPT !.children = @ \cup {c}]
      /\ \A n \in DOMAIN nodes \ {p} : nodes'[n] = nodes[n]
  <2> HIDE DEF new, child, c, p
  <2> QED BY <1>1, <1>2, <1>3, <1>4
<1>6. /\ child.tree = k /\ child.parent = p /\ child.prefix = a.prefix /\ child.children = {}
      /\ child.suffix = TRUE /\ child.active = TRUE
  BY DEF NewNode
<1>7. nodes[p] \in NodeType
  BY <1>2 DEF TypeOK
<1>8. /\ nodes'[p].tree = nodes[p].tree /\ nodes'[p].parent = nodes[p].parent
      /\ nodes'[p].prefix = nodes[p].prefix /\ nodes'[p].suffix = nodes[p].suffix
      /\ nodes'[p].active = nodes[p].active
      /\ nodes'[p].children = nodes[p].children \cup {c}
  <2> HIDE DEF c, p
  <2> QED BY <1>5, <1>7 DEF NodeType
<1>9. DOMAIN trees' = DOMAIN trees \cup {k} /\ \A j \in DOMAIN trees : trees'[j].root = trees[j].root
  BY <1>2 DEF NewChildStep
<1> HIDE DEF c, p, k, child
<1>10. Joins(c, k, p, a.prefix)
  BY <1>1, <1>5, <1>6, <1>8, <1>9 DEF Joins
<1>11. nodes'[c].suffix /\ nodes'[c].active /\ \A n \in DOMAIN nodes : nodes'[n].active = nodes[n].active
  BY <1>5, <1>6, <1>8
<1> QED BY <1>10, <1>11 DEF c, k, p

\* The cases of the two observations and of an answer.
LEMMA RootObservationCases ==
  ASSUME TypeOK, TreeShape, NEW k, NEW bad, NEW m, RecordRootObservation(k, bad, m)
  PROVE  \/ /\ k \in DOMAIN trees /\ trees[k].root \in NodesOf(k)
            /\ Observe(nodes, k, trees[k].root, bad, m) /\ UNCHANGED trees /\ SameShape
         \/ NewTreeStep(k, bad, m)
         \/ UNCHANGED poolVars /\ SameShape
<1>1. CASE k \in DOMAIN trees /\ Observe(nodes, k, trees[k].root, bad, m) /\ UNCHANGED <<trees, nodeCount>>
  <2>1. trees[k].root \in NodesOf(k) /\ trees[k].root \in DOMAIN nodes
    BY <1>1 DEF TreeShape, TreesHaveRoots, NodesOf
  <2> QED BY <1>1, <2>1, ObserveSameShape
<1>2. CASE UNCHANGED poolVars
  BY <1>2 DEF poolVars, SameShape
<1> QED BY <1>1, <1>2 DEF RecordRootObservation, NewTreeStep

LEMMA ObservationCases ==
  ASSUME TypeOK, NEW k, NEW n, NEW bad, NEW m, RecordObservation(k, n, bad, m)
  PROVE  /\ SameShape
         /\ \/ /\ k \in DOMAIN trees /\ n \in NodesOf(k)
               /\ Observe(nodes, k, n, bad, m) /\ UNCHANGED trees
            \/ UNCHANGED poolVars
<1>1. CASE k \in DOMAIN trees /\ n \in NodesOf(k) /\ Observe(nodes, k, n, bad, m) /\ UNCHANGED <<trees, nodeCount>>
  BY <1>1, ObserveSameShape DEF NodesOf
<1>2. CASE UNCHANGED poolVars
  BY <1>2 DEF poolVars, SameShape
<1> QED BY <1>1, <1>2 DEF RecordObservation

LEMMA AnswerCases ==
  ASSUME NEW e, NEW a, NEW s, OnTeacherResponse(e, a, s)
  PROVE  NewChildStep(e, a, s) \/ UNCHANGED <<trees, nodes, nodeCount>>
BY DEF OnTeacherResponse, NewChildStep

LEMMA NextTreeShape ==
  ASSUME TypeOK, TreeShape, ClientStep
  PROVE  TreeShape'
<1>1. CASE \/ NextStep \/ (\E m \in 1..InjectSlots : Sample(m))
           \/ SampleSuffixSft(SftSlots)
           \/ \E r \in sftLent : RecordSuffixSft(r[1], r[2])
           \/ ClearTeacherEvents \/ (\E routes \in FullBatches : MarkSuffixSftSampled(routes))
           \/ \E s \in TeacherSteps : PendingTeacherRequests(DispatchSlots, s)
           \/ UNCHANGED vars
  BY <1>1, StampSameShape, SameShapeTreeShape
<1>2. ASSUME NEW k \in Prompt, NEW o \in Outcomes, RecordRootObservation(k, o[1], o[2])
      PROVE  TreeShape'
  BY <1>2, RootObservationCases, NewTreeJoins, RootJoins, SameShapeTreeShape DEF NewTreeStep
<1>3. ASSUME NEW r \in lent, NEW o \in Outcomes, RecordObservation(r[1], r[2], o[1], o[2])
      PROVE  TreeShape'
  BY <1>3, ObservationCases, SameShapeTreeShape
<1>4. CASE CleanupInactiveTrees
  BY <1>4, CleanupTreeShape
<1>5. ASSUME NEW e \in owed, NEW a \in Answers, NEW s \in TeacherSteps, OnTeacherResponse(e, a, s)
      PROVE  TreeShape'
  <2>1. CASE NewChildStep(e, a, s)
    <3>1. Verdict(e, a) = {"success"}
      BY <2>1 DEF NewChildStep
    <3>2. events[e].tree \in DOMAIN trees /\ events[e].parent \in NodesOf(events[e].tree)
      BY <3>1, SuccessMeans DEF ParentLives
    <3> QED BY <2>1, <3>1, <3>2, SuccessMeans, NewChildJoins, ChildJoins
  <2>2. CASE UNCHANGED <<trees, nodes, nodeCount>>
    BY <2>2, SameShapeTreeShape DEF SameShape
  <2> QED BY <1>5, <2>1, <2>2, AnswerCases
<1> QED BY <1>1, <1>2, <1>3, <1>4, <1>5 DEF ClientStep

-----------------------------------------------------------------------------
(* The teacher events.                                                     *)

EventIndexes == QueueMirrorsEvents /\ EventsHaveParents /\ InFlightIsOwed

\* Nodes that stay where they are keep the events' parents.
LEMMA SameEventsIndexes ==
  ASSUME EventIndexes, UNCHANGED <<events, queue, owed>>,
         \A k \in DOMAIN trees : k \in DOMAIN trees',
         \A n \in DOMAIN nodes : n \in DOMAIN nodes' /\ nodes'[n].tree = nodes[n].tree
  PROVE  EventIndexes'
<1>1. QueueMirrorsEvents'
  BY DEF EventIndexes, QueueMirrorsEvents
<1>2. EventsHaveParents'
  BY DEF EventIndexes, EventsHaveParents, NodesOf
<1>3. InFlightIsOwed'
  BY DEF EventIndexes, InFlightIsOwed
<1> QED BY <1>1, <1>2, <1>3 DEF EventIndexes

LEMMA ObserveIndexes ==
  ASSUME TypeOK, EventIndexes, NEW ns, NEW k \in Prompt, NEW n, NEW bad, NEW m \in Nat,
         Observe(ns, k, n, bad, m), UNCHANGED owed,
         k \in DOMAIN trees', n \in DOMAIN nodes', nodes'[n].tree = k,
         \A j \in DOMAIN trees : j \in DOMAIN trees',
         \A x \in DOMAIN nodes : x \in DOMAIN nodes' /\ nodes'[x].tree = nodes[x].tree
  PROVE  EventIndexes'
<1>1. CASE UNCHANGED <<events, queue, count>>
  BY <1>1, SameEventsIndexes
<1>2. CASE EnqueueEvents(k, n, m)
  <2> DEFINE new == (count.enqueued + 1)..(count.enqueued + m)
             event == [tree |-> k, parent |-> n, created |-> step, inFlight |-> FALSE]
  <2>1. count.enqueued \in Nat /\ DOMAIN events \subseteq 1..count.enqueued
    BY DEF TypeOK, EventId, Counters
  <2>2. \A e \in new : e \notin DOMAIN events
    BY <2>1
  <2>3. DOMAIN events' = DOMAIN events \cup new /\ queue' = [queue EXCEPT ![k] = @ \cup new]
    BY <1>2 DEF EnqueueEvents
  <2>4. \A e \in DOMAIN events : events'[e] = events[e]
    BY <1>2, <2>2 DEF EnqueueEvents
  <2>5. \A e \in new : events'[e] = event
    BY <1>2 DEF EnqueueEvents
  <2>6. event.tree = k /\ event.parent = n /\ ~event.inFlight
    OBVIOUS
  <2>10. \A e \in new : e \notin owed
    BY <2>1 DEF TypeOK, EventId
  <2> HIDE DEF new, event
  <2>7. QueueMirrorsEvents'
    <3> SUFFICES ASSUME NEW j \in Prompt
                 PROVE  queue'[j] = {e \in DOMAIN events' : events'[e].tree = j}
      BY DEF QueueMirrorsEvents
    <3>1. queue[j] = {e \in DOMAIN events : events[e].tree = j} /\ queue \in [Prompt -> SUBSET EventId]
      BY DEF EventIndexes, QueueMirrorsEvents, TypeOK
    <3>2. queue'[j] = IF j = k THEN queue[j] \cup new ELSE queue[j]
      BY <2>3, <3>1
    <3> QED BY <2>3, <2>4, <2>5, <2>6, <3>1, <3>2
  <2>8. EventsHaveParents'
    BY <2>3, <2>4, <2>5, <2>6 DEF EventIndexes, EventsHaveParents, NodesOf
  <2>9. InFlightIsOwed'
    BY <2>3, <2>4, <2>5, <2>6, <2>10 DEF EventIndexes, InFlightIsOwed
  <2> QED BY <2>7, <2>8, <2>9 DEF EventIndexes
<1> QED BY <1>1, <1>2 DEF Observe

LEMMA DispatchIndexes ==
  ASSUME TypeOK, EventIndexes, NEW maxItems, NEW s, PendingTeacherRequests(maxItems, s)
  PROVE  EventIndexes'
<1> DEFINE candidates == {k \in DOMAIN trees : SelectedEvents(k) # {}}
<1>1. PICK chosen \in SUBSET candidates : \E pick \in [chosen -> DOMAIN events] :
        DispatchEffect({pick[k] : k \in chosen}, s)
  BY DEF PendingTeacherRequests
<1>2. PICK pick \in [chosen -> DOMAIN events] : DispatchEffect({pick[k] : k \in chosen}, s)
  BY <1>1
<1> DEFINE out == {pick[k] : k \in chosen}
<1>3. DispatchEffect(out, s) /\ SameShape
  BY <1>2, StampSameShape
<1> HIDE DEF out
<1>4. DOMAIN events' = DOMAIN events /\ owed' = owed \cup out
  BY <1>3 DEF DispatchEffect
<1>5. \A e \in DOMAIN events : /\ events[e] \in EventType
                               /\ events'[e] = IF e \in out THEN [events[e] EXCEPT !.inFlight = TRUE]
                                               ELSE events[e]
  BY <1>3 DEF DispatchEffect, TypeOK
<1>6. \A e \in DOMAIN events : /\ events'[e].tree = events[e].tree
                               /\ events'[e].parent = events[e].parent
                               /\ events'[e].inFlight <=> e \in out \/ events[e].inFlight
  BY <1>5 DEF EventType
<1>7. QueueMirrorsEvents'
  <2> SUFFICES ASSUME NEW j \in Prompt
               PROVE  queue'[j] = {e \in DOMAIN events' : events'[e].tree = j}
    BY DEF QueueMirrorsEvents
  <2>1. queue'[j] = IF j \in DOMAIN trees
                    THEN {e \in queue[j] : e \in DOMAIN events /\ events[e].tree = j} ELSE queue[j]
    BY <1>3 DEF DispatchEffect
  <2>2. queue[j] = {e \in DOMAIN events : events[e].tree = j}
    BY DEF EventIndexes, QueueMirrorsEvents
  <2> QED BY <1>4, <1>6, <2>1, <2>2
<1>8. EventsHaveParents'
  BY <1>3, <1>4, <1>6 DEF EventIndexes, EventsHaveParents, SameShape, NodesOf
<1>9. InFlightIsOwed'
  BY <1>4, <1>6 DEF EventIndexes, InFlightIsOwed
<1> QED BY <1>7, <1>8, <1>9 DEF EventIndexes

LEMMA AnswerIndexes ==
  ASSUME TypeOK, EventIndexes, NEW e, NEW a, NEW s, OnTeacherResponse(e, a, s)
  PROVE  EventIndexes'
<1>1. DOMAIN events' = DOMAIN events \ {e} /\ \A d \in DOMAIN events' : events'[d] = events[d]
  BY DEF OnTeacherResponse, PopEvent, Without, Restrict
<1>2. queue' = [k \in Prompt |-> IF e \in DOMAIN events /\ k = events[e].tree
                                 THEN queue[k] \ {e} ELSE queue[k]]
  BY DEF OnTeacherResponse, PopEvent
<1>3. owed' = owed \ {e} /\ UNCHANGED trees
  BY DEF OnTeacherResponse
<1>4. \A n \in DOMAIN nodes : n \in DOMAIN nodes' /\ nodes'[n].tree = nodes[n].tree
  BY AnswerCases, NewChildJoins DEF Joins
<1>5. QueueMirrorsEvents'
  <2> SUFFICES ASSUME NEW j \in Prompt
               PROVE  queue'[j] = {d \in DOMAIN events' : events'[d].tree = j}
    BY DEF QueueMirrorsEvents
  <2>1. queue[j] = {d \in DOMAIN events : events[d].tree = j}
    BY DEF EventIndexes, QueueMirrorsEvents
  <2> QED BY <1>1, <1>2, <2>1
<1>6. EventsHaveParents'
  BY <1>1, <1>3, <1>4 DEF EventIndexes, EventsHaveParents, NodesOf
<1>7. InFlightIsOwed'
  BY <1>1, <1>3 DEF EventIndexes, InFlightIsOwed
<1> QED BY <1>5, <1>6, <1>7 DEF EventIndexes

LEMMA CleanupIndexes ==
  ASSUME TypeOK, EventIndexes, CleanupInactiveTrees
  PROVE  EventIndexes'
<1>1. /\ DOMAIN trees' = DOMAIN trees \ Removable
      /\ DOMAIN nodes' = {n \in DOMAIN nodes : nodes[n].tree \notin Removable}
      /\ \A n \in DOMAIN nodes' : nodes'[n] = nodes[n]
      /\ queue' = [k \in Prompt |-> IF k \in Removable THEN {} ELSE queue[k]]
      /\ UNCHANGED <<events, owed>>
  BY DEF CleanupInactiveTrees, Without, Restrict
<1>2. \A e \in DOMAIN events : events[e].tree \notin Removable
  BY DEF Removable
<1>3. QueueMirrorsEvents'
  BY <1>1, <1>2 DEF EventIndexes, QueueMirrorsEvents
<1>4. EventsHaveParents'
  BY <1>1, <1>2 DEF EventIndexes, EventsHaveParents, NodesOf
<1>5. InFlightIsOwed'
  BY <1>1 DEF EventIndexes, InFlightIsOwed
<1> QED BY <1>3, <1>4, <1>5 DEF EventIndexes

LEMMA NextEventIndexes ==
  ASSUME TypeOK, TreeShape, PoolAssumption, EventIndexes, ClientStep
  PROVE  EventIndexes'
<1>1. CASE \/ NextStep \/ (\E m \in 1..InjectSlots : Sample(m))
           \/ SampleSuffixSft(SftSlots)
           \/ \E r \in sftLent : RecordSuffixSft(r[1], r[2])
           \/ (\E routes \in FullBatches : MarkSuffixSftSampled(routes)) \/ UNCHANGED vars
  <2>1. UNCHANGED <<events, queue, owed>>
    BY <1>1 DEF NextStep, Sample, SampleEffect, SampleSuffixSft, RecordSuffixSft,
                MarkSuffixSftSampled, vars, poolVars
  <2>2. SameShape
    BY <1>1, StampSameShape
  <2> QED BY <2>1, <2>2, SameEventsIndexes DEF SameShape
<1>2. CASE ClearTeacherEvents
  BY <1>2 DEF ClearTeacherEvents, EventIndexes, QueueMirrorsEvents, EventsHaveParents, InFlightIsOwed
<1>3. ASSUME NEW k \in Prompt, NEW o \in Outcomes, RecordRootObservation(k, o[1], o[2])
      PROVE  EventIndexes'
  <2>1. o[2] \in Nat /\ UNCHANGED owed
    BY <1>3 DEF Outcomes, PoolAssumption, RecordRootObservation
  <2>2. CASE /\ k \in DOMAIN trees /\ trees[k].root \in NodesOf(k)
             /\ Observe(nodes, k, trees[k].root, o[1], o[2]) /\ UNCHANGED trees /\ SameShape
    BY <2>1, <2>2, ObserveIndexes DEF SameShape, NodesOf
  <2>3. CASE NewTreeStep(k, o[1], o[2])
    <3>1. Joins(nodeCount', k, NoParent, << >>)
      BY <2>3, NewTreeJoins
    <3> DEFINE ns == Put(nodes, nodeCount', NewNode(k, NoParent, << >>, FALSE, step))
    <3>2. Observe(ns, k, nodeCount', o[1], o[2])
      BY <2>3 DEF NewTreeStep
    <3> HIDE DEF ns
    <3>3. k \in DOMAIN trees' /\ nodeCount' \in DOMAIN nodes' /\ nodes'[nodeCount'].tree = k
      BY <3>1 DEF Joins
    <3>4. /\ \A j \in DOMAIN trees : j \in DOMAIN trees'
          /\ \A x \in DOMAIN nodes : x \in DOMAIN nodes' /\ nodes'[x].tree = nodes[x].tree
      BY <3>1 DEF Joins
    <3> QED BY <2>1, <3>2, <3>3, <3>4, ObserveIndexes
  <2>4. CASE UNCHANGED poolVars /\ SameShape
    BY <2>1, <2>4, SameEventsIndexes DEF poolVars, SameShape
  <2> QED BY <1>3, <2>2, <2>3, <2>4, RootObservationCases
<1>4. ASSUME NEW r \in lent, NEW o \in Outcomes, RecordObservation(r[1], r[2], o[1], o[2])
      PROVE  EventIndexes'
  <2>1. r[1] \in Prompt /\ o[2] \in Nat /\ UNCHANGED owed
    BY <1>4 DEF Outcomes, PoolAssumption, RecordObservation, TypeOK
  <2>2. CASE /\ r[1] \in DOMAIN trees /\ r[2] \in NodesOf(r[1]) /\ SameShape
             /\ Observe(nodes, r[1], r[2], o[1], o[2]) /\ UNCHANGED trees
    BY <2>1, <2>2, ObserveIndexes DEF SameShape, NodesOf
  <2>3. CASE UNCHANGED poolVars /\ SameShape
    BY <2>1, <2>3, SameEventsIndexes DEF poolVars, SameShape
  <2> QED BY <1>4, <2>2, <2>3, ObservationCases
<1>5. CASE CleanupInactiveTrees
  BY <1>5, CleanupIndexes
<1>6. ASSUME NEW s \in TeacherSteps, PendingTeacherRequests(DispatchSlots, s)
      PROVE  EventIndexes'
  BY <1>6, DispatchIndexes
<1>7. ASSUME NEW e \in owed, NEW a \in Answers, NEW s \in TeacherSteps, OnTeacherResponse(e, a, s)
      PROVE  EventIndexes'
  BY <1>7, AnswerIndexes
<1> QED BY <1>1, <1>2, <1>3, <1>4, <1>5, <1>6, <1>7 DEF ClientStep
-----------------------------------------------------------------------------
(* The nodes lent to the rollouts.                                         *)

\* Retirement happens in observations only.
SameActive == \A n \in DOMAIN nodes : nodes'[n].active = nodes[n].active

LEMMA StampSameActive ==
  ASSUME TypeOK,
         \/ \E n : Sample(n)
         \/ \E n, s : PendingTeacherRequests(n, s)
         \/ SampleSuffixSft(SftSlots)
         \/ \E r \in sftLent : RecordSuffixSft(r[1], r[2])
         \/ ClearTeacherEvents
         \/ (\E routes \in FullBatches : MarkSuffixSftSampled(routes))
         \/ UNCHANGED vars
  PROVE  SameActive
<1> USE DEF SameActive
<1>0. \A n \in DOMAIN nodes : nodes[n] \in NodeType
  BY DEF TypeOK
<1>1. CASE ClearTeacherEvents \/ UNCHANGED vars
  BY <1>1 DEF ClearTeacherEvents, vars
<1>2. CASE \E n : Sample(n)
  <2>1. PICK chosen, pick : SampleEffect(chosen, pick)
    BY <1>2 DEF Sample
  <2> QED BY <1>0, <2>1 DEF SampleEffect, NodeType
<1>3. CASE \E n, s : PendingTeacherRequests(n, s)
  <2>1. PICK out, s : DispatchEffect(out, s)
    BY <1>3 DEF PendingTeacherRequests
  <2> QED BY <1>0, <2>1 DEF DispatchEffect, NodeType
<1>4. CASE SampleSuffixSft(SftSlots) \/ (\E routes \in FullBatches : MarkSuffixSftSampled(routes))
  <2>1. PICK routes : StampSft(routes)
    BY <1>4 DEF SampleSuffixSft, MarkSuffixSftSampled
  <2> QED BY <1>0, <2>1 DEF StampSft, NodeType
<1>5. CASE \E r \in sftLent : RecordSuffixSft(r[1], r[2])
  <2>1. PICK r \in sftLent : RecordSuffixSft(r[1], r[2])
    BY <1>5
  <2> QED BY <1>0, <2>1 DEF RecordSuffixSft, NodeType
<1> QED BY <1>1, <1>2, <1>3, <1>4, <1>5

\* What it takes for a lent node to stay a candidate of its tree.
LEMMA LentKept ==
  ASSUME LentNodesStayActive, lent' \subseteq lent,
         \A r \in lent' : /\ r[1] \in DOMAIN trees'
                          /\ r[2] \in DOMAIN nodes'
                          /\ nodes'[r[2]].tree = nodes[r[2]].tree
                          /\ nodes'[r[2]].parent = nodes[r[2]].parent
                          /\ nodes'[r[2]].active = nodes[r[2]].active
  PROVE  LentNodesStayActive'
BY DEF LentNodesStayActive, RolloutCandidates, NodesOf

LEMMA LentSample ==
  ASSUME TypeOK, LentNodesStayActive, NEW n, Sample(n)
  PROVE  LentNodesStayActive'
<1>1. SameShape /\ SameActive
  BY StampSameShape, StampSameActive
<1>2. PICK chosen \in SUBSET Eligible : \E pick \in [chosen -> DOMAIN nodes] :
        /\ \A k \in chosen : pick[k] \in LeastUsed(RolloutCandidates(k), NodeRolloutKey)
        /\ SampleEffect(chosen, pick)
  BY DEF Sample
<1>3. PICK pick \in [chosen -> DOMAIN nodes] :
        /\ \A k \in chosen : pick[k] \in LeastUsed(RolloutCandidates(k), NodeRolloutKey)
        /\ SampleEffect(chosen, pick)
  BY <1>2
<1>4. lent' = lent \cup {<<k, pick[k]>> : k \in chosen}
  BY <1>3 DEF SampleEffect
<1>5. \A k \in chosen : k \in DOMAIN trees /\ pick[k] \in RolloutCandidates(k)
  BY <1>3 DEF Eligible, ReadyTrees, LeastUsed
<1>6. \A r \in lent' : r[1] \in DOMAIN trees /\ r[2] \in RolloutCandidates(r[1])
  BY <1>4, <1>5 DEF LentNodesStayActive
<1>7. \A k : RolloutCandidates(k)' = RolloutCandidates(k)
  BY <1>1 DEF SameShape, SameActive, RolloutCandidates, NodesOf
<1> QED BY <1>1, <1>6, <1>7 DEF LentNodesStayActive, SameShape

LEMMA LentObserve ==
  ASSUME TypeOK, LentNodesStayActive, NEW k, NEW n \in DOMAIN nodes, NEW bad, NEW m,
         Observe(nodes, k, n, bad, m), UNCHANGED trees, lent' \subseteq lent,
         \A r \in lent' : r[2] # n
  PROVE  LentNodesStayActive'
<1>1. SameShape
  BY ObserveSameShape
<1>2. nodes' = [nodes EXCEPT ![n] = [@ EXCEPT !.lastRollout = step, !.active = (bad > 0)]]
  BY DEF Observe
<1>3. \A x \in DOMAIN nodes : x # n => nodes'[x].active = nodes[x].active
  BY <1>2
<1>4. \A r \in lent' : r[1] \in DOMAIN trees /\ r[2] \in DOMAIN nodes
  BY DEF LentNodesStayActive, RolloutCandidates, NodesOf
<1> QED BY <1>1, <1>3, <1>4, LentKept DEF SameShape

LEMMA LentNewTree ==
  ASSUME TypeOK, TreeShape, LentNodesStayActive, NEW k \in Prompt, NEW bad, NEW m,
         NewTreeStep(k, bad, m), UNCHANGED lent
  PROVE  LentNodesStayActive'
<1> DEFINE c == nodeCount'
           ns == Put(nodes, c, NewNode(k, NoParent, << >>, FALSE, step))
<1>1. Joins(c, k, NoParent, << >>)
  BY NewTreeJoins
<1>2. DOMAIN ns = DOMAIN nodes \cup {c} /\ \A x \in DOMAIN nodes : ns[x] = nodes[x]
  BY <1>1 DEF Put, Joins
<1>3. nodes' = [ns EXCEPT ![c] = [@ EXCEPT !.lastRollout = step, !.active = (bad > 0)]]
  BY DEF NewTreeStep, Observe
<1>4. c \notin DOMAIN nodes
  BY <1>1 DEF Joins
<1> HIDE DEF ns, c
<1>5. \A x \in DOMAIN nodes : nodes'[x].active = nodes[x].active
  BY <1>2, <1>3, <1>4
<1>6. \A r \in lent : r[1] \in DOMAIN trees /\ r[2] \in DOMAIN nodes
  BY DEF LentNodesStayActive, RolloutCandidates, NodesOf
<1> QED BY <1>1, <1>5, <1>6, LentKept DEF Joins

LEMMA LentNewChild ==
  ASSUME TypeOK, LentNodesStayActive, NEW e, NEW a, NEW s, NewChildStep(e, a, s), UNCHANGED lent
  PROVE  LentNodesStayActive'
<1>1. \A r \in lent : r[1] \in DOMAIN trees /\ r[2] \in DOMAIN nodes
  BY DEF LentNodesStayActive, RolloutCandidates, NodesOf
<1>2. /\ Joins(nodeCount', events[e].tree, events[e].parent, a.prefix)
      /\ \A n \in DOMAIN nodes : nodes'[n].active = nodes[n].active
  BY NewChildJoins
<1> QED BY <1>1, <1>2, LentKept DEF Joins, NewChildStep

\* Clean-up keeps the tree of every lent node, since the node is active.
LEMMA LentCleanup ==
  ASSUME LentNodesStayActive, CleanupInactiveTrees
  PROVE  LentNodesStayActive'
<1>1. /\ DOMAIN trees' = DOMAIN trees \ Removable
      /\ DOMAIN nodes' = {n \in DOMAIN nodes : nodes[n].tree \notin Removable}
      /\ \A n \in DOMAIN nodes' : nodes'[n] = nodes[n]
      /\ lent' = lent
  BY DEF CleanupInactiveTrees, Without, Restrict
<1>2. \A r \in lent : /\ r[1] \in DOMAIN trees /\ r[2] \in DOMAIN nodes
                      /\ nodes[r[2]].tree = r[1] /\ r[1] \notin Removable
  BY DEF LentNodesStayActive, RolloutCandidates, NodesOf, Removable
<1> QED BY <1>1, <1>2, LentKept

LEMMA NextLent ==
  ASSUME TypeOK, TreeShape, LentNodesStayActive, ClientStep
  PROVE  LentNodesStayActive'
<1>1. CASE NextStep
  BY <1>1 DEF NextStep, LentNodesStayActive
<1>2. CASE \E n \in 1..InjectSlots : Sample(n)
  BY <1>2, LentSample
<1>3. CASE \/ SampleSuffixSft(SftSlots)
           \/ \E r \in sftLent : RecordSuffixSft(r[1], r[2])
           \/ ClearTeacherEvents \/ (\E routes \in FullBatches : MarkSuffixSftSampled(routes))
           \/ \E s \in TeacherSteps : PendingTeacherRequests(DispatchSlots, s)
           \/ UNCHANGED vars
  <2>1. SameShape /\ SameActive
    BY <1>3, StampSameShape, StampSameActive
  <2>2. lent' = lent
    BY <1>3 DEF SampleSuffixSft, RecordSuffixSft, ClearTeacherEvents, MarkSuffixSftSampled,
                PendingTeacherRequests, DispatchEffect, vars
  <2>3. \A r \in lent : r[1] \in DOMAIN trees /\ r[2] \in DOMAIN nodes
    BY DEF LentNodesStayActive, RolloutCandidates, NodesOf
  <2> QED BY <2>1, <2>2, <2>3, LentKept DEF SameShape, SameActive
<1>4. ASSUME NEW k \in Prompt, NEW o \in Outcomes, RecordRootObservation(k, o[1], o[2])
      PROVE  LentNodesStayActive'
  <2>1. lent' = lent
    BY <1>4 DEF RecordRootObservation
  <2>2. CASE /\ k \in DOMAIN trees /\ trees[k].root \in NodesOf(k)
             /\ Observe(nodes, k, trees[k].root, o[1], o[2]) /\ UNCHANGED trees /\ SameShape
    <3>1. trees[k].root \in DOMAIN nodes /\ nodes[trees[k].root].parent = NoParent
      BY <2>2 DEF NodesOf, TreeShape
    <3>2. \A r \in lent' : r[2] # trees[k].root
      BY <2>1, <3>1 DEF LentNodesStayActive, RolloutCandidates
    <3> QED BY <2>1, <2>2, <3>1, <3>2, LentObserve
  <2>3. CASE NewTreeStep(k, o[1], o[2])
    BY <2>1, <2>3, LentNewTree
  <2>4. CASE UNCHANGED poolVars /\ SameShape
    BY <2>1, <2>4 DEF poolVars, LentNodesStayActive, RolloutCandidates, NodesOf
  <2> QED BY <1>4, <2>2, <2>3, <2>4, RootObservationCases
<1>5. ASSUME NEW r \in lent, NEW o \in Outcomes, RecordObservation(r[1], r[2], o[1], o[2])
      PROVE  LentNodesStayActive'
  <2>1. lent' = lent \ {<<r[1], r[2]>>}
    BY <1>5 DEF RecordObservation
  <2>2. CASE UNCHANGED poolVars
    BY <2>1, <2>2 DEF poolVars, LentNodesStayActive, RolloutCandidates, NodesOf
  <2>3. CASE /\ r[1] \in DOMAIN trees /\ r[2] \in NodesOf(r[1])
             /\ Observe(nodes, r[1], r[2], o[1], o[2]) /\ UNCHANGED trees
    <3>1. r[2] \in DOMAIN nodes /\ nodes[r[2]].tree = r[1]
      BY <2>3 DEF NodesOf
    <3>2. \A q \in lent' : q[2] # r[2]
      <4> SUFFICES ASSUME NEW q \in lent', q[2] = r[2] PROVE FALSE
        OBVIOUS
      <4>1. q \in lent /\ q # <<r[1], r[2]>> /\ q \in Prompt \X NodeId
        BY <2>1 DEF TypeOK
      <4>2. nodes[q[2]].tree = q[1]
        BY <4>1 DEF LentNodesStayActive, RolloutCandidates, NodesOf
      <4> QED BY <3>1, <4>1, <4>2
    <3> QED BY <2>1, <2>3, <3>1, <3>2, LentObserve
  <2> QED BY <1>5, <2>2, <2>3, ObservationCases
<1>6. CASE CleanupInactiveTrees
  BY <1>6, LentCleanup
<1>7. ASSUME NEW e \in owed, NEW a \in Answers, NEW s \in TeacherSteps, OnTeacherResponse(e, a, s)
      PROVE  LentNodesStayActive'
  <2>1. lent' = lent
    BY <1>7 DEF OnTeacherResponse
  <2>2. CASE NewChildStep(e, a, s)
    BY <2>1, <2>2, LentNewChild
  <2>3. CASE UNCHANGED <<trees, nodes, nodeCount>>
    BY <2>1, <2>3 DEF LentNodesStayActive, RolloutCandidates, NodesOf
  <2> QED BY <1>7, <2>2, <2>3, AnswerCases
<1> QED BY <1>1, <1>2, <1>3, <1>4, <1>5, <1>6, <1>7 DEF ClientStep

-----------------------------------------------------------------------------
(* The count of events.                                                    *)

LEMMA AccountingKept ==
  ASSUME EventAccounting, DOMAIN events' = DOMAIN events,
         \A c \in Counters \ {"dispatched"} : count'[c] = count[c]
  PROVE  EventAccounting'
BY DEF EventAccounting, Counters

LEMMA ObserveAccounting ==
  ASSUME TypeOK, EventAccounting, NEW ns, NEW k, NEW n, NEW bad, NEW m \in Nat,
         Observe(ns, k, n, bad, m)
  PROVE  EventAccounting'
<1>1. CASE UNCHANGED <<events, queue, count>>
  BY <1>1, AccountingKept
<1>2. CASE EnqueueEvents(k, n, m)
  <2> DEFINE new == (count.enqueued + 1)..(count.enqueued + m)
  <2>1. count.enqueued \in Nat /\ DOMAIN events \subseteq 1..count.enqueued
    BY DEF TypeOK, EventId, Counters
  <2>2. DOMAIN events \cap new = {}
    BY <2>1
  <2>3. IsFiniteSet(new) /\ Cardinality(new) = m
    <3> DEFINE lo == count.enqueued + 1
               hi == count.enqueued + m
    <3>1. lo \in Int /\ hi \in Int /\ hi - lo + 1 = m /\ (lo > hi => m = 0)
      BY <2>1
    <3> HIDE DEF lo, hi
    <3>2. IsFiniteSet(lo..hi) /\ Cardinality(lo..hi) = IF lo > hi THEN 0 ELSE hi - lo + 1
      BY <3>1, FS_Interval
    <3>3. Cardinality(lo..hi) = m
      BY <3>1, <3>2
    <3> QED BY <3>2, <3>3 DEF lo, hi
  <2>4. DOMAIN events' = DOMAIN events \cup new
    BY <1>2 DEF EnqueueEvents
  <2> HIDE DEF new
  <2> DEFINE D == DOMAIN events
  <2>5. Cardinality(D \cup new) = Cardinality(D) + Cardinality(new) - Cardinality(D \cap new)
    <3> HIDE DEF D
    <3>1. IsFiniteSet(D)
      BY EventsFinite DEF D
    <3> QED BY <2>3, <3>1, FS_Union
  <2>6. Cardinality(D) \in Nat /\ Cardinality(D \cap new) = 0
    BY <2>2, EventsFinite, FS_EmptySet
  <2>7. Cardinality(DOMAIN events') = Cardinality(DOMAIN events) + m
    BY <2>3, <2>4, <2>5, <2>6
  <2>8. /\ count'.enqueued = count.enqueued + m
        /\ \A c \in Counters \ {"enqueued"} : count'[c] = count[c]
    BY <1>2 DEF EnqueueEvents, Add, TypeOK, Counters
  <2>9. \A c \in Counters : count[c] \in Nat
    BY DEF TypeOK
  <2> QED BY <2>6, <2>7, <2>8, <2>9 DEF EventAccounting, Counters
<1> QED BY <1>1, <1>2 DEF Observe

\* An answer ends its event in exactly one of the outcomes.
LEMMA AnswerAccounting ==
  ASSUME TypeOK, EventAccounting, NEW e, NEW a, NEW s, OnTeacherResponse(e, a, s)
  PROVE  EventAccounting'
<1>1. DOMAIN events' = DOMAIN events \ {e}
  BY DEF OnTeacherResponse, PopEvent, Without, Restrict
<1>2. \A c \in Counters : /\ count'[c] = IF c \in Verdict(e, a) THEN count[c] + 1 ELSE count[c]
                          /\ count[c] \in Nat
  BY DEF OnTeacherResponse, Bump, TypeOK
<1> DEFINE D == DOMAIN events
<1>3. /\ Cardinality(D \ {e}) = IF e \in D THEN Cardinality(D) - 1 ELSE Cardinality(D)
      /\ Cardinality(D) \in Nat
  <2>1. IsFiniteSet(D) /\ Cardinality(D) \in Nat
    BY EventsFinite
  <2> HIDE DEF D
  <2> QED BY <2>1, FS_RemoveElement
<1>4. CASE e \notin DOMAIN events
  <2>1. Verdict(e, a) = {"stale"}
    BY <1>4 DEF Verdict
  <2> QED BY <1>1, <1>2, <1>3, <1>4, <2>1 DEF EventAccounting, Counters
<1>5. CASE e \in DOMAIN events
  <2>1. \/ Verdict(e, a) = {"staleParent", "stale"}
        \/ \E c \in {"failed", "invalid", "duplicate", "success"} : Verdict(e, a) = {c}
    BY <1>5 DEF Verdict
  <2>2. Cardinality(DOMAIN events') = Cardinality(DOMAIN events) - 1
    BY <1>1, <1>3, <1>5
  <2> DEFINE gain(c) == IF c \in Verdict(e, a) THEN 1 ELSE 0
  <2>3. \A c \in Counters : count'[c] = count[c] + gain(c)
    BY <1>2
  <2>4. gain("enqueued") = 0 /\ gain("cleared") = 0
    BY <2>1
  <2>5. gain("success") + gain("failed") + gain("staleParent") + gain("invalid") + gain("duplicate") = 1
    BY <2>1
  <2>6. \A c \in Counters : gain(c) \in Int
    OBVIOUS
  <2> HIDE DEF gain
  <2>7. /\ count'.enqueued = count.enqueued + gain("enqueued")
        /\ count'.success = count.success + gain("success")
        /\ count'.failed = count.failed + gain("failed")
        /\ count'.staleParent = count.staleParent + gain("staleParent")
        /\ count'.invalid = count.invalid + gain("invalid")
        /\ count'.duplicate = count.duplicate + gain("duplicate")
        /\ count'.cleared = count.cleared + gain("cleared")
    BY <2>3 DEF Counters
  <2>8. /\ count.enqueued \in Int /\ count.success \in Int /\ count.failed \in Int
        /\ count.staleParent \in Int /\ count.invalid \in Int
        /\ count.duplicate \in Int /\ count.cleared \in Int
    BY <1>2 DEF Counters
  <2>9. /\ gain("success") \in Int /\ gain("failed") \in Int /\ gain("staleParent") \in Int
        /\ gain("invalid") \in Int /\ gain("duplicate") \in Int
    BY <2>6 DEF Counters
  <2> QED BY <1>3, <2>2, <2>4, <2>5, <2>7, <2>8, <2>9 DEF EventAccounting
<1> QED BY <1>4, <1>5

LEMMA ClearAccounting ==
  ASSUME TypeOK, EventAccounting, ClearTeacherEvents
  PROVE  EventAccounting'
<1>1. DOMAIN events' = {}
  BY DEF ClearTeacherEvents
<1>2. /\ count'.cleared = count.cleared + Cardinality(DOMAIN events)
      /\ \A c \in Counters \ {"cleared"} : count'[c] = count[c]
  BY DEF ClearTeacherEvents, Add, TypeOK, Counters
<1>3. Cardinality(DOMAIN events') = 0 /\ Cardinality(DOMAIN events) \in Nat
  BY <1>1, EventsFinite, FS_EmptySet
<1>4. \A c \in Counters : count[c] \in Nat
  BY DEF TypeOK
<1> QED BY <1>2, <1>3, <1>4 DEF EventAccounting, Counters

LEMMA NextAccounting ==
  ASSUME TypeOK, PoolAssumption, TreeShape, EventAccounting, ClientStep
  PROVE  EventAccounting'
<1>1. CASE \/ NextStep \/ (\E m \in 1..InjectSlots : Sample(m))
           \/ SampleSuffixSft(SftSlots) \/ CleanupInactiveTrees
           \/ \E r \in sftLent : RecordSuffixSft(r[1], r[2])
           \/ (\E routes \in FullBatches : MarkSuffixSftSampled(routes)) \/ UNCHANGED vars
  <2>1. UNCHANGED <<events, count>>
    BY <1>1 DEF NextStep, Sample, SampleEffect, SampleSuffixSft, RecordSuffixSft,
                MarkSuffixSftSampled, CleanupInactiveTrees, vars, poolVars
  <2> QED BY <2>1 DEF EventAccounting
<1>2. CASE ClearTeacherEvents
  BY <1>2, ClearAccounting
<1>3. ASSUME NEW k \in Prompt, NEW o \in Outcomes, RecordRootObservation(k, o[1], o[2])
      PROVE  EventAccounting'
  <2>1. o[2] \in Nat
    BY DEF Outcomes, PoolAssumption
  <2> QED BY <1>3, <2>1, ObserveAccounting DEF RecordRootObservation, poolVars, EventAccounting
<1>4. ASSUME NEW r \in lent, NEW o \in Outcomes, RecordObservation(r[1], r[2], o[1], o[2])
      PROVE  EventAccounting'
  <2>1. o[2] \in Nat
    BY DEF Outcomes, PoolAssumption
  <2> QED BY <1>4, <2>1, ObserveAccounting DEF RecordObservation, poolVars, EventAccounting
<1>5. ASSUME NEW s \in TeacherSteps, PendingTeacherRequests(DispatchSlots, s)
      PROVE  EventAccounting'
  <2>1. PICK out : DispatchEffect(out, s)
    BY <1>5 DEF PendingTeacherRequests
  <2>2. DOMAIN events' = DOMAIN events
    BY <2>1 DEF DispatchEffect
  <2>3. \A c \in Counters \ {"dispatched"} : count'[c] = count[c]
    BY <2>1 DEF DispatchEffect, Add, TypeOK
  <2> QED BY <2>2, <2>3, AccountingKept
<1>6. ASSUME NEW e \in owed, NEW a \in Answers, NEW s \in TeacherSteps, OnTeacherResponse(e, a, s)
      PROVE  EventAccounting'
  BY <1>6, AnswerAccounting
<1> QED BY <1>1, <1>2, <1>3, <1>4, <1>5, <1>6 DEF ClientStep

-----------------------------------------------------------------------------
(* The inductive invariant and the theorems.                               *)

\* TypeOK alone is not inductive: an answer types its child by looking up the
\* event's parent, which EventsHaveParents and QueueMirrorsEvents provide.
Inv == TypeOK /\ TreeShape /\ EventIndexes /\ LentNodesStayActive /\ EventAccounting

LEMMA InitInv == PoolAssumption /\ Init => Inv
<1> SUFFICES ASSUME PoolAssumption, Init PROVE Inv
  OBVIOUS
<1>1. TypeOK
  BY InitTypeOK
<1>2. DOMAIN trees = {} /\ DOMAIN nodes = {} /\ DOMAIN events = {}
  BY DEF Init
<1>3. TreeShape
  BY <1>2 DEF TreeShape, TreesHaveRoots
<1>4. EventIndexes
  BY <1>2 DEF Init, EventIndexes, QueueMirrorsEvents, EventsHaveParents, InFlightIsOwed
<1>5. LentNodesStayActive
  BY DEF Init, LentNodesStayActive
<1>6. EventAccounting
  BY <1>2, FS_EmptySet DEF Init, EventAccounting, Counters
<1> QED BY <1>1, <1>3, <1>4, <1>5, <1>6 DEF Inv

LEMMA ClientInv ==
  ASSUME PoolAssumption, Inv, ClientStep
  PROVE  Inv'
<1>1. TypeOK'
  BY NextTypeOK DEF Inv, TreeShape, EventIndexes
<1>2. TreeShape' /\ EventIndexes' /\ LentNodesStayActive' /\ EventAccounting'
  BY NextTreeShape, NextEventIndexes, NextLent, NextAccounting DEF Inv
<1> QED BY <1>1, <1>2 DEF Inv

LEMMA NextInv == PoolAssumption /\ Inv /\ [Next]_vars => Inv'
BY NextIsClientStep, ClientInv

LEMMA Invariance == Spec => []Inv
<1>1. PoolAssumption
  BY PoolAssumption
<1> QED BY <1>1, InitInv, NextInv, PTL DEF Spec

\* Every value the pool ever holds is of the type its dataclasses declare, and
\* no stamp of a tree, node or event lies in the future.
THEOREM Types == Spec => []TypeOK
<1>1. Inv => TypeOK
  BY DEF Inv
<1> QED BY <1>1, Invariance, PTL

\* Whatever the order of observations, answers and clean-ups, each tree stays a
\* tree of distinct prompt states, every child a valid extension of its parent.
THEOREM Shape == Spec => []TreeShape
<1>1. Inv => TreeShape
  BY DEF Inv
<1> QED BY <1>1, Invariance, PTL

\* The per-tree deques of _failed_by_tree hold the ids of exactly the live
\* events, and every event in flight has a worker task that owes its answer.
THEOREM EventsReachable == Spec => [](QueueMirrorsEvents /\ InFlightIsOwed)
<1>1. Inv => QueueMirrorsEvents /\ InFlightIsOwed
  BY DEF Inv, EventIndexes
<1> QED BY <1>1, Invariance, PTL

\* No event outlives its tree or its parent node, so that the lookups of
\* on_teacher_response always succeed; and a node lent to the rollouts stays an
\* active candidate of its tree until they are recorded, whatever the teacher's
\* thread does meanwhile.
THEOREM InUseStays == Spec => []NothingDangles
<1>1. Inv => NothingDangles
  BY DEF Inv, EventIndexes, NothingDangles
<1> QED BY <1>1, Invariance, PTL

\* No failed trajectory's event is lost or counted twice.
THEOREM Accounting == Spec => []EventAccounting
<1>1. Inv => EventAccounting
  BY DEF Inv
<1> QED BY <1>1, Invariance, PTL

-----------------------------------------------------------------------------
(* The action properties.                                                  *)

LEMMA NextDispatchedOnce ==
  ASSUME TypeOK, InFlightIsOwed, PoolAssumption, ClientStep
  PROVE  count'.dispatched - count.dispatched = Cardinality(owed' \ owed)
<1>0. count.dispatched \in Nat
  BY DEF TypeOK, Counters
<1>1. CASE \E s \in TeacherSteps : PendingTeacherRequests(DispatchSlots, s)
  <2>1. PICK s \in TeacherSteps : PendingTeacherRequests(DispatchSlots, s)
    BY <1>1
  <2> DEFINE candidates == {k \in DOMAIN trees : SelectedEvents(k) # {}}
  <2>2. PICK chosen \in SUBSET candidates : \E pick \in [chosen -> DOMAIN events] :
          /\ \A k \in chosen : pick[k] \in SelectedEvents(k)
          /\ DispatchEffect({pick[k] : k \in chosen}, s)
    BY <2>1 DEF PendingTeacherRequests
  <2>3. PICK pick \in [chosen -> DOMAIN events] :
          /\ \A k \in chosen : pick[k] \in SelectedEvents(k)
          /\ DispatchEffect({pick[k] : k \in chosen}, s)
    BY <2>2
  <2> DEFINE out == {pick[k] : k \in chosen}
  <2>4. owed' = owed \cup out /\ count' = Add("dispatched", Cardinality(out))
    BY <2>3 DEF DispatchEffect
  <2>5. \A k : \A e \in SelectedEvents(k) : e \in DOMAIN events /\ ~events[e].inFlight
    BY DEF SelectedEvents, Dispatchable
  <2>6. \A e \in out : e \in DOMAIN events /\ e \notin owed
    BY <2>3, <2>5 DEF InFlightIsOwed
  <2> HIDE DEF out
  <2>7. owed' \ owed = out
    BY <2>4, <2>6
  <2>8. out \in SUBSET DOMAIN events
    BY <2>6
  <2>9. Cardinality(out) \in Nat
    <3>1. IsFiniteSet(out)
      BY <2>8, EventsFinite, FS_Subset
    <3> QED BY <3>1, FS_CardinalityType
  <2>10. count'.dispatched = count.dispatched + Cardinality(out)
    BY <2>4, <2>9, AddTyping DEF Counters
  <2> DEFINE size == Cardinality(out)
  <2>11. Cardinality(owed' \ owed) = size /\ size \in Nat
    BY <2>7, <2>9
  <2>12. count'.dispatched = count.dispatched + size
    BY <2>10
  <2> HIDE DEF size
  <2> QED BY <1>0, <2>11, <2>12
<1>2. CASE ~\E s \in TeacherSteps : PendingTeacherRequests(DispatchSlots, s)
  <2>1. owed' \subseteq owed
    BY <1>2 DEF ClientStep, NextStep, Sample, SampleEffect,
                RecordRootObservation, RecordObservation, CleanupInactiveTrees, SampleSuffixSft,
                RecordSuffixSft, ClearTeacherEvents, MarkSuffixSftSampled, OnTeacherResponse, vars
  <2>2. count'.dispatched = count.dispatched
    <3>1. CASE count' = count
      BY <3>1
    <3>2. CASE \E c \in {"enqueued", "cleared"} : \E n : count' = Add(c, n)
      BY <3>2 DEF Add, TypeOK, Counters
    <3>3. CASE \E e, a : count' = Bump(Verdict(e, a))
      BY <3>3 DEF Bump, Verdict, TypeOK, Counters
    <3>4. \A ns, k, n, bad, m : Observe(ns, k, n, bad, m) =>
            count' = count \/ \E x : count' = Add("enqueued", x)
      BY DEF Observe, EnqueueEvents
    <3>5. \/ count' = count
          \/ \E c \in {"enqueued", "cleared"} : \E n : count' = Add(c, n)
          \/ \E e, a : count' = Bump(Verdict(e, a))
      <4>1. \A k \in Prompt, o \in Outcomes : RecordRootObservation(k, o[1], o[2]) =>
              count' = count \/ \E x : count' = Add("enqueued", x)
        BY <3>4 DEF RecordRootObservation, poolVars
      <4>2. \A r \in lent, o \in Outcomes : RecordObservation(r[1], r[2], o[1], o[2]) =>
              count' = count \/ \E x : count' = Add("enqueued", x)
        BY <3>4 DEF RecordObservation, poolVars
      <4> QED BY <1>2, <4>1, <4>2 DEF ClientStep, NextStep, Sample,
                SampleEffect, CleanupInactiveTrees, SampleSuffixSft, RecordSuffixSft,
                ClearTeacherEvents, MarkSuffixSftSampled, OnTeacherResponse, vars, poolVars
    <3> QED BY <3>1, <3>2, <3>3, <3>5
  <2>3. owed' \ owed = {} /\ Cardinality({}) = 0
    BY <2>1, FS_EmptySet
  <2> QED BY <1>0, <2>2, <2>3
<1> QED BY <1>1, <1>2

\* An event goes to one worker task only, until that task answers it: no two
\* teacher requests are ever made for one failed trajectory at a time.
THEOREM OneDispatch == Spec => DispatchedOnce
<1>1. PoolAssumption /\ Inv /\ [Next]_vars =>
        [count'.dispatched - count.dispatched = Cardinality(owed' \ owed)]_vars
  BY NextIsClientStep, NextDispatchedOnce DEF Inv, EventIndexes
<1>2. PoolAssumption
  BY PoolAssumption
<1> QED BY <1>1, <1>2, Invariance, PTL DEF Spec, DispatchedOnce

LEMMA NextNoChildOfRetired ==
  ASSUME TypeOK, TreeShape, ClientStep
  PROVE  \A n \in DOMAIN nodes' \ DOMAIN nodes :
           nodes'[n].parent # NoParent => nodes[nodes'[n].parent].active
<1>1. CASE \/ NextStep \/ (\E m \in 1..InjectSlots : Sample(m))
           \/ SampleSuffixSft(SftSlots)
           \/ \E r \in sftLent : RecordSuffixSft(r[1], r[2])
           \/ ClearTeacherEvents \/ (\E routes \in FullBatches : MarkSuffixSftSampled(routes))
           \/ \E s \in TeacherSteps : PendingTeacherRequests(DispatchSlots, s)
           \/ UNCHANGED vars
  BY <1>1, StampSameShape DEF SameShape
<1>2. ASSUME NEW k \in Prompt, NEW o \in Outcomes, RecordRootObservation(k, o[1], o[2])
      PROVE  \A n \in DOMAIN nodes' \ DOMAIN nodes : nodes'[n].parent = NoParent
  <2>1. CASE NewTreeStep(k, o[1], o[2])
    <3>1. Joins(nodeCount', k, NoParent, << >>)
      BY <2>1, NewTreeJoins
    <3> QED BY <3>1 DEF Joins
  <2>2. CASE SameShape
    BY <2>2 DEF SameShape
  <2> QED BY <1>2, <2>1, <2>2, RootObservationCases
<1>3. ASSUME NEW r \in lent, NEW o \in Outcomes, RecordObservation(r[1], r[2], o[1], o[2])
      PROVE  DOMAIN nodes' = DOMAIN nodes
  BY <1>3, ObservationCases DEF SameShape
<1>4. CASE CleanupInactiveTrees
  BY <1>4 DEF CleanupInactiveTrees, Without, Restrict
<1>5. ASSUME NEW e \in owed, NEW a \in Answers, NEW s \in TeacherSteps, OnTeacherResponse(e, a, s)
      PROVE  \A n \in DOMAIN nodes' \ DOMAIN nodes : nodes[nodes'[n].parent].active
  <2>1. CASE NewChildStep(e, a, s)
    <3>1. Verdict(e, a) = {"success"}
      BY <2>1 DEF NewChildStep
    <3>2. nodes[events[e].parent].active
      BY <3>1, SuccessMeans DEF ParentLives
    <3>3. Joins(nodeCount', events[e].tree, events[e].parent, a.prefix)
      BY <2>1, NewChildJoins
    <3> QED BY <3>2, <3>3 DEF Joins
  <2>2. CASE UNCHANGED <<trees, nodes, nodeCount>>
    BY <2>2
  <2> QED BY <1>5, <2>1, <2>2, AnswerCases
<1> QED BY <1>1, <1>2, <1>3, <1>4, <1>5 DEF ClientStep

\* An answer that comes back after its parent was retired adds no child.
THEOREM RetiredStayChildless == Spec => NoChildOfRetired
<1>1. Inv /\ [Next]_vars =>
        [\A n \in DOMAIN nodes' \ DOMAIN nodes :
           nodes'[n].parent # NoParent => nodes[nodes'[n].parent].active]_vars
  BY NextIsClientStep, NextNoChildOfRetired DEF Inv
<1> QED BY <1>1, Invariance, PTL DEF Spec, NoChildOfRetired

\* For any number of concurrent tasks, an event has one annotator at a time
\* and its answer counts only while its parent lives
\* (pending_teacher_requests, on_teacher_response).
THEOREM AnswersCount == Spec => OneUsefulAnswer
BY OneDispatch, RetiredStayChildless DEF OneUsefulAnswer

-----------------------------------------------------------------------------
(***************************************************************************)
(* The LRU promises of the prefix forest, for any number of trees, nodes,  *)
(* slots and steps.  A history is a pair of which the second was served in *)
(* place of the first; the proof turns it into an order of stamps: the one *)
(* passed over has the older stamp as long as it waits, so the samplers,   *)
(* which go by the stamps, do not prefer the other again.                  *)
(***************************************************************************)

\* The order of Python's tuples begins with the first component.
LEMMA FirstDecides ==
  ASSUME NEW a, NEW b, TupleLess(a, b), 1 \in DOMAIN a, DOMAIN a \subseteq 1..3,
         a[1] \in Int, b[1] \in Int
  PROVE  a[1] <= b[1]
<1>1. PICK i \in DOMAIN a : a[i] < b[i] /\ \A j \in 1..(i - 1) : a[j] = b[j]
  BY DEF TupleLess
<1>2. CASE i = 1
  BY <1>1, <1>2
<1>3. CASE i # 1
  <2>1. 1 \in 1..(i - 1)
    BY <1>3
  <2> QED BY <1>1, <2>1
<1> QED BY <1>2, <1>3

LEMMA LeastHasLeast ==
  ASSUME TypeOK, NEW S \in SUBSET DOMAIN nodes, NEW n \in LeastUsed(S, NodeRolloutKey), NEW m \in S
  PROVE  nodes[n].lastRollout <= nodes[m].lastRollout
<1>1. n \in DOMAIN nodes /\ m \in DOMAIN nodes
  BY DEF LeastUsed
<1>2. nodes[n].lastRollout \in Int /\ nodes[m].lastRollout \in Int
  BY <1>1 DEF TypeOK, NodeType, Stamp
<1>3. ~TupleLess(NodeRolloutKey[m], NodeRolloutKey[n])
  BY DEF LeastUsed
<1>4. NodeRolloutKey[m] = <<nodes[m].lastRollout, nodes[m].created>>
      /\ NodeRolloutKey[n] = <<nodes[n].lastRollout, nodes[n].created>>
  BY <1>1 DEF NodeRolloutKey
<1>5. ~(nodes[m].lastRollout < nodes[n].lastRollout)
  <2> SUFFICES ASSUME nodes[m].lastRollout < nodes[n].lastRollout
               PROVE  TupleLess(NodeRolloutKey[m], NodeRolloutKey[n])
    BY <1>3
  <2>1. /\ 1 \in DOMAIN NodeRolloutKey[m]
        /\ NodeRolloutKey[m][1] < NodeRolloutKey[n][1]
        /\ \A j \in 1..(1 - 1) : NodeRolloutKey[m][j] = NodeRolloutKey[n][j]
    BY <1>4
  <2> HIDE DEF NodeRolloutKey
  <2> QED BY <2>1 DEF TupleLess
<1> QED BY <1>2, <1>5

-----------------------------------------------------------------------------
(* What a step does to the stamps of rollouts.                             *)

\* No tree is stamped, nodes only if they are roots or were lent.
Quiet ==
  /\ \A k \in DOMAIN trees \cap DOMAIN trees' : trees'[k].lastRollout = trees[k].lastRollout
  /\ \A n \in DOMAIN nodes \cap DOMAIN nodes' :
       /\ nodes'[n].tree = nodes[n].tree /\ nodes'[n].parent = nodes[n].parent
       /\ \/ nodes'[n].lastRollout = nodes[n].lastRollout
          \/ nodes'[n].lastRollout = step /\ (nodes[n].parent = NoParent \/ \E r \in lent : r[2] = n)
  /\ \A n \in DOMAIN nodes' \ DOMAIN nodes :
       nodes'[n].parent = NoParent \/ nodes'[n].lastRollout = Never
  /\ lent' \subseteq lent /\ (lent' = {} \/ step' = step)

LEMMA ObserveQuiet ==
  ASSUME TypeOK, NEW k, NEW n \in DOMAIN nodes, NEW bad, NEW m,
         Observe(nodes, k, n, bad, m), UNCHANGED <<trees, step>>, lent' \subseteq lent,
         nodes[n].parent = NoParent \/ \E r \in lent : r[2] = n
  PROVE  Quiet
<1>1. SameShape
  BY ObserveSameShape
<1>2. nodes' = [nodes EXCEPT ![n] = [@ EXCEPT !.lastRollout = step, !.active = (bad > 0)]]
  BY DEF Observe
<1>3. nodes[n] \in NodeType
  BY DEF TypeOK
<1>4. nodes'[n].lastRollout = step /\ \A x \in DOMAIN nodes : x # n => nodes'[x] = nodes[x]
  BY <1>2, <1>3 DEF NodeType
<1> QED BY <1>1, <1>4 DEF Quiet, SameShape

LEMMA NewTreeQuiet ==
  ASSUME TypeOK, TreeShape, NEW k \in Prompt, NEW bad, NEW m,
         NewTreeStep(k, bad, m), UNCHANGED <<step, lent>>
  PROVE  Quiet
<1> DEFINE c == nodeCount'
           ns == Put(nodes, c, NewNode(k, NoParent, << >>, FALSE, step))
<1>1. Joins(c, k, NoParent, << >>)
  BY NewTreeJoins
<1>2. DOMAIN ns = DOMAIN nodes \cup {c} /\ \A x \in DOMAIN nodes : ns[x] = nodes[x]
  BY <1>1 DEF Put, Joins
<1>3. nodes' = [ns EXCEPT ![c] = [@ EXCEPT !.lastRollout = step, !.active = (bad > 0)]]
  BY DEF NewTreeStep, Observe
<1>4. c \notin DOMAIN nodes
  BY <1>1 DEF Joins
<1>5. \A j \in DOMAIN trees : trees'[j] = trees[j]
  BY DEF NewTreeStep, Put
<1> HIDE DEF ns, c
<1>6. \A x \in DOMAIN nodes : nodes'[x] = nodes[x]
  BY <1>2, <1>3, <1>4
<1> QED BY <1>1, <1>5, <1>6 DEF Joins, Quiet

LEMMA NewChildQuiet ==
  ASSUME TypeOK, NEW e, NEW a, NEW s, NewChildStep(e, a, s), UNCHANGED <<step, lent>>
  PROVE  Quiet
<1> DEFINE c == nodeCount'
           p == events[e].parent
           child == NewNode(events[e].tree, p, a.prefix, TRUE, s)
           new == Put(nodes, c, child)
<1>1. Joins(c, events[e].tree, p, a.prefix)
  BY NewChildJoins
<1>2. p \in DOMAIN nodes
  BY SuccessMeans DEF NewChildStep, ParentLives, NodesOf
<1>3. DOMAIN new = DOMAIN nodes \cup {c} /\ new[c] = child /\ \A n \in DOMAIN nodes : new[n] = nodes[n]
  BY <1>1 DEF Put, Joins
<1>4. nodes' = [new EXCEPT ![p].children = @ \cup {c}]
  BY DEF NewChildStep, WithChild
<1>5. c \notin DOMAIN nodes
  BY <1>1 DEF Joins
<1>6. nodes'[c] = child /\ nodes'[p] = [nodes[p] EXCEPT !.children = @ \cup {c}]
      /\ \A n \in DOMAIN nodes \ {p} : nodes'[n] = nodes[n]
  <2> HIDE DEF new, child, c, p
  <2> QED BY <1>2, <1>3, <1>4, <1>5
<1>7. nodes'[c].lastRollout = Never
  BY <1>6 DEF NewNode
<1>8. nodes'[p].lastRollout = nodes[p].lastRollout
  <2>1. nodes[p] \in NodeType
    BY <1>2 DEF TypeOK
  <2> QED BY <1>6, <2>1 DEF NodeType
<1>9. trees' = trees
  BY DEF NewChildStep
<1> HIDE DEF c, p, child
<1>10. \A n \in DOMAIN nodes : nodes'[n].lastRollout = nodes[n].lastRollout
  BY <1>6, <1>8
<1> QED BY <1>1, <1>7, <1>9, <1>10 DEF Joins, Quiet

LEMMA StampQuiet ==
  ASSUME TypeOK,
         \/ NextStep
         \/ \E n, s : PendingTeacherRequests(n, s)
         \/ SampleSuffixSft(SftSlots)
         \/ \E r \in sftLent : RecordSuffixSft(r[1], r[2])
         \/ ClearTeacherEvents
         \/ (\E routes \in FullBatches : MarkSuffixSftSampled(routes))
         \/ UNCHANGED vars
  PROVE  Quiet
<1>0. SameShape
  BY StampSameShape
<1>1. lent' \subseteq lent /\ (lent' = {} \/ step' = step)
  BY DEF NextStep, PendingTeacherRequests, DispatchEffect, SampleSuffixSft, RecordSuffixSft,
         ClearTeacherEvents, MarkSuffixSftSampled, vars
<1> DEFINE Same == /\ \A k \in DOMAIN trees : trees'[k].lastRollout = trees[k].lastRollout
                   /\ \A n \in DOMAIN nodes : nodes'[n].lastRollout = nodes[n].lastRollout
<1>2. \A n \in DOMAIN nodes : nodes[n] \in NodeType
  BY DEF TypeOK
<1>3. \A k \in DOMAIN trees : trees[k] \in TreeType
  BY DEF TypeOK
<1>4. CASE NextStep \/ ClearTeacherEvents \/ UNCHANGED vars
  <2>1. UNCHANGED <<trees, nodes>>
    BY <1>4 DEF NextStep, ClearTeacherEvents, vars, poolVars
  <2> QED BY <1>0, <1>1, <2>1 DEF Quiet, SameShape
<1>5. CASE \E n, s : PendingTeacherRequests(n, s)
  <2>1. PICK out, s : DispatchEffect(out, s)
    BY <1>5 DEF PendingTeacherRequests
  <2>2. Same
    BY <1>2, <1>3, <2>1 DEF DispatchEffect, NodeType, TreeType
  <2> QED BY <1>0, <1>1, <2>2 DEF Quiet, SameShape
<1>6. CASE SampleSuffixSft(SftSlots) \/ (\E routes \in FullBatches : MarkSuffixSftSampled(routes))
  <2>1. PICK routes : StampSft(routes)
    BY <1>6 DEF SampleSuffixSft, MarkSuffixSftSampled
  <2>2. Same
    BY <1>2, <1>3, <2>1 DEF StampSft, NodeType, TreeType
  <2> QED BY <1>0, <1>1, <2>2 DEF Quiet, SameShape
<1>7. CASE \E r \in sftLent : RecordSuffixSft(r[1], r[2])
  <2>1. PICK r \in sftLent : RecordSuffixSft(r[1], r[2])
    BY <1>7
  <2>2. Same
    BY <1>2, <1>3, <2>1 DEF RecordSuffixSft, NodeType
  <2> QED BY <1>0, <1>1, <2>2 DEF Quiet, SameShape
<1> QED BY <1>4, <1>5, <1>6, <1>7

LEMMA CleanupQuiet == ASSUME CleanupInactiveTrees PROVE Quiet
<1>1. /\ DOMAIN trees' \subseteq DOMAIN trees /\ \A k \in DOMAIN trees' : trees'[k] = trees[k]
      /\ DOMAIN nodes' \subseteq DOMAIN nodes /\ \A n \in DOMAIN nodes' : nodes'[n] = nodes[n]
      /\ lent' = lent /\ step' = step
  BY DEF CleanupInactiveTrees, Without, Restrict
<1> QED BY <1>1 DEF Quiet

\* Only sampling stamps a tree for its rollouts.
LEMMA QuietOrSample ==
  ASSUME Inv, [Next]_vars
  PROVE  Quiet \/ \E n \in 1..InjectSlots : Sample(n)
<1>0. TypeOK /\ TreeShape /\ LentNodesStayActive /\ ClientStep
  BY NextIsClientStep DEF Inv
<1>1. ASSUME NEW k \in Prompt, NEW o \in Outcomes, RecordRootObservation(k, o[1], o[2])
      PROVE  Quiet
  <2>1. lent' = lent /\ step' = step
    BY <1>1 DEF RecordRootObservation
  <2>2. CASE /\ k \in DOMAIN trees /\ trees[k].root \in NodesOf(k)
             /\ Observe(nodes, k, trees[k].root, o[1], o[2]) /\ UNCHANGED trees /\ SameShape
    <3>1. trees[k].root \in DOMAIN nodes /\ nodes[trees[k].root].parent = NoParent
      BY <1>0, <2>2 DEF NodesOf, TreeShape
    <3> QED BY <1>0, <2>1, <2>2, <3>1, ObserveQuiet
  <2>3. CASE NewTreeStep(k, o[1], o[2])
    BY <1>0, <2>1, <2>3, NewTreeQuiet
  <2>4. CASE UNCHANGED poolVars /\ SameShape
    BY <2>1, <2>4 DEF poolVars, Quiet
  <2> QED BY <1>0, <1>1, <2>2, <2>3, <2>4, RootObservationCases
<1>2. ASSUME NEW r \in lent, NEW o \in Outcomes, RecordObservation(r[1], r[2], o[1], o[2])
      PROVE  Quiet
  <2>1. lent' \subseteq lent /\ step' = step
    BY <1>2 DEF RecordObservation
  <2>2. CASE UNCHANGED poolVars
    BY <2>1, <2>2 DEF poolVars, Quiet
  <2>3. CASE /\ r[1] \in DOMAIN trees /\ r[2] \in NodesOf(r[1])
             /\ Observe(nodes, r[1], r[2], o[1], o[2]) /\ UNCHANGED trees
    <3>1. r[2] \in DOMAIN nodes
      BY <2>3 DEF NodesOf
    <3> QED BY <1>0, <2>1, <2>3, <3>1, ObserveQuiet
  <2> QED BY <1>0, <1>2, <2>2, <2>3, ObservationCases
<1>3. ASSUME NEW e \in owed, NEW a \in Answers, NEW s \in TeacherSteps, OnTeacherResponse(e, a, s)
      PROVE  Quiet
  <2>1. UNCHANGED <<step, lent>>
    BY <1>3 DEF OnTeacherResponse
  <2>2. CASE NewChildStep(e, a, s)
    BY <1>0, <2>1, <2>2, NewChildQuiet
  <2>3. CASE UNCHANGED <<trees, nodes, nodeCount>>
    BY <2>1, <2>3 DEF Quiet
  <2> QED BY <1>3, <2>2, <2>3, AnswerCases
<1>4. CASE \/ NextStep
           \/ \E s \in TeacherSteps : PendingTeacherRequests(DispatchSlots, s)
           \/ SampleSuffixSft(SftSlots)
           \/ \E r \in sftLent : RecordSuffixSft(r[1], r[2])
           \/ ClearTeacherEvents
           \/ (\E routes \in FullBatches : MarkSuffixSftSampled(routes))
           \/ UNCHANGED vars
  BY <1>0, <1>4, StampQuiet
<1>5. CASE CleanupInactiveTrees
  BY <1>5, CleanupQuiet
<1> QED BY <1>0, <1>1, <1>2, <1>3, <1>4, <1>5 DEF ClientStep
\* In a tree that was not sampled in this step no prompt state was rolled out
\* in it, and what is lent was sampled in this step.
StampsOrdered ==
  /\ \A n \in DOMAIN nodes : nodes[n].parent # NoParent =>
       nodes[n].lastRollout <= trees[nodes[n].tree].lastRollout
  /\ \A r \in lent : trees[r[1]].lastRollout = step

\* What Sample does for the trees chosen and the nodes picked of them.
Sampled(chosen, pick) ==
  /\ \A k \in chosen : /\ pick[k] \in RolloutCandidates(k)
                       /\ \A m \in RolloutCandidates(k) : nodes[pick[k]].lastRollout <= nodes[m].lastRollout
  /\ \A k \in chosen, j \in Eligible \ chosen : trees[k].lastRollout <= trees[j].lastRollout
  /\ \A k \in DOMAIN trees : trees'[k].lastRollout = IF k \in chosen THEN step ELSE trees[k].lastRollout
  /\ \A m \in DOMAIN nodes : nodes'[m].lastRollout =
       IF \E k \in chosen : pick[k] = m THEN step ELSE nodes[m].lastRollout
  /\ SampledTrees = chosen /\ SampledNodes = {pick[k] : k \in chosen}
  /\ lent' = lent \cup {<<k, pick[k]>> : k \in chosen} /\ step' = step

LEMMA SampleDoes ==
  ASSUME Inv, StampsOrdered, NEW n \in 1..InjectSlots, Sample(n)
  PROVE  \E chosen \in SUBSET Eligible : \E pick \in [chosen -> DOMAIN nodes] : Sampled(chosen, pick)
<1>0. TypeOK
  BY DEF Inv
<1>1. PICK chosen \in SUBSET Eligible : \E pick \in [chosen -> DOMAIN nodes] :
        /\ IsFirst(n, Eligible, RolloutKey, chosen)
        /\ \A k \in chosen : pick[k] \in LeastUsed(RolloutCandidates(k), NodeRolloutKey)
        /\ SampleEffect(chosen, pick)
  BY DEF Sample
<1>2. PICK pick \in [chosen -> DOMAIN nodes] :
        /\ IsFirst(n, Eligible, RolloutKey, chosen)
        /\ \A k \in chosen : pick[k] \in LeastUsed(RolloutCandidates(k), NodeRolloutKey)
        /\ SampleEffect(chosen, pick)
  BY <1>1
<1>3. \A k \in DOMAIN trees : trees[k] \in TreeType /\ trees[k].lastRollout \in Int
  BY <1>0 DEF TypeOK, TreeType, Stamp
<1>4. \A k \in chosen : /\ pick[k] \in RolloutCandidates(k)
                        /\ \A m \in RolloutCandidates(k) : nodes[pick[k]].lastRollout <= nodes[m].lastRollout
  <2> TAKE k \in chosen
  <2>1. pick[k] \in LeastUsed(RolloutCandidates(k), NodeRolloutKey) /\ RolloutCandidates(k) \in SUBSET DOMAIN nodes
    BY <1>2 DEF RolloutCandidates, NodesOf
  <2> QED BY <1>0, <2>1, LeastHasLeast DEF LeastUsed
<1>5. \A k \in chosen, j \in Eligible \ chosen : trees[k].lastRollout <= trees[j].lastRollout
  <2> TAKE k \in chosen, j \in Eligible \ chosen
  <2>1. k \in DOMAIN trees /\ j \in DOMAIN trees
    BY DEF Eligible, ReadyTrees
  <2>2. TupleLess(RolloutKey[k], RolloutKey[j])
    BY <1>2 DEF IsFirst
  <2>3. RolloutKey[k] = <<trees[k].lastRollout, trees[k].created, k>>
        /\ RolloutKey[j] = <<trees[j].lastRollout, trees[j].created, j>>
    BY <2>1 DEF RolloutKey
  <2>4. 1 \in DOMAIN RolloutKey[k] /\ DOMAIN RolloutKey[k] \subseteq 1..3
        /\ RolloutKey[k][1] = trees[k].lastRollout /\ RolloutKey[j][1] = trees[j].lastRollout
    BY <2>3
  <2> QED BY <1>3, <2>1, <2>2, <2>4, FirstDecides
<1>6. \A k \in DOMAIN trees : trees'[k].lastRollout = IF k \in chosen THEN step ELSE trees[k].lastRollout
  BY <1>2, <1>3 DEF SampleEffect, TreeType
<1>7. \A m \in DOMAIN nodes : nodes'[m].lastRollout =
        IF \E k \in chosen : pick[k] = m THEN step ELSE nodes[m].lastRollout
  <2>1. \A m \in DOMAIN nodes : nodes[m] \in NodeType
    BY <1>0 DEF TypeOK
  <2> QED BY <1>2, <2>1 DEF SampleEffect, NodeType
<1>8. lent' = lent \cup {<<k, pick[k]>> : k \in chosen} /\ step' = step
  BY <1>2 DEF SampleEffect
<1>9. \A k \in chosen : <<k, pick[k]>> \notin lent
  BY DEF StampsOrdered, Eligible
<1>10. lent' \ lent = {<<k, pick[k]>> : k \in chosen}
  BY <1>8, <1>9
<1>11. SampledTrees = chosen /\ SampledNodes = {pick[k] : k \in chosen}
  <2>1. ASSUME NEW r \in lent' \ lent PROVE r[1] \in chosen /\ r[2] = pick[r[1]]
    <3>1. PICK k \in chosen : r = <<k, pick[k]>>
      BY <1>10, <2>1
    <3> QED BY <3>1
  <2>2. ASSUME NEW k \in chosen PROVE \E r \in lent' \ lent : r[1] = k /\ r[2] = pick[k]
    <3>1. <<k, pick[k]>> \in lent' \ lent
      BY <1>10, <2>2
    <3> QED BY <3>1
  <2>3. SampledTrees = chosen
    BY <2>1, <2>2 DEF SampledTrees
  <2>4. SampledNodes = {pick[k] : k \in chosen}
    BY <2>1, <2>2 DEF SampledNodes
  <2> QED BY <2>3, <2>4
<1>12. Sampled(chosen, pick)
  BY <1>4, <1>5, <1>6, <1>7, <1>8, <1>11 DEF Sampled
<1> QED BY <1>12

LEMMA NextStampsOrdered ==
  ASSUME Inv, Inv', StampsOrdered, [Next]_vars
  PROVE  StampsOrdered'
<1>0. /\ step \in Nat
      /\ \A k \in DOMAIN trees : trees[k].lastRollout \in -1..step
      /\ \A n \in DOMAIN nodes : nodes[n].lastRollout \in -1..step /\ nodes[n].tree \in DOMAIN trees
      /\ \A k \in DOMAIN trees' : trees'[k].lastRollout \in -1..step'
      /\ \A n \in DOMAIN nodes' : nodes'[n].lastRollout \in -1..step' /\ nodes'[n].tree \in DOMAIN trees'
  BY DEF Inv, TypeOK, TreeType, NodeType, Stamp, TreeShape
<1>1. \A r \in lent : r[1] \in DOMAIN trees /\ r[2] \in DOMAIN nodes /\ nodes[r[2]].tree = r[1]
  BY DEF Inv, LentNodesStayActive, RolloutCandidates, NodesOf
<1>2. \A r \in lent' : r[1] \in DOMAIN trees'
  BY DEF Inv, LentNodesStayActive
<1>3. CASE Quiet
  <2>1. ASSUME NEW n \in DOMAIN nodes', nodes'[n].parent # NoParent
        PROVE  nodes'[n].lastRollout <= trees'[nodes'[n].tree].lastRollout
    <3>1. CASE n \in DOMAIN nodes
      <4> DEFINE k == nodes[n].tree
      <4>1. k \in DOMAIN trees \cap DOMAIN trees' /\ nodes'[n].tree = k /\ nodes[n].parent # NoParent
        BY <1>0, <1>3, <2>1, <3>1 DEF Quiet
      <4>2. trees'[k].lastRollout = trees[k].lastRollout /\ nodes[n].lastRollout <= trees[k].lastRollout
        BY <1>3, <3>1, <4>1 DEF Quiet, StampsOrdered
      <4>3. CASE nodes'[n].lastRollout = nodes[n].lastRollout
        BY <4>1, <4>2, <4>3
      <4>4. ASSUME NEW r \in lent, r[2] = n, nodes'[n].lastRollout = step
            PROVE  nodes'[n].lastRollout <= trees'[nodes'[n].tree].lastRollout
        BY <1>0, <1>1, <4>1, <4>2, <4>4 DEF StampsOrdered
      <4> QED BY <1>3, <3>1, <4>1, <4>3, <4>4 DEF Quiet
    <3>2. CASE n \notin DOMAIN nodes
      BY <1>0, <1>3, <2>1, <3>2 DEF Quiet, Never
    <3> QED BY <3>1, <3>2
  <2>2. \A r \in lent' : trees'[r[1]].lastRollout = step'
    BY <1>1, <1>2, <1>3 DEF Quiet, StampsOrdered
  <2> QED BY <2>1, <2>2 DEF StampsOrdered
<1>4. ASSUME NEW n \in 1..InjectSlots, Sample(n) PROVE StampsOrdered'
  <2>1. PICK chosen \in SUBSET Eligible : \E pick \in [chosen -> DOMAIN nodes] : Sampled(chosen, pick)
    BY <1>4, SampleDoes
  <2>2. PICK pick \in [chosen -> DOMAIN nodes] : Sampled(chosen, pick)
    BY <2>1
  <2>3. SameShape
    BY <1>4, StampSameShape DEF Inv
  <2>4. ASSUME NEW m \in DOMAIN nodes', nodes'[m].parent # NoParent
        PROVE  nodes'[m].lastRollout <= trees'[nodes'[m].tree].lastRollout
    <3>1. m \in DOMAIN nodes /\ nodes'[m].tree = nodes[m].tree /\ nodes[m].parent # NoParent
      BY <2>3, <2>4 DEF SameShape
    <3>2. CASE \E k \in chosen : pick[k] = m
      <4>1. PICK k \in chosen : pick[k] = m
        BY <3>2
      <4>2. nodes[m].tree = k /\ k \in DOMAIN trees
        BY <2>2, <4>1 DEF Sampled, RolloutCandidates, NodesOf, Eligible, ReadyTrees
      <4> QED BY <1>0, <2>2, <3>1, <3>2, <4>2 DEF Sampled
    <3>3. CASE ~\E k \in chosen : pick[k] = m
      <4>1. nodes'[m].lastRollout = nodes[m].lastRollout
        BY <2>2, <3>1, <3>3 DEF Sampled
      <4>2. trees'[nodes[m].tree].lastRollout \in {step, trees[nodes[m].tree].lastRollout}
        BY <1>0, <2>2, <3>1 DEF Sampled
      <4> QED BY <1>0, <3>1, <4>1, <4>2 DEF StampsOrdered
    <3> QED BY <3>2, <3>3
  <2>5. ASSUME NEW r \in lent' PROVE trees'[r[1]].lastRollout = step'
    <3>1. CASE r \in lent
      BY <1>1, <2>2, <3>1 DEF Sampled, StampsOrdered
    <3>2. CASE r \notin lent
      <4>1. PICK k \in chosen : r = <<k, pick[k]>>
        BY <2>2, <3>2 DEF Sampled
      <4> QED BY <2>2, <4>1 DEF Sampled, Eligible, ReadyTrees
    <3> QED BY <3>1, <3>2
  <2> QED BY <2>4, <2>5 DEF StampsOrdered
<1> QED BY <1>3, <1>4, QuietOrSample
-----------------------------------------------------------------------------
(* What a step does to the stamps of suffix SFT.                           *)

\* Only trees in the batch in use are stamped; if others come into use, as in
\* the freeze, no tree is.
SftQuiet ==
  /\ \A k \in DOMAIN trees \cap DOMAIN trees' :
       \/ trees'[k].lastSft = trees[k].lastSft
       \/ trees'[k].lastSft = step /\ \E r \in sftLent : r[1] = k
  /\ sftLent' \subseteq sftLent \/ trees' = trees

\* The step of post_step replay: at most once in a training step.
SftSampled ==
  /\ sftLent = {} /\ \A k \in DOMAIN trees : trees[k].lastSft # step
  /\ SampleSuffixSft(SftSlots)

LEMMA SftQuietOrSample == ASSUME Inv, [Next]_vars PROVE SftQuiet \/ SftSampled
<1>0. TypeOK
  BY DEF Inv
<1>1. \A k \in DOMAIN trees : trees[k] \in TreeType
  BY <1>0 DEF TypeOK
<1>2. CASE (\E k \in Prompt, o \in Outcomes : RecordRootObservation(k, o[1], o[2])) \/ CleanupInactiveTrees
  <2>1. sftLent' = sftLent
    BY <1>2 DEF RecordRootObservation, CleanupInactiveTrees
  <2>2. \A k \in DOMAIN trees \cap DOMAIN trees' : trees'[k] = trees[k]
    BY <1>2 DEF RecordRootObservation, CleanupInactiveTrees, Put, Without, Restrict, poolVars
  <2> QED BY <2>1, <2>2 DEF SftQuiet
<1>3. CASE \E n \in 1..InjectSlots : Sample(n)
  <2>1. PICK chosen, pick : SampleEffect(chosen, pick)
    BY <1>3 DEF Sample
  <2> QED BY <1>1, <2>1 DEF SampleEffect, TreeType, SftQuiet
<1>4. CASE \E s \in TeacherSteps : PendingTeacherRequests(DispatchSlots, s)
  <2>1. PICK out, s : DispatchEffect(out, s)
    BY <1>4 DEF PendingTeacherRequests
  <2> QED BY <1>1, <2>1 DEF DispatchEffect, TreeType, SftQuiet
<1>5. ASSUME NEW routes \in FullBatches, MarkSuffixSftSampled(routes) PROVE SftQuiet
  <2>1. routes \subseteq sftLent
    BY DEF FullBatches
  <2>2. sftLent' = sftLent
    BY <1>5 DEF MarkSuffixSftSampled
  <2> DEFINE taken == {r \in routes : SftTrainable(r[1], r[2])}
  <2>3. StampSft(taken)
    BY <1>5 DEF MarkSuffixSftSampled
  <2>4. taken \subseteq sftLent
    BY <2>1
  <2> HIDE DEF taken
  <2> QED BY <1>1, <2>2, <2>3, <2>4 DEF StampSft, TreeType, SftQuiet
<1>6. CASE \/ NextStep
           \/ \E r \in lent, o \in Outcomes : RecordObservation(r[1], r[2], o[1], o[2])
           \/ \E r \in sftLent : RecordSuffixSft(r[1], r[2])
           \/ ClearTeacherEvents
           \/ \E e \in owed, a \in Answers, s \in TeacherSteps : OnTeacherResponse(e, a, s)
           \/ UNCHANGED vars
  <2>1. trees' = trees
    BY <1>6 DEF NextStep, RecordObservation, RecordSuffixSft, ClearTeacherEvents, OnTeacherResponse, vars, poolVars
  <2> QED BY <2>1 DEF SftQuiet
<1> QED BY <1>2, <1>3, <1>4, <1>5, <1>6 DEF Next, TrainerNext, WorkerNext, SftSampled

\* What post_step replay does for the trees it chooses.
SftSampledOf(chosen) ==
  /\ \A k \in chosen, j \in SftReadyTrees \ chosen : trees[k].lastSft <= trees[j].lastSft
  /\ DOMAIN trees' = DOMAIN trees
  /\ \A k \in DOMAIN trees : trees'[k].lastSft = IF k \in chosen THEN step ELSE trees[k].lastSft
  /\ {r[1] : r \in sftLent'} = chosen /\ SftTrees = chosen

LEMMA SftSampleDoes ==
  ASSUME Inv, SftSampled
  PROVE  \E chosen \in SUBSET SftReadyTrees : SftSampledOf(chosen)
<1>0. \A k \in DOMAIN trees : trees[k] \in TreeType /\ trees[k].lastSft \in Int
  BY DEF Inv, TypeOK, TreeType, Stamp
<1>1. PICK chosen \in SUBSET SftReadyTrees :
        /\ IsFirst(SftSlots, SftReadyTrees, SftKey, chosen)
        /\ \E pick \in [chosen -> DOMAIN nodes] :
             /\ StampSft({<<k, pick[k]>> : k \in chosen})
             /\ sftLent' = {<<k, pick[k]>> : k \in chosen}
  BY DEF SftSampled, SampleSuffixSft
<1>2. PICK pick \in [chosen -> DOMAIN nodes] :
        StampSft({<<k, pick[k]>> : k \in chosen}) /\ sftLent' = {<<k, pick[k]>> : k \in chosen}
  BY <1>1
<1>3. \A k \in chosen, j \in SftReadyTrees \ chosen : trees[k].lastSft <= trees[j].lastSft
  <2> TAKE k \in chosen, j \in SftReadyTrees \ chosen
  <2>1. k \in DOMAIN trees /\ j \in DOMAIN trees
    BY DEF SftReadyTrees
  <2>2. TupleLess(SftKey[k], SftKey[j])
    BY <1>1 DEF IsFirst
  <2>3. SftKey[k] = <<trees[k].lastSft, trees[k].created, k>> /\ SftKey[j] = <<trees[j].lastSft, trees[j].created, j>>
    BY <2>1 DEF SftKey
  <2>4. 1 \in DOMAIN SftKey[k] /\ DOMAIN SftKey[k] \subseteq 1..3
        /\ SftKey[k][1] = trees[k].lastSft /\ SftKey[j][1] = trees[j].lastSft
    BY <2>3
  <2> QED BY <1>0, <2>1, <2>2, <2>4, FirstDecides
<1>4. ASSUME NEW r \in sftLent' PROVE r[1] \in chosen
  <2>1. PICK k \in chosen : r = <<k, pick[k]>>
    BY <1>2, <1>4
  <2> QED BY <2>1
<1>5. ASSUME NEW k \in chosen PROVE \E r \in sftLent' : r[1] = k
  <2>1. <<k, pick[k]>> \in sftLent'
    BY <1>2, <1>5
  <2> QED BY <2>1
<1>6. {r[1] : r \in sftLent'} = chosen /\ SftTrees = chosen
  BY <1>4, <1>5 DEF SftTrees, SftSampled
<1>7. \A k \in DOMAIN trees : trees'[k].lastSft = IF k \in chosen THEN step ELSE trees[k].lastSft
  <2> DEFINE routes == {<<k, pick[k]>> : k \in chosen}
  <2>1. \A k : k \in chosen <=> \E r \in routes : r[1] = k
    BY <1>2, <1>4, <1>5
  <2>2. StampSft(routes)
    BY <1>2
  <2> HIDE DEF routes
  <2> QED BY <1>0, <2>1, <2>2 DEF StampSft, TreeType
<1>8. DOMAIN trees' = DOMAIN trees
  BY <1>2 DEF StampSft
<1>9. SftSampledOf(chosen)
  BY <1>3, <1>6, <1>7, <1>8 DEF SftSampledOf
<1> QED BY <1>9
-----------------------------------------------------------------------------
(* Histories are orders of stamps.                                         *)

AllWatched == {"tree", "node", "sft"} \subseteq Watched

\* A tree that was passed over has gone longer without rollouts.
TreesBehind ==
  \A p \in passed.tree : /\ p[1] \in DOMAIN trees /\ p[2] \in DOMAIN trees
                         /\ trees[p[1]].lastRollout < trees[p[2]].lastRollout

\* So has a prompt state, and it is not being rolled out.
NodesBehind ==
  \A p \in passed.node : /\ p[1] \in DOMAIN nodes /\ p[2] \in DOMAIN nodes
                         /\ nodes[p[1]].parent # NoParent
                         /\ nodes[p[1]].lastRollout < nodes[p[2]].lastRollout
                         /\ \A r \in lent : r[2] # p[1]

\* A tree passed over by suffix SFT has gone longer without it, and is not in
\* the batch in use.
SftBehind ==
  \A p \in passed.sft : /\ p[1] \in DOMAIN trees /\ p[2] \in DOMAIN trees
                        /\ trees[p[1]].lastSft < trees[p[2]].lastSft
                        /\ \A r \in sftLent : r[1] # p[1]

LEMMA Histories ==
  ASSUME AllWatched, LruNext
  PROVE  /\ passed'.tree = {p \in passed.tree \cup PassedTrees :
                              p[1] \in ReadyTrees' \ SampledTrees /\ p[2] \in DOMAIN trees'}
         /\ passed'.node = {p \in passed.node \cup PassedNodes :
                              p[1] \in AllCandidates' \ SampledNodes /\ p[2] \in DOMAIN nodes'}
         /\ passed'.sft = {p \in passed.sft \cup PassedSft :
                             p[1] \in SftReadyTrees' \ SftTrees /\ p[2] \in DOMAIN trees'}
<1>1. "tree" \in Watched /\ "node" \in Watched /\ "sft" \in Watched
  BY DEF AllWatched
<1>2. \A w \in Watched : passed'[w] = {p \in passed[w] \cup Passed(w) :
                                         p[1] \in Waiting(w)' \ Served(w) /\ p[2] \in Others(w)'}
  BY DEF LruNext
<1>3. Passed("tree") = PassedTrees /\ Passed("node") = PassedNodes /\ Passed("sft") = PassedSft
  BY DEF Passed
<1>4. Served("tree") = SampledTrees /\ Served("node") = SampledNodes /\ Served("sft") = SftTrees
  BY DEF Served
<1>5. Waiting("tree")' = ReadyTrees' /\ Waiting("node")' = AllCandidates' /\ Waiting("sft")' = SftReadyTrees'
  BY DEF Waiting
<1>6. Others("tree")' = DOMAIN trees' /\ Others("node")' = DOMAIN nodes' /\ Others("sft")' = DOMAIN trees'
  BY DEF Others
<1>7. passed'["tree"] = {p \in passed["tree"] \cup PassedTrees :
                           p[1] \in ReadyTrees' \ SampledTrees /\ p[2] \in DOMAIN trees'}
  BY <1>1, <1>2, <1>3, <1>4, <1>5, <1>6
<1>8. passed'["node"] = {p \in passed["node"] \cup PassedNodes :
                           p[1] \in AllCandidates' \ SampledNodes /\ p[2] \in DOMAIN nodes'}
  BY <1>1, <1>2, <1>3, <1>4, <1>5, <1>6
<1>9. passed'["sft"] = {p \in passed["sft"] \cup PassedSft :
                          p[1] \in SftReadyTrees' \ SftTrees /\ p[2] \in DOMAIN trees'}
  BY <1>1, <1>2, <1>3, <1>4, <1>5, <1>6
<1> QED BY <1>7, <1>8, <1>9

\* The stamps as numbers.
LEMMA StampTyping ==
  ASSUME Inv
  PROVE  /\ step \in Nat
         /\ \A k \in DOMAIN trees : trees[k].lastRollout \in -1..step /\ trees[k].lastSft \in -1..step
         /\ \A n \in DOMAIN nodes : nodes[n].lastRollout \in -1..step /\ nodes[n].tree \in DOMAIN trees
BY DEF Inv, TypeOK, TreeType, NodeType, Stamp, TreeShape

LEMMA NothingSampled ==
  ASSUME lent' \subseteq lent
  PROVE  SampledTrees = {} /\ SampledNodes = {} /\ PassedTrees = {} /\ PassedNodes = {}
BY DEF SampledTrees, SampledNodes, PassedTrees, PassedNodes

LEMMA NextTreesBehind ==
  ASSUME AllWatched, Inv, Inv', StampsOrdered, TreesBehind, LruNext
  PROVE  TreesBehind' /\ PassedTrees \cap passed.tree = {}
<1>0. /\ step \in Nat
      /\ \A k \in DOMAIN trees : trees[k].lastRollout \in -1..step
  BY StampTyping
<1>1. \A p \in passed'.tree : /\ p \in passed.tree \cup PassedTrees
                              /\ p[1] \in DOMAIN trees' /\ p[2] \in DOMAIN trees' /\ p[1] \notin SampledTrees
  BY Histories DEF ReadyTrees
<1>2. [Next]_vars
  BY DEF LruNext
<1>3. CASE Quiet
  <2>1. PassedTrees = {}
    BY <1>3, NothingSampled DEF Quiet
  <2>2. ASSUME NEW p \in passed'.tree PROVE trees'[p[1]].lastRollout < trees'[p[2]].lastRollout
    <3>1. p[1] \in DOMAIN trees \cap DOMAIN trees' /\ p[2] \in DOMAIN trees \cap DOMAIN trees'
          /\ trees[p[1]].lastRollout < trees[p[2]].lastRollout
      BY <1>1, <2>1, <2>2 DEF TreesBehind
    <3>2. trees'[p[1]].lastRollout = trees[p[1]].lastRollout /\ trees'[p[2]].lastRollout = trees[p[2]].lastRollout
      BY <1>3, <3>1 DEF Quiet
    <3> QED BY <3>1, <3>2
  <2> QED BY <1>1, <2>1, <2>2 DEF TreesBehind
<1>4. ASSUME NEW n \in 1..InjectSlots, Sample(n)
      PROVE  TreesBehind' /\ PassedTrees \cap passed.tree = {}
  <2>1. PICK chosen \in SUBSET Eligible : \E pick \in [chosen -> DOMAIN nodes] : Sampled(chosen, pick)
    BY <1>4, SampleDoes
  <2>2. /\ SampledTrees = chosen /\ chosen \subseteq DOMAIN trees
        /\ \A k \in chosen, j \in Eligible \ chosen : trees[k].lastRollout <= trees[j].lastRollout
        /\ \A k \in DOMAIN trees : trees'[k].lastRollout = IF k \in chosen THEN step ELSE trees[k].lastRollout
    BY <2>1 DEF Sampled, Eligible, ReadyTrees
  <2>3. \A p \in PassedTrees : p[1] \in Eligible \ chosen /\ p[2] \in chosen
    BY <2>2 DEF PassedTrees
  <2>4. PassedTrees \cap passed.tree = {}
    <3> SUFFICES ASSUME NEW p \in PassedTrees, p \in passed.tree PROVE FALSE
      OBVIOUS
    <3>1. p[1] \in DOMAIN trees /\ p[2] \in DOMAIN trees
          /\ trees[p[1]].lastRollout < trees[p[2]].lastRollout /\ trees[p[2]].lastRollout <= trees[p[1]].lastRollout
      BY <2>2, <2>3 DEF TreesBehind
    <3> QED BY <1>0, <3>1
  <2>5. ASSUME NEW p \in passed'.tree PROVE trees'[p[1]].lastRollout < trees'[p[2]].lastRollout
    <3>1. p[1] \notin chosen
      BY <1>1, <2>2, <2>5
    <3>2. CASE p \in passed.tree
      <4>1. p[1] \in DOMAIN trees /\ p[2] \in DOMAIN trees /\ trees[p[1]].lastRollout < trees[p[2]].lastRollout
        BY <3>2 DEF TreesBehind
      <4>2. trees'[p[1]].lastRollout = trees[p[1]].lastRollout
            /\ trees'[p[2]].lastRollout \in {step, trees[p[2]].lastRollout}
        BY <2>2, <3>1, <4>1
      <4> QED BY <1>0, <4>1, <4>2
    <3>3. CASE p \in PassedTrees
      <4>1. p[1] \in DOMAIN trees /\ trees[p[1]].lastRollout # step /\ p[2] \in chosen
        BY <2>3, <3>3 DEF Eligible, ReadyTrees
      <4>2. trees'[p[1]].lastRollout = trees[p[1]].lastRollout /\ trees'[p[2]].lastRollout = step
        BY <2>2, <3>1, <4>1
      <4> QED BY <1>0, <4>1, <4>2
    <3> QED BY <1>1, <2>5, <3>2, <3>3
  <2> QED BY <1>1, <2>4, <2>5 DEF TreesBehind
<1> QED BY <1>2, <1>3, <1>4, QuietOrSample
LEMMA NextNodesBehind ==
  ASSUME AllWatched, Inv, Inv', StampsOrdered, NodesBehind, LruNext
  PROVE  NodesBehind' /\ PassedNodes \cap passed.node = {}
<1>0. /\ step \in Nat
      /\ \A k \in DOMAIN trees : trees[k].lastRollout \in -1..step
      /\ \A n \in DOMAIN nodes : nodes[n].lastRollout \in -1..step /\ nodes[n].tree \in DOMAIN trees
  BY StampTyping
<1>1. \A p \in passed'.node :
        /\ p \in passed.node \cup PassedNodes
        /\ p[1] \in DOMAIN nodes' /\ p[2] \in DOMAIN nodes'
        /\ nodes'[p[1]].parent # NoParent /\ p[1] \notin SampledNodes
  BY Histories DEF AllCandidates, RolloutCandidates, NodesOf
<1>2. [Next]_vars
  BY DEF LruNext
<1>3. CASE Quiet
  <2>1. PassedNodes = {}
    BY <1>3, NothingSampled DEF Quiet
  <2>2. ASSUME NEW p \in passed'.node
        PROVE  nodes'[p[1]].lastRollout < nodes'[p[2]].lastRollout /\ \A r \in lent' : r[2] # p[1]
    <3>1. p[1] \in DOMAIN nodes \cap DOMAIN nodes' /\ p[2] \in DOMAIN nodes \cap DOMAIN nodes'
          /\ nodes[p[1]].parent # NoParent
          /\ nodes[p[1]].lastRollout < nodes[p[2]].lastRollout /\ \A r \in lent : r[2] # p[1]
      BY <1>1, <2>1, <2>2 DEF NodesBehind
    <3>2. nodes'[p[1]].lastRollout = nodes[p[1]].lastRollout
          /\ nodes'[p[2]].lastRollout \in {step, nodes[p[2]].lastRollout}
      BY <1>3, <3>1 DEF Quiet
    <3>3. nodes'[p[1]].lastRollout < nodes'[p[2]].lastRollout
      BY <1>0, <3>1, <3>2
    <3> QED BY <1>3, <3>1, <3>3 DEF Quiet
  <2> QED BY <1>1, <2>1, <2>2 DEF NodesBehind
<1>4. ASSUME NEW n \in 1..InjectSlots, Sample(n)
      PROVE  NodesBehind' /\ PassedNodes \cap passed.node = {}
  <2>1. PICK chosen \in SUBSET Eligible : \E pick \in [chosen -> DOMAIN nodes] : Sampled(chosen, pick)
    BY <1>4, SampleDoes
  <2>2. PICK pick \in [chosen -> DOMAIN nodes] : Sampled(chosen, pick)
    BY <2>1
  <2>3. \A k \in chosen : k \in DOMAIN trees /\ trees[k].lastRollout < step
    BY <1>0 DEF Eligible, ReadyTrees
  <2>4. ASSUME NEW p \in PassedNodes
        PROVE  \E k \in chosen :
                 /\ p[2] = pick[k] /\ p[1] \in DOMAIN nodes /\ p[2] \in DOMAIN nodes
                 /\ nodes[p[1]].tree = k /\ nodes[p[1]].parent # NoParent /\ p[1] \notin SampledNodes
                 /\ nodes[p[2]].lastRollout <= nodes[p[1]].lastRollout
    <3>1. PICK m \in SampledNodes : p \in (RolloutCandidates(nodes[m].tree) \ SampledNodes) \X {m}
      BY <2>4 DEF PassedNodes
    <3>2. PICK k \in chosen : m = pick[k]
      BY <2>2, <3>1 DEF Sampled
    <3>3. m \in RolloutCandidates(k) /\ \A x \in RolloutCandidates(k) : nodes[m].lastRollout <= nodes[x].lastRollout
      BY <2>2, <3>2 DEF Sampled
    <3>4. m \in DOMAIN nodes /\ nodes[m].tree = k
      BY <3>3 DEF RolloutCandidates, NodesOf
    <3>5. p[2] = m /\ p[1] \in RolloutCandidates(k) /\ p[1] \notin SampledNodes
      BY <3>1, <3>4
    <3> QED BY <3>2, <3>3, <3>4, <3>5 DEF RolloutCandidates, NodesOf
  <2>5. PassedNodes \cap passed.node = {}
    <3> SUFFICES ASSUME NEW p \in PassedNodes, p \in passed.node PROVE FALSE
      OBVIOUS
    <3>1. p[1] \in DOMAIN nodes /\ p[2] \in DOMAIN nodes
          /\ nodes[p[1]].lastRollout < nodes[p[2]].lastRollout /\ nodes[p[2]].lastRollout <= nodes[p[1]].lastRollout
      BY <2>4 DEF NodesBehind
    <3> QED BY <1>0, <3>1
  <2>6. ASSUME NEW p \in passed'.node
        PROVE  nodes'[p[1]].lastRollout < nodes'[p[2]].lastRollout /\ \A r \in lent' : r[2] # p[1]
    <3>1. \A k \in chosen : pick[k] # p[1]
      BY <1>1, <2>2, <2>6 DEF Sampled
    <3>2. CASE p \in passed.node
      <4>1. p[1] \in DOMAIN nodes /\ p[2] \in DOMAIN nodes
            /\ nodes[p[1]].lastRollout < nodes[p[2]].lastRollout /\ \A r \in lent : r[2] # p[1]
        BY <3>2 DEF NodesBehind
      <4>2. nodes'[p[1]].lastRollout = nodes[p[1]].lastRollout
            /\ nodes'[p[2]].lastRollout \in {step, nodes[p[2]].lastRollout}
        BY <2>2, <3>1, <4>1 DEF Sampled
      <4>3. \A r \in lent' : r[2] # p[1]
        BY <2>2, <3>1, <4>1 DEF Sampled
      <4>4. nodes'[p[1]].lastRollout < nodes'[p[2]].lastRollout
        BY <1>0, <4>1, <4>2
      <4> QED BY <4>3, <4>4
    <3>3. CASE p \in PassedNodes
      <4>1. PICK k \in chosen :
              /\ p[2] = pick[k] /\ p[1] \in DOMAIN nodes /\ p[2] \in DOMAIN nodes
              /\ nodes[p[1]].tree = k /\ nodes[p[1]].parent # NoParent
        BY <2>4, <3>3
      <4>2. nodes'[p[1]].lastRollout = nodes[p[1]].lastRollout /\ nodes'[p[2]].lastRollout = step
        BY <2>2, <3>1, <4>1 DEF Sampled
      <4>3. nodes[p[1]].lastRollout <= trees[k].lastRollout
        BY <4>1 DEF StampsOrdered
      <4>4. nodes'[p[1]].lastRollout < nodes'[p[2]].lastRollout
        BY <1>0, <2>3, <4>1, <4>2, <4>3
      <4>5. ASSUME NEW r \in lent, r[2] = p[1] PROVE FALSE
        <5>1. nodes[r[2]].tree = r[1]
          BY DEF Inv, LentNodesStayActive, RolloutCandidates, NodesOf
        <5>2. r[1] = k /\ trees[k].lastRollout = step
          BY <4>1, <4>5, <5>1 DEF StampsOrdered
        <5> QED BY <1>0, <2>3, <5>2
      <4>6. \A r \in lent' : r[2] # p[1]
        BY <2>2, <3>1, <4>5 DEF Sampled
      <4> QED BY <4>4, <4>6
    <3> QED BY <1>1, <2>6, <3>2, <3>3
  <2>7. \A p \in passed'.node : p[1] \in DOMAIN nodes' /\ p[2] \in DOMAIN nodes' /\ nodes'[p[1]].parent # NoParent
    BY <1>1
  <2> QED BY <2>5, <2>6, <2>7 DEF NodesBehind
<1> QED BY <1>2, <1>3, <1>4, QuietOrSample

LEMMA NextSftBehind ==
  ASSUME AllWatched, Inv, Inv', SftBehind, LruNext
  PROVE  SftBehind' /\ PassedSft \cap passed.sft = {}
<1>0. /\ step \in Nat
      /\ \A k \in DOMAIN trees : trees[k].lastSft \in -1..step
  BY StampTyping
<1>1. \A p \in passed'.sft : /\ p \in passed.sft \cup PassedSft
                             /\ p[1] \in DOMAIN trees' /\ p[2] \in DOMAIN trees' /\ p[1] \notin SftTrees
  BY Histories DEF SftReadyTrees
<1>2. [Next]_vars
  BY DEF LruNext
<1>3. CASE SftQuiet
  <2>1. PassedSft = {}
    <3>1. CASE sftLent' \subseteq sftLent
      BY <3>1 DEF PassedSft, SftTrees
    <3>2. CASE trees' = trees
      BY <3>2 DEF PassedSft
    <3> QED BY <1>3, <3>1, <3>2 DEF SftQuiet
  <2>2. ASSUME NEW p \in passed'.sft
        PROVE  trees'[p[1]].lastSft < trees'[p[2]].lastSft /\ \A r \in sftLent' : r[1] # p[1]
    <3>1. p[1] \in DOMAIN trees \cap DOMAIN trees' /\ p[2] \in DOMAIN trees \cap DOMAIN trees'
          /\ trees[p[1]].lastSft < trees[p[2]].lastSft /\ \A r \in sftLent : r[1] # p[1]
      BY <1>1, <2>1, <2>2 DEF SftBehind
    <3>2. trees'[p[1]].lastSft = trees[p[1]].lastSft /\ trees'[p[2]].lastSft \in {step, trees[p[2]].lastSft}
      BY <1>3, <3>1 DEF SftQuiet
    <3>3. trees'[p[1]].lastSft < trees'[p[2]].lastSft
      BY <1>0, <3>1, <3>2
    <3>4. \A r \in sftLent' : r[1] # p[1]
      BY <1>1, <2>2, <3>1 DEF SftTrees
    <3> QED BY <3>3, <3>4
  <2> QED BY <1>1, <2>1, <2>2 DEF SftBehind
<1>4. CASE SftSampled
  <2>1. PICK chosen \in SUBSET SftReadyTrees : SftSampledOf(chosen)
    BY <1>4, SftSampleDoes
  <2>2. /\ \A k \in chosen, j \in SftReadyTrees \ chosen : trees[k].lastSft <= trees[j].lastSft
        /\ \A k \in DOMAIN trees : trees'[k].lastSft = IF k \in chosen THEN step ELSE trees[k].lastSft
        /\ {r[1] : r \in sftLent'} = chosen /\ SftTrees = chosen
    BY <2>1 DEF SftSampledOf
  <2>3. \A p \in PassedSft : p[1] \in SftReadyTrees \ chosen /\ p[2] \in chosen
    BY <2>2 DEF PassedSft
  <2>4. chosen \subseteq DOMAIN trees /\ SftReadyTrees \subseteq DOMAIN trees
    BY DEF SftReadyTrees
  <2>5. PassedSft \cap passed.sft = {}
    <3> SUFFICES ASSUME NEW p \in PassedSft, p \in passed.sft PROVE FALSE
      OBVIOUS
    <3>1. p[1] \in DOMAIN trees /\ p[2] \in DOMAIN trees
          /\ trees[p[1]].lastSft < trees[p[2]].lastSft /\ trees[p[2]].lastSft <= trees[p[1]].lastSft
      BY <2>2, <2>3 DEF SftBehind
    <3> QED BY <1>0, <3>1
  <2>6. ASSUME NEW p \in passed'.sft
        PROVE  trees'[p[1]].lastSft < trees'[p[2]].lastSft /\ \A r \in sftLent' : r[1] # p[1]
    <3>1. p[1] \notin chosen /\ \A r \in sftLent' : r[1] # p[1]
      BY <1>1, <2>2, <2>6
    <3>2. CASE p \in passed.sft
      <4>1. p[1] \in DOMAIN trees /\ p[2] \in DOMAIN trees /\ trees[p[1]].lastSft < trees[p[2]].lastSft
        BY <3>2 DEF SftBehind
      <4>2. trees'[p[1]].lastSft = trees[p[1]].lastSft /\ trees'[p[2]].lastSft \in {step, trees[p[2]].lastSft}
        BY <2>2, <3>1, <4>1
      <4> QED BY <1>0, <3>1, <4>1, <4>2
    <3>3. CASE p \in PassedSft
      <4>1. p[1] \in DOMAIN trees /\ p[2] \in chosen /\ trees[p[1]].lastSft # step
        BY <1>4, <2>3, <2>4, <3>3 DEF SftSampled
      <4>2. trees'[p[1]].lastSft = trees[p[1]].lastSft /\ trees'[p[2]].lastSft = step
        BY <2>2, <2>4, <3>1, <4>1
      <4> QED BY <1>0, <3>1, <4>1, <4>2
    <3> QED BY <1>1, <2>6, <3>2, <3>3
  <2> QED BY <1>1, <2>5, <2>6 DEF SftBehind
<1> QED BY <1>2, <1>3, <1>4, SftQuietOrSample

-----------------------------------------------------------------------------
LruInv == Inv /\ StampsOrdered /\ TreesBehind /\ NodesBehind /\ SftBehind

NobodyTwice ==
  /\ PassedTrees \cap passed.tree = {}
  /\ PassedNodes \cap passed.node = {}
  /\ PassedSft \cap passed.sft = {}

LEMMA InitLruInv == AllWatched /\ LruInit => LruInv
<1> SUFFICES ASSUME AllWatched, LruInit PROVE LruInv
  OBVIOUS
<1>1. Inv
  BY InitInv, PoolAssumption DEF LruInit
<1>2. passed.tree = {} /\ passed.node = {} /\ passed.sft = {}
  BY DEF LruInit, AllWatched
<1>3. DOMAIN nodes = {} /\ lent = {}
  BY DEF LruInit, Init
<1> QED BY <1>1, <1>2, <1>3 DEF LruInv, StampsOrdered, TreesBehind, NodesBehind, SftBehind

LEMMA NextLruInv ==
  ASSUME AllWatched, LruInv, [LruNext]_lruVars
  PROVE  LruInv' /\ (LruNext => NobodyTwice)
<1>1. CASE LruNext
  <2>1. [Next]_vars
    BY <1>1 DEF LruNext
  <2>2. Inv'
    BY <2>1, NextInv, PoolAssumption DEF LruInv
  <2>3. StampsOrdered'
    BY <2>1, <2>2, NextStampsOrdered DEF LruInv
  <2> QED BY <1>1, <2>2, <2>3, NextTreesBehind, NextNodesBehind, NextSftBehind DEF LruInv, NobodyTwice
<1>2. CASE UNCHANGED lruVars
  <2>1. UNCHANGED vars /\ UNCHANGED passed
    BY <1>2 DEF lruVars
  <2>2. Inv'
    BY <2>1, NextInv, PoolAssumption DEF LruInv
  <2>3. StampsOrdered'
    BY <2>1, <2>2, NextStampsOrdered DEF LruInv
  <2>4. TreesBehind' /\ NodesBehind' /\ SftBehind'
    BY <2>1 DEF LruInv, TreesBehind, NodesBehind, SftBehind, vars
  <2>5. NobodyTwice
    <3>1. lent' \subseteq lent /\ trees' = trees
      BY <2>1 DEF vars
    <3>2. PassedTrees = {} /\ PassedNodes = {} /\ PassedSft = {}
      BY <3>1, NothingSampled DEF PassedSft
    <3> QED BY <3>2 DEF NobodyTwice
  <2> QED BY <2>2, <2>3, <2>4, <2>5 DEF LruInv
<1> QED BY <1>1, <1>2

\* "Rollout injection [...] and suffix-SFT replay are tree-balanced LRU
\* samplers" (docstring of prefix_forest_pool.py; sample, sample_suffix_sft,
\* _rollout_candidate_ids_locked): for any number of trees, states, slots and
\* steps nobody is passed over twice for the same other one while it waits.
THEOREM LruHolds == ASSUME AllWatched PROVE LruSpec => WaitingIsServed
<1>1. LruInv /\ [LruNext]_lruVars => LruInv'
  BY NextLruInv
<1>2. LruInv /\ [LruNext]_lruVars => [NobodyTwice]_lruVars
  BY NextLruInv
<1>3. LruInit => LruInv
  BY InitLruInv
<1> QED BY <1>1, <1>2, <1>3, PTL DEF LruSpec, WaitingIsServed, NobodyTwice
===============================================================================
