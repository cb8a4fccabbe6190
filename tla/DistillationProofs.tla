----------------------- MODULE DistillationProofs -----------------------
(***************************************************************************)
(* Proofs about Distillation for any workers, thresholds and batches, with *)
(* leases that may be outlasted.  What retires events with evidence is     *)
(* neither the queue nor a lock but that store_distilled_summary is one    *)
(* transaction over events only; the invariant says what the lists read    *)
(* before it, however old, still have in common with the table.            *)
(***************************************************************************)
EXTENDS Distillation, FiniteSetTheorems, WellFoundedInduction, TLAPS

Lists(L) == \A m \in L : kind[m] = "event"

\* Sources are events, only summaries have them, and what is listed for
\* cleaning has been retired.
SourcesAreEvents ==
  /\ \A s \in Ids : /\ Lists(evidence[s])
                    /\ kind[s] # "summary" => evidence[s] = {}
  /\ \A w \in Workers : Lists(listed[w])
  /\ Lists(picked) /\ Lists(doomed)
  /\ \A m \in doomed : state[m] \in {"archived", "deleted"}

MemoriesOK ==
  /\ kind     \in [Ids -> Kind]
  /\ state    \in [Ids -> State]
  /\ mark     \in [Ids -> Ids \cup {0}]
  /\ evidence \in [Ids -> SUBSET Ids]

ListsOK ==
  /\ owed \in SUBSET Ids /\ lost \in SUBSET Ids /\ doomed \in SUBSET Ids
  /\ listed \in [Workers -> SUBSET Ids] /\ picked \in SUBSET Ids
  /\ faults \in 0 .. MaxFaults

IInv == TypeOK /\ SourcesAreEvents /\ RetiredWithEvidence

\* The invariant holds when nothing is stored yet.
LEMMA InitIInv == Init => IInv
  BY DistillAssumption
     DEF Init, IInv, TypeOK, SourcesAreEvents, RetiredWithEvidence, Lists, Kind, State, Point,
         Ids, Worker!Init, Worker!TypeOK, Worker!Queue!Init, Worker!Queue!Phase

\* The queue's part of the types.
QueueOK == Worker!TypeOK(Point)

\* A worker that goes on within its job keeps the queue in order.
LEMMA StepQueueOK ==
  ASSUME QueueOK, NEW w \in Workers, NEW from, NEW to \in Point, Worker!Step(w, from, to)
  PROVE  QueueOK'
  BY DEF QueueOK, Worker!TypeOK, Worker!Step, Worker!Goto

\* A worker that leaves its batch keeps the queue in order.
LEMMA LeaveQueueOK ==
  ASSUME QueueOK, NEW w \in Workers, Worker!Leave(w)
  PROVE  QueueOK'
  BY DEF QueueOK, Worker!TypeOK, Worker!Leave, Worker!Goto, Worker!Queue!Lose, Worker!Queue!Give

\* A worker that completes or fails its job keeps the queue in order.
LEMMA SettleQueueOK ==
  ASSUME QueueOK, NEW w \in Workers, SettleJob(w)
  PROVE  QueueOK'
  BY DEF QueueOK, SettleJob, Worker!TypeOK, Worker!Settle, Worker!Goto, Point,
         Worker!Queue!Settle, Worker!Queue!Move, Worker!Queue!Give, Worker!Queue!Phase

\* A claim of free jobs keeps the queue in order.
LEMMA ClaimQueueOK ==
  ASSUME QueueOK, NEW w \in Workers, Worker!Claim(w, "list")
  PROVE  QueueOK'
  BY DEF QueueOK, Worker!TypeOK, Worker!Claim, Worker!Goto, Worker!Ready, Point,
         Worker!Queue!Grant, Worker!Queue!Move, Worker!Queue!Give, Worker!Queue!Phase

\* New jobs and lapsed leases keep the queue in order.
LEMMA OtherQueueOK ==
  ASSUME QueueOK,
         (\E m \in Ids : Worker!Submit(m)) \/ (\E S \in SUBSET Ids : Worker!Lapse(S))
           \/ UNCHANGED queue
  PROVE  QueueOK'
  BY DEF QueueOK, Worker!TypeOK, Worker!Submit, Worker!Lapse, queue,
         Worker!Queue!Submit, Worker!Queue!Lapse, Worker!Queue!Move, Worker!Queue!Phase

\* Every step keeps the queue in order.
LEMMA NextQueueOK == QueueOK /\ [Next]_vars => QueueOK'
<1> SUFFICES ASSUME QueueOK, [Next]_vars PROVE QueueOK'
  OBVIOUS
<1> USE DEF Point
<1>1. ASSUME NEW m \in Ids, StoreEvent(m) \/ EnqueueDistillJob(m) \/ HookDies(m) \/ StoreOther(m)
      PROVE  QueueOK'
  BY <1>1, OtherQueueOK DEF StoreEvent, EnqueueDistillJob, HookDies, StoreOther
<1>2. ASSUME NEW w \in Workers, ClaimDistillJobs(w) PROVE QueueOK'
  BY <1>2, ClaimQueueOK DEF ClaimDistillJobs
<1>3. ASSUME NEW w \in Workers, ListEvents(w) PROVE QueueOK'
  BY <1>3, StepQueueOK DEF ListEvents
<1>4. ASSUME NEW w \in Workers, DistillSession(w) PROVE QueueOK'
  BY <1>4, StepQueueOK DEF DistillSession
<1>5. ASSUME NEW w \in Workers, SettleJob(w) PROVE QueueOK'
  BY <1>5, SettleQueueOK
<1>6. ASSUME NEW w \in Workers, LostLease(w) \/ Abort(w) PROVE QueueOK'
  BY <1>6, LeaveQueueOK DEF LostLease, Worker!LostLease, Abort
<1>7. ASSUME NEW w \in Workers, DistillFails(w) PROVE QueueOK'
  BY <1>7, StepQueueOK DEF DistillFails
<1>8. CASE LapseLeases
  BY <1>8, OtherQueueOK DEF LapseLeases
<1>9. CASE ListByHand \/ DistillByHand \/ HandGivesUp \/ ListForCleaning \/ DeleteBatch
  BY <1>9, OtherQueueOK DEF ListByHand, DistillByHand, HandGivesUp, ListForCleaning, DeleteBatch
<1>10. CASE UNCHANGED vars
  BY <1>10, OtherQueueOK DEF vars
<1> QED
  BY <1>1, <1>2, <1>3, <1>4, <1>5, <1>6, <1>7, <1>8, <1>9, <1>10 DEF Next, Proceed

-----------------------------------------------------------------------------

\* store_distilled_summary over any list of events, current or not.
LEMMA StoreSummaryRetires ==
  ASSUME MemoriesOK, SourcesAreEvents, RetiredWithEvidence, doomed \in SUBSET Ids,
         NEW s \in Ids, NEW S \in SUBSET Ids, Lists(S), StoreSummary(s, S)
  PROVE  /\ MemoriesOK' /\ RetiredWithEvidence'
         /\ \A m \in Ids : kind[m] = "event" => kind'[m] = "event"
         /\ \A t \in Ids : /\ \A m \in evidence'[t] : kind'[m] = "event"
                           /\ kind'[t] # "summary" => evidence'[t] = {}
         /\ \A m \in doomed : state'[m] \in {"archived", "deleted"}
<1> USE DEF MemoriesOK, SourcesAreEvents, Lists, Kind, State
<1>1. kind[s] = "none" /\ s \notin S /\ s \notin doomed
  BY DEF StoreSummary, IsNext
<1>2. kind' = [kind EXCEPT ![s] = "summary"] /\ evidence' = [evidence EXCEPT ![s] = S]
  BY DEF StoreSummary, Insert
<1>3. /\ state' = [m \in Ids |-> IF m = s THEN "active"
                                 ELSE IF m \in S /\ state[m] # "deleted" THEN "archived"
                                 ELSE state[m]]
      /\ mark' = [m \in Ids |-> IF m \in S /\ state[m] # "deleted" THEN s ELSE mark[m]]
  BY DEF StoreSummary
<1>4. MemoriesOK'
  BY <1>2, <1>3
<1>5. evidence[s] = {}
  BY <1>1
<1>6. ASSUME NEW m \in Ids
      PROVE  kind'[m] = "event" =>
               (state'[m] \in {"archived", "deleted"} <=> \E t \in Ids : m \in evidence'[t])
  <2>1. kind'[m] = "event" => kind[m] = "event" /\ m # s
    BY <1>2
  <2>2. (\E t \in Ids : m \in evidence'[t]) <=> m \in S \/ \E t \in Ids : m \in evidence[t]
    BY <1>2, <1>5
  <2>3. m # s => (state'[m] \in {"archived", "deleted"} <=>
                    m \in S \/ state[m] \in {"archived", "deleted"})
    BY <1>3
  <2> QED
    BY <2>1, <2>2, <2>3 DEF RetiredWithEvidence
<1>7. ASSUME NEW m \in Ids
      PROVE  mark'[m] # 0 => m \in evidence'[mark'[m]] /\ kind'[mark'[m]] = "summary"
  <2>1. CASE m \in S /\ state[m] # "deleted"
    BY <2>1, <1>2, <1>3
  <2>2. CASE ~(m \in S /\ state[m] # "deleted")
    <3>1. mark'[m] = mark[m]
      BY <2>2, <1>3
    <3>2. mark[m] # 0 => mark[m] \in Ids /\ m \in evidence[mark[m]] /\ kind[mark[m]] = "summary"
      BY DEF RetiredWithEvidence
    <3> QED
      BY <3>1, <3>2, <1>1, <1>2
  <2> QED
    BY <2>1, <2>2
<1>8. RetiredWithEvidence'
  BY <1>6, <1>7 DEF RetiredWithEvidence
<1> QED
  BY <1>1, <1>2, <1>3, <1>4, <1>8

\* Steps that leave the table alone and list only events of it.
LEMMA TableUnchanged ==
  ASSUME IInv, UNCHANGED memories, (SourcesAreEvents /\ ListsOK)'
  PROVE  (MemoriesOK /\ ListsOK /\ SourcesAreEvents /\ RetiredWithEvidence)'
  BY DEF IInv, TypeOK, memories, MemoriesOK, RetiredWithEvidence

\* A new memory takes an id that nothing refers to.
LEMMA InsertKeeps ==
  ASSUME MemoriesOK, ListsOK, SourcesAreEvents, RetiredWithEvidence, NEW m \in Ids,
         NEW k \in {"event", "other"}, IsNext(m), Insert(m, k),
         state' = [state EXCEPT ![m] = "active"],
         UNCHANGED <<mark, evidence, listed, picked, doomed>>
  PROVE  (MemoriesOK /\ SourcesAreEvents /\ RetiredWithEvidence)'
<1> USE DEF MemoriesOK, ListsOK, SourcesAreEvents, Lists, Kind, State
<1>1. kind[m] = "none" /\ kind' = [kind EXCEPT ![m] = k]
  BY DEF IsNext, Insert
<1>2. MemoriesOK' /\ SourcesAreEvents'
  BY <1>1
<1>3. ASSUME NEW n \in Ids
      PROVE  /\ kind'[n] = "event" => (state'[n] \in {"archived", "deleted"}
                                         <=> \E s \in Ids : n \in evidence'[s])
             /\ mark'[n] # 0 => n \in evidence'[mark'[n]] /\ kind'[mark'[n]] = "summary"
  <2>1. \A s \in Ids : m \notin evidence[s]
    BY <1>1
  <2>2. mark[n] # 0 => mark[n] \in Ids
    OBVIOUS
  <2> QED
    BY <1>1, <2>1, <2>2 DEF RetiredWithEvidence
<1> QED
  BY <1>2, <1>3 DEF RetiredWithEvidence

\* Every step keeps the memories in order, and what is retired with its evidence.
LEMMA NextRetires ==
  IInv /\ [Next]_vars => (MemoriesOK /\ ListsOK /\ SourcesAreEvents /\ RetiredWithEvidence)'
<1> SUFFICES ASSUME IInv, [Next]_vars
             PROVE  (MemoriesOK /\ ListsOK /\ SourcesAreEvents /\ RetiredWithEvidence)'
  OBVIOUS
<1> DEFINE Goal == (MemoriesOK /\ ListsOK /\ SourcesAreEvents /\ RetiredWithEvidence)'
<1>a. MemoriesOK /\ ListsOK /\ SourcesAreEvents /\ RetiredWithEvidence
  BY DEF IInv, TypeOK, MemoriesOK, ListsOK
<1> USE <1>a, DistillAssumption
<1>1. ASSUME NEW m \in Ids, StoreEvent(m) PROVE Goal
  <2>1. ListsOK'
    BY <1>1 DEF StoreEvent, ListsOK
  <2> QED
    BY <1>1, <2>1, InsertKeeps DEF StoreEvent
<1>2. ASSUME NEW m \in Ids, StoreOther(m) PROVE Goal
  <2>1. ListsOK'
    BY <1>2 DEF StoreOther, ListsOK, hooks
  <2> QED
    BY <1>2, <2>1, InsertKeeps DEF StoreOther
<1>3. ASSUME NEW m \in Ids, EnqueueDistillJob(m) \/ HookDies(m) PROVE Goal
  BY <1>3, TableUnchanged
     DEF EnqueueDistillJob, HookDies, Fault, memories, ListsOK, SourcesAreEvents, Lists
<1>4. ASSUME NEW w \in Workers, ListEvents(w) PROVE Goal
  <2>1. listed' = [listed EXCEPT ![w] = Events(Newest(Active, MaxEvents))]
    BY <1>4 DEF ListEvents
  <2>2. Lists(Events(Newest(Active, MaxEvents)))
        /\ Events(Newest(Active, MaxEvents)) \in SUBSET Ids
    BY DEF Lists, Events, Newest, Active
  <2>3. UNCHANGED <<memories, hooks, picked, doomed, faults>>
    BY <1>4 DEF ListEvents
  <2> QED
    BY <2>1, <2>2, <2>3, TableUnchanged DEF memories, hooks, ListsOK, SourcesAreEvents, Lists
<1>5. ASSUME NEW w \in Workers,
             ClaimDistillJobs(w) \/ SettleJob(w) \/ LostLease(w) \/ Abort(w) \/ DistillFails(w)
      PROVE  Goal
  <2>1. /\ UNCHANGED <<memories, hooks, picked, doomed>>
        /\ listed' = listed \/ listed' = [listed EXCEPT ![w] = {}]
        /\ faults' \in 0 .. MaxFaults
    BY <1>5 DEF ClaimDistillJobs, SettleJob, LostLease, Abort, DistillFails, Fault, ListsOK
  <2> QED
    BY <2>1, TableUnchanged DEF memories, hooks, ListsOK, SourcesAreEvents, Lists
<1>6. ASSUME NEW w \in Workers, DistillSession(w) PROVE Goal
  <2>1. PICK s \in Ids : StoreSummary(s, listed[w])
    BY <1>6 DEF DistillSession
  <2>2. listed' = [listed EXCEPT ![w] = {}] /\ UNCHANGED <<hooks, picked, doomed, faults>>
    BY <1>6 DEF DistillSession
  <2>3. listed[w] \in SUBSET Ids /\ Lists(listed[w]) /\ doomed \in SUBSET Ids
    BY DEF ListsOK, SourcesAreEvents
  <2> QED
    BY <2>1, <2>2, <2>3, StoreSummaryRetires DEF hooks, ListsOK, SourcesAreEvents, Lists
<1>7. CASE DistillByHand
  <2>1. PICK s \in Ids : StoreSummary(s, picked)
    BY <1>7 DEF DistillByHand
  <2>2. picked' = {} /\ UNCHANGED <<hooks, listed, doomed, faults>>
    BY <1>7 DEF DistillByHand
  <2>3. picked \in SUBSET Ids /\ Lists(picked) /\ doomed \in SUBSET Ids
    BY DEF ListsOK, SourcesAreEvents
  <2> QED
    BY <2>1, <2>2, <2>3, StoreSummaryRetires DEF hooks, ListsOK, SourcesAreEvents, Lists
<1>8. CASE LapseLeases
  BY <1>8, TableUnchanged DEF LapseLeases, memories, hooks, ListsOK, SourcesAreEvents, Lists
<1>9. CASE ListByHand \/ HandGivesUp
  BY <1>9, TableUnchanged
     DEF ListByHand, HandGivesUp, Events, Active, memories, hooks, ListsOK, SourcesAreEvents, Lists
<1>10. CASE ListForCleaning
  BY <1>10, TableUnchanged
     DEF ListForCleaning, Candidates, memories, hooks, ListsOK, SourcesAreEvents, Lists
<1>11. CASE DeleteBatch
  BY <1>11 DEF DeleteBatch, hooks, MemoriesOK, ListsOK, SourcesAreEvents, Lists,
               RetiredWithEvidence, State
<1>12. CASE UNCHANGED vars
  BY <1>12, TableUnchanged DEF vars, memories, hooks, ListsOK, SourcesAreEvents, Lists
<1> QED
  BY <1>1, <1>2, <1>3, <1>4, <1>5, <1>6, <1>7, <1>8, <1>9, <1>10, <1>11, <1>12 DEF Next, Proceed

\* The invariant holds in every state.
LEMMA IInvHolds == Spec => []IInv
<1>1. IInv /\ [Next]_vars => IInv'
  <2>1. IInv => QueueOK
    BY DEF IInv, TypeOK, QueueOK
  <2>2. (QueueOK /\ MemoriesOK /\ ListsOK /\ SourcesAreEvents /\ RetiredWithEvidence) => IInv
    BY DEF IInv, TypeOK, QueueOK, MemoriesOK, ListsOK
  <2> QED
    BY <2>1, <2>2, NextQueueOK, NextRetires, PTL
<1> QED
  BY InitIInv, <1>1, PTL DEF Spec

\* The types of the jobs and of the memories hold in every reachable state.
THEOREM TypeCorrect == Spec => []TypeOK
<1>1. IInv => TypeOK
  BY DEF IInv
<1> QED
  BY IInvHolds, <1>1, PTL

\* An event leaves the active memories exactly when a summary has it as evidence,
\* and its mark names such a summary, however many workers and commands work on
\* lists they read before others archived or deleted what is in them.
THEOREM RetiredWithEvidenceHolds == Spec => []RetiredWithEvidence
<1>1. IInv => RetiredWithEvidence
  BY DEF IInv
<1> QED
  BY IInvHolds, <1>1, PTL

-----------------------------------------------------------------------------
(* Numbers: the least of some, and the greatest of finitely many.           *)

\* Any numbers have one that none is below: < is well-founded.
LEMMA MinimalNat ==
  ASSUME NEW R, R = OpToRel(<, Nat), NEW T \in SUBSET Nat, T # {}
  PROVE  \E x \in T : \A y \in T : ~ (<<y, x>> \in R)
<1>1. IsWellFoundedOn(R, Nat)
  BY NatLessThanWellFounded
<1> QED
  BY <1>1, WFMin

\* The relation that goes with < holds of two numbers just when the one is less.
LEMMA RelatedNat ==
  ASSUME NEW R, R = OpToRel(<, Nat)
  PROVE  \A x, y \in Nat : <<x, y>> \in R <=> x < y
  BY DEF OpToRel

\* Any numbers have a least one.
LEMMA LeastNat ==
  ASSUME NEW T \in SUBSET Nat, T # {}
  PROVE  \E x \in T : \A y \in T : x <= y
<1>1. PICK R : R = OpToRel(<, Nat)
  OBVIOUS
<1>2. PICK x \in T : \A y \in T : ~ (<<y, x>> \in R)
  BY <1>1, MinimalNat
<1>3. \A y \in T : <<y, x>> \in R <=> y < x
  BY <1>1, RelatedNat
<1>4. ASSUME NEW y \in T PROVE x <= y
  <2>1. x \in Nat /\ y \in Nat
    OBVIOUS
  <2>2. ~ (y < x)
    BY <1>2, <1>3
  <2> QED BY <2>1, <2>2
<1> QED BY <1>4

\* By the least n for which some n of them have no greatest.
LEMMA GreatestNat ==
  ASSUME NEW S \in SUBSET Nat, IsFiniteSet(S), S # {}
  PROVE  \E x \in S : \A y \in S : y <= x
<1> DEFINE Topless == {T \in SUBSET S : T # {} /\ ~ \E x \in T : \A y \in T : y <= x}
           Sizes == {n \in Nat : \E T \in Topless : Cardinality(T) = n}
<1> SUFFICES ASSUME Topless # {} PROVE FALSE
  OBVIOUS
<1>1. \A T \in Topless : IsFiniteSet(T) /\ Cardinality(T) \in Nat
  BY FS_Subset, FS_CardinalityType
<1>2. Sizes # {} /\ Sizes \in SUBSET Nat
  BY <1>1
<1>3. PICK n \in Sizes : \A m \in Sizes : n <= m
  <2> HIDE DEF Sizes
  <2> QED BY <1>2, LeastNat
<1>4. PICK T \in Topless : Cardinality(T) = n
  OBVIOUS
<1>5. PICK a \in T : TRUE
  OBVIOUS
<1>6. IsFiniteSet(T \ {a}) /\ Cardinality(T \ {a}) = n - 1 /\ n - 1 \in Nat
  <2>1. IsFiniteSet(T) /\ n \in Nat
    BY <1>1, <1>4
  <2>2. IsFiniteSet(T \ {a}) /\ Cardinality(T \ {a}) = n - 1
    BY <2>1, <1>4, FS_RemoveElement
  <2>3. Cardinality(T \ {a}) \in Nat
    BY <2>2, FS_CardinalityType
  <2> QED BY <2>2, <2>3
<1>7. T \ {a} \notin Topless
  <2>1. n - 1 \notin Sizes
    BY <1>3, <1>6
  <2> QED BY <2>1, <1>6
<1>8. \E x \in T : \A y \in T : y <= x
  <2>1. CASE T \ {a} = {}
    BY <2>1
  <2>2. CASE T \ {a} # {}
    <3>1. PICK b \in T \ {a} : \A y \in T \ {a} : y <= b
      BY <1>7, <2>2
    <3>2. \A y \in T : y \in Nat
      OBVIOUS
    <3>3. CASE a <= b
      BY <3>1, <3>3
    <3>4. CASE b < a
      <4>1. \A y \in T : y <= a
        BY <3>1, <3>2, <3>4
      <4> QED BY <4>1
    <3> QED BY <3>2, <3>3, <3>4
  <2> QED BY <2>1, <2>2
<1> QED BY <1>8
-----------------------------------------------------------------------------
(* Sets of memories, and how many they are.                                 *)

\* Sets of identifiers are finite, and how many they are is a number.
LEMMA IdsFinite == \A S \in SUBSET Ids : IsFiniteSet(S) /\ Cardinality(S) \in Nat
<1>1. IsFiniteSet(Ids)
  BY FS_Interval, DistillAssumption DEF Ids
<1> QED
  BY <1>1, FS_Subset, FS_CardinalityType

\* Some of the identifiers are no more than all of them.
LEMMA FewerIds == \A S, T \in SUBSET Ids : S \subseteq T => Cardinality(S) <= Cardinality(T)
  BY IdsFinite, FS_Subset

\* Two sets of identifiers together are no more than one and the other.
LEMMA BothIds ==
  ASSUME NEW S \in SUBSET Ids, NEW T \in SUBSET Ids
  PROVE  /\ Cardinality(S \cup T) <= Cardinality(S) + Cardinality(T)
         /\ S \cap T = {} => Cardinality(S \cup T) = Cardinality(S) + Cardinality(T)
<1>1. S \cup T \in SUBSET Ids /\ S \cap T \in SUBSET Ids
  OBVIOUS
<1>2. /\ Cardinality(S) \in Nat /\ Cardinality(T) \in Nat
      /\ Cardinality(S \cup T) \in Nat /\ Cardinality(S \cap T) \in Nat
  BY <1>1, IdsFinite
<1>3. Cardinality(S \cup T) = Cardinality(S) + Cardinality(T) - Cardinality(S \cap T)
  BY IdsFinite, FS_Union
<1>4. S \cap T = {} => Cardinality(S \cap T) = 0
  BY FS_EmptySet
<1> QED BY <1>2, <1>3, <1>4

\* A new identifier makes one more.
LEMMA OneMoreId ==
  ASSUME NEW S \in SUBSET Ids, NEW m \in Ids \ S
  PROVE  Cardinality(S \cup {m}) = Cardinality(S) + 1
<1>1. IsFiniteSet(S)
  BY IdsFinite
<1> QED BY <1>1, FS_AddElement

\* Sets of workers are finite, and how many they are is a number.
LEMMA WorkersFinite == \A Y \in SUBSET Workers : IsFiniteSet(Y) /\ Cardinality(Y) \in Nat
  BY FS_Subset, FS_CardinalityType, DistillAssumption

\* What a claim takes: those with fewer than n before them are n at most.
LEMMA FirstFew ==
  ASSUME NEW S \in SUBSET Ids, NEW n \in Nat, NEW T,
         T = {j \in S : Cardinality({k \in S : k < j}) < n}
  PROVE  T \in SUBSET Ids /\ Cardinality(T) <= n
<1>1. T \in SUBSET Ids /\ IsFiniteSet(T)
  <2>1. T \in SUBSET Ids
    OBVIOUS
  <2> QED BY <2>1, IdsFinite
<1>2. CASE T = {}
  <2>1. Cardinality(T) = 0
    BY <1>2, FS_EmptySet
  <2> QED BY <1>1, <2>1
<1>3. CASE T # {}
  <2>1. T \in SUBSET Nat
    BY <1>1 DEF Ids
  <2>2. PICK m \in T : \A j \in T : j <= m
    BY <1>1, <1>3, <2>1, GreatestNat
  <2> DEFINE B == {k \in S : k < m}
  <2>3. Cardinality(B) < n /\ B \in SUBSET Ids /\ m \notin B
    <3>1. \A j \in T : Cardinality({k \in S : k < j}) < n
      BY Zenon
    <3>2. Cardinality(B) < n
      BY <2>2, <3>1
    <3>3. m \notin B
      BY <2>1, <2>2
    <3> QED BY <3>2, <3>3
  <2>4. T \subseteq B \cup {m}
    <3>1. ASSUME NEW j \in T, j # m PROVE j < m
      BY <2>1, <2>2, <3>1
    <3> QED BY <3>1
  <2>5. Cardinality(B \cup {m}) = Cardinality(B) + 1
    <3> HIDE DEF B
    <3> QED BY <2>2, <2>3, <1>1, OneMoreId
  <2>6. Cardinality(T) <= Cardinality(B \cup {m}) /\ Cardinality(T) \in Nat /\ Cardinality(B) \in Nat
    <3> HIDE DEF B
    <3>1. B \cup {m} \in SUBSET Ids
      BY <1>1, <2>2, <2>3
    <3> QED BY <1>1, <2>3, <2>4, <3>1, FewerIds, IdsFinite
  <2> QED
    <3> HIDE DEF B
    <3> QED BY <1>1, <2>3, <2>5, <2>6
<1> QED BY <1>2, <1>3

\* A memory beyond the newest n has n of them after it.
LEMMA WindowIsFull ==
  ASSUME NEW S \in SUBSET Ids, NEW n \in Nat, NEW e \in S \ Newest(S, n)
  PROVE  \E m \in S : /\ e <= m
                      /\ {k \in S : k > m} \subseteq Newest(S, n)
                      /\ Cardinality({k \in S : k > m}) >= n
<1> DEFINE Beyond == S \ Newest(S, n)
<1>1. Beyond \in SUBSET Ids /\ Beyond \in SUBSET Nat /\ Beyond # {} /\ IsFiniteSet(Beyond)
  <2>1. Beyond \in SUBSET Ids
    OBVIOUS
  <2> QED BY <2>1, IdsFinite DEF Ids
<1>2. PICK m \in Beyond : \A j \in Beyond : j <= m
  <2> HIDE DEF Beyond
  <2> QED BY <1>1, GreatestNat
<1>3. {k \in S : k > m} \subseteq Newest(S, n)
  BY <1>1, <1>2 DEF Ids
<1>4. Cardinality({k \in S : k > m}) >= n
  <2>1. ~ (Cardinality({k \in S : k > m}) < n)
    BY <1>2 DEF Newest
  <2>2. Cardinality({k \in S : k > m}) \in Nat
    BY IdsFinite
  <2> QED BY <2>1, <2>2
<1> QED BY <1>2, <1>3, <1>4

\* Whatever is newer than one of the newest is one of them.
LEMMA WindowIsUpward ==
  ASSUME NEW S \in SUBSET Ids, NEW n \in Nat, NEW f \in Newest(S, n), NEW e \in S, f <= e
  PROVE  e \in Newest(S, n)
<1>1. {k \in S : k > e} \subseteq {k \in S : k > f}
  <2>1. f \in S /\ S \in SUBSET Nat
    BY DEF Newest, Ids
  <2>2. ASSUME NEW k \in S, k > e PROVE k > f
    <3>1. e \in Nat /\ f \in Nat /\ k \in Nat
      BY <2>1
    <3> QED BY <2>2, <3>1
  <2> QED BY <2>2
<1>2. Cardinality({k \in S : k > e}) <= Cardinality({k \in S : k > f})
  BY <1>1, FewerIds
<1>3. /\ Cardinality({k \in S : k > e}) \in Nat /\ Cardinality({k \in S : k > f}) \in Nat
      /\ Cardinality({k \in S : k > f}) < n
  BY IdsFinite DEF Newest
<1>4. Cardinality({k \in S : k > e}) < n
  BY <1>2, <1>3
<1> QED BY <1>4 DEF Newest
-----------------------------------------------------------------------------
(* Jobs, batches and ids, whatever is claimed at a time.                    *)

\* A claim of at most B jobs, which ClaimDistillJobs makes.
ClaimFew(w, B) ==
  /\ pc[w] = "idle"
  /\ \E S \in SUBSET Worker!Ready :
       /\ S # {} /\ Cardinality(S) <= B
       /\ Worker!Queue!Grant(w, S)
       /\ batch' = [batch EXCEPT ![w] = S]
  /\ Worker!Goto(w, "list")
  /\ UNCHANGED <<memories, hooks, listed, picked, doomed, faults>>

OtherSteps ==
  \/ \E m \in Ids : StoreEvent(m) \/ EnqueueDistillJob(m) \/ HookDies(m) \/ StoreOther(m)
  \/ \E w \in Workers : Proceed(w) \/ DistillFails(w) \/ Abort(w)
  \/ LapseLeases
  \/ ListByHand \/ DistillByHand \/ HandGivesUp
  \/ ListForCleaning \/ DeleteBatch
  \/ UNCHANGED vars

StepsOf(B) == OtherSteps \/ \E w \in Workers : ClaimFew(w, B)

Holds(w) == {j \in Ids : holder[j] = w}

\* Who holds a job has it in its batch, and a batch is no larger than a claim.
BatchesOK(B) ==
  /\ \A w \in Workers : /\ Holds(w) \subseteq batch[w]
                        /\ Cardinality(batch[w]) <= B
                        /\ pc[w] = "idle" <=> batch[w] = {}
  /\ \A j \in Ids : holder[j] # Nobody => phase[j] \in {"leased", "lapsed"}

\* Ids are given in order, and only events have jobs or wait for one.
IdsOK ==
  /\ \A m, n \in Ids : m < n /\ kind[m] = "none" => kind[n] = "none"
  /\ \A m \in Ids : /\ kind[m] = "none" => state[m] = "absent"
                    /\ kind[m] # "event" => phase[m] = "absent" /\ m \notin owed \cup lost
                    /\ m \in owed \cup lost => phase[m] = "absent"
                    /\ m \in owed => m \notin lost

\* The steps of distillation are those of its batch size.
LEMMA StepsAre == [Next]_vars => StepsOf(BatchSize)
<1>1. ASSUME NEW w \in Workers, ClaimDistillJobs(w) PROVE ClaimFew(w, BatchSize)
  <2> DEFINE S == {j \in Worker!Ready : Cardinality({k \in Worker!Ready : k < j}) < BatchSize}
  <2>1. /\ pc[w] = "idle" /\ S # {}
        /\ Worker!Queue!Grant(w, S) /\ batch' = [batch EXCEPT ![w] = S]
        /\ Worker!Goto(w, "list")
        /\ UNCHANGED <<memories, hooks, listed, picked, doomed, faults>>
    <3>1. \A U : Worker!Cardinality(U) = Cardinality(U)
      BY Zenon DEF Worker!Cardinality, Cardinality
    <3>2. {j \in Worker!Ready : Worker!Cardinality({k \in Worker!Ready : k < j}) < BatchSize} = S
      BY <3>1
    <3> HIDE DEF S
    <3> QED BY <1>1, <3>2 DEF ClaimDistillJobs, Worker!Claim
  <2>2. Worker!Ready \in SUBSET Ids
    BY DEF Worker!Ready
  <2>3. S \in SUBSET Worker!Ready /\ Cardinality(S) <= BatchSize
    BY <2>2, FirstFew, DistillAssumption
  <2> HIDE DEF S
  <2> QED BY <2>1, <2>3 DEF ClaimFew
<1> QED BY <1>1 DEF Next, OtherSteps, StepsOf

\* A claim of no more than B jobs keeps every batch that small.
LEMMA ClaimBatches ==
  ASSUME NEW B \in Nat, QueueOK, BatchesOK(B), NEW w \in Workers, ClaimFew(w, B)
  PROVE  BatchesOK(B)'
<1>1. PICK S \in SUBSET Worker!Ready :
        /\ S # {} /\ Cardinality(S) <= B
        /\ Worker!Queue!Grant(w, S) /\ batch' = [batch EXCEPT ![w] = S]
  BY DEF ClaimFew
<1>2. /\ phase' = [j \in Ids |-> IF j \in S THEN "leased" ELSE phase[j]]
      /\ holder' = [j \in Ids |-> IF j \in S THEN w ELSE holder[j]]
      /\ pc' = [pc EXCEPT ![w] = "list"] /\ pc[w] = "idle"
  BY <1>1 DEF ClaimFew, Worker!Goto, Worker!Queue!Grant, Worker!Queue!Move, Worker!Queue!Give
<1>3. ASSUME NEW v \in Workers
      PROVE  /\ Holds(v)' \subseteq batch'[v]
             /\ Cardinality(batch'[v]) <= B
             /\ pc'[v] = "idle" <=> batch'[v] = {}
  <2>1. Holds(w) = {} /\ S \subseteq Ids
    BY <1>2 DEF BatchesOK, Worker!Ready
  <2>2. CASE v = w
    BY <1>1, <1>2, <2>1, <2>2 DEF QueueOK, Worker!TypeOK, Holds
  <2>3. CASE v # w
    BY <1>1, <1>2, <2>3 DEF QueueOK, Worker!TypeOK, Holds, BatchesOK
  <2> QED BY <2>2, <2>3
<1>4. \A j \in Ids : holder'[j] # Nobody => phase'[j] \in {"leased", "lapsed"}
  BY <1>2 DEF BatchesOK
<1> QED BY <1>3, <1>4 DEF BatchesOK

\* A worker that goes on within its job keeps the batches.
LEMMA StepBatches ==
  ASSUME NEW B \in Nat, QueueOK, BatchesOK(B), NEW w \in Workers, NEW from, NEW to \in Point,
         "idle" \notin from, Worker!Step(w, from, to)
  PROVE  BatchesOK(B)'
  BY DEF QueueOK, Worker!TypeOK, BatchesOK, Holds, Worker!Step, Worker!Goto, Point

\* A worker that completes or fails its job keeps the batches small.
LEMMA SettleBatches ==
  ASSUME NEW B \in Nat, QueueOK, BatchesOK(B), NEW w \in Workers, SettleJob(w)
  PROVE  BatchesOK(B)'
<1> DEFINE f == Worker!First(w)
<1>1. PICK p \in Outcome(w) : Worker!Queue!Settle(w, f, p)
  BY DEF SettleJob, Worker!Settle
<1>2. /\ batch' = [batch EXCEPT ![w] = @ \ {f}]
      /\ pc' = [pc EXCEPT ![w] = IF batch[w] = {f} THEN "idle" ELSE "rest"]
  BY DEF SettleJob, Worker!Settle, Worker!Goto
<1> HIDE DEF f
<1>3. /\ phase' = [j \in Ids |-> IF j \in {f} THEN p ELSE phase[j]]
      /\ holder' = [j \in Ids |-> IF j \in {f} THEN Nobody ELSE holder[j]]
      /\ holder[f] = w /\ phase[f] \in {"leased", "lapsed"}
  BY <1>1 DEF Worker!Queue!Settle, Worker!Queue!Move, Worker!Queue!Give
<1>4. Outcome(w) # {}
  BY <1>1
<1>5. pc[w] \in {"done", "rest", "failed"}
  BY <1>4 DEF Outcome
<1>6. ASSUME NEW v \in Workers
      PROVE  /\ Holds(v)' \subseteq batch'[v]
             /\ Cardinality(batch'[v]) <= B
             /\ pc'[v] = "idle" <=> batch'[v] = {}
  <2>1. batch[v] \in SUBSET Ids /\ batch[v] \ {f} \in SUBSET Ids
    BY DEF QueueOK, Worker!TypeOK
  <2>2. Cardinality(batch[v] \ {f}) <= Cardinality(batch[v])
    BY <2>1, FewerIds
  <2>3. Cardinality(batch[v]) \in Nat /\ Cardinality(batch[v] \ {f}) \in Nat
    BY <2>1, IdsFinite
  <2>4. CASE v = w
    <3>1. batch'[v] = batch[v] \ {f} /\ pc'[v] = IF batch[w] = {f} THEN "idle" ELSE "rest"
      BY <1>2, <2>4 DEF QueueOK, Worker!TypeOK
    <3>2. batch[w] # {}
      BY <1>5 DEF BatchesOK
    <3>3. Holds(v)' \subseteq batch[v] \ {f}
      BY <1>3, <2>4, DistillAssumption DEF Holds, BatchesOK
    <3> QED BY <3>1, <3>2, <3>3, <2>2, <2>3, <2>4 DEF BatchesOK
  <2>5. CASE v # w
    <3>1. batch'[v] = batch[v] /\ pc'[v] = pc[v]
      BY <1>2, <2>5 DEF QueueOK, Worker!TypeOK
    <3>2. Holds(v)' \subseteq Holds(v)
      BY <1>3, DistillAssumption DEF Holds
    <3> QED BY <3>1, <3>2 DEF BatchesOK
  <2> QED BY <2>4, <2>5
<1>7. \A j \in Ids : holder'[j] # Nobody => phase'[j] \in {"leased", "lapsed"}
  BY <1>3 DEF BatchesOK
<1> QED BY <1>6, <1>7 DEF BatchesOK

\* A worker that leaves its batch keeps the others small.
LEMMA LeaveBatches ==
  ASSUME NEW B \in Nat, QueueOK, BatchesOK(B), NEW w \in Workers, Worker!Leave(w)
  PROVE  BatchesOK(B)'
<1>1. /\ phase' = phase
      /\ holder' = [j \in Ids |-> IF j \in {k \in Ids : holder[k] = w} THEN Nobody ELSE holder[j]]
      /\ batch' = [batch EXCEPT ![w] = {}] /\ pc' = [pc EXCEPT ![w] = "idle"]
  BY DEF Worker!Leave, Worker!Goto, Worker!Queue!Lose, Worker!Queue!Give
<1>2. Cardinality({}) = 0
  BY FS_EmptySet
<1>3. ASSUME NEW v \in Workers
      PROVE  /\ Holds(v)' \subseteq batch'[v]
             /\ Cardinality(batch'[v]) <= B
             /\ pc'[v] = "idle" <=> batch'[v] = {}
  <2>1. CASE v = w
    BY <1>1, <1>2, <2>1, DistillAssumption DEF QueueOK, Worker!TypeOK, Holds
  <2>2. CASE v # w
    BY <1>1, <2>2, DistillAssumption DEF QueueOK, Worker!TypeOK, Holds, BatchesOK
  <2> QED BY <2>1, <2>2
<1>4. \A j \in Ids : holder'[j] # Nobody => phase'[j] \in {"leased", "lapsed"}
  BY <1>1 DEF BatchesOK
<1> QED BY <1>3, <1>4 DEF BatchesOK

\* New jobs and lapsed leases keep the batches.
LEMMA OtherBatches ==
  ASSUME NEW B \in Nat, QueueOK, BatchesOK(B),
         (\E m \in Ids : Worker!Submit(m)) \/ (\E S \in SUBSET Ids : Worker!Lapse(S))
           \/ UNCHANGED queue
  PROVE  BatchesOK(B)'
  BY DEF QueueOK, Worker!TypeOK, BatchesOK, Holds, Worker!Submit, Worker!Lapse, queue,
         Worker!Queue!Submit, Worker!Queue!Lapse, Worker!Queue!Move

\* Every step keeps the batches small.
LEMMA BatchesKept ==
  ASSUME NEW B \in Nat, QueueOK, BatchesOK(B), StepsOf(B)
  PROVE  BatchesOK(B)'
<1> USE DEF Point
<1>1. ASSUME NEW m \in Ids, StoreEvent(m) \/ EnqueueDistillJob(m) \/ HookDies(m) \/ StoreOther(m)
      PROVE  BatchesOK(B)'
  BY <1>1, OtherBatches DEF StoreEvent, EnqueueDistillJob, HookDies, StoreOther
<1>2. ASSUME NEW w \in Workers, ClaimFew(w, B) PROVE BatchesOK(B)'
  BY <1>2, ClaimBatches
<1>3. ASSUME NEW w \in Workers, ListEvents(w) PROVE BatchesOK(B)'
  BY <1>3, StepBatches DEF ListEvents
<1>4. ASSUME NEW w \in Workers, DistillSession(w) PROVE BatchesOK(B)'
  BY <1>4, StepBatches DEF DistillSession
<1>5. ASSUME NEW w \in Workers, SettleJob(w) PROVE BatchesOK(B)'
  BY <1>5, SettleBatches
<1>6. ASSUME NEW w \in Workers, LostLease(w) \/ Abort(w) PROVE BatchesOK(B)'
  BY <1>6, LeaveBatches DEF LostLease, Worker!LostLease, Abort
<1>7. ASSUME NEW w \in Workers, DistillFails(w) PROVE BatchesOK(B)'
  BY <1>7, StepBatches DEF DistillFails
<1>8. CASE LapseLeases
  BY <1>8, OtherBatches DEF LapseLeases
<1>9. CASE ListByHand \/ DistillByHand \/ HandGivesUp \/ ListForCleaning \/ DeleteBatch
  BY <1>9, OtherBatches DEF ListByHand, DistillByHand, HandGivesUp, ListForCleaning, DeleteBatch
<1>10. CASE UNCHANGED vars
  BY <1>10, OtherBatches DEF vars
<1> QED
  BY <1>1, <1>2, <1>3, <1>4, <1>5, <1>6, <1>7, <1>8, <1>9, <1>10
     DEF StepsOf, OtherSteps, Proceed
\* An insert takes the least free identifier, of which no hook and no job knows.
LEMMA InsertIds ==
  ASSUME MemoriesOK, IdsOK, NEW m \in Ids, NEW k \in Kind \ {"none"}, IsNext(m), Insert(m, k)
  PROVE  /\ \A n \in Ids : n < m => kind[n] # "none"
         /\ \A i, n \in Ids : i < n /\ kind'[i] = "none" => kind'[n] = "none"
         /\ kind' = [kind EXCEPT ![m] = k] /\ kind[m] = "none"
         /\ phase[m] = "absent" /\ m \notin owed \cup lost /\ state[m] = "absent"
<1>1. kind' = [kind EXCEPT ![m] = k] /\ kind[m] = "none" /\ \A n \in Ids : n < m => kind[n] # "none"
  BY DEF IsNext, Insert
<1>2. ASSUME NEW i \in Ids, NEW n \in Ids, i < n, kind'[i] = "none" PROVE kind'[n] = "none"
  <2>1. i # m /\ kind[i] = "none"
    BY <1>1, <1>2 DEF MemoriesOK
  <2>2. kind[n] = "none" /\ ~ (i < m)
    BY <1>1, <1>2, <2>1 DEF IdsOK
  <2>3. n # m
    BY <1>2, <2>2
  <2> QED BY <1>1, <2>2, <2>3 DEF MemoriesOK
<1> QED BY <1>1, <1>2 DEF IdsOK

\* Storing a summary keeps identifiers in the order of their inserts.
LEMMA SummaryIds ==
  ASSUME MemoriesOK, IdsOK, NEW s \in Ids, NEW S \in SUBSET Ids, Lists(S), StoreSummary(s, S),
         UNCHANGED <<phase, owed, lost>>
  PROVE  IdsOK'
<1>1. /\ \A n \in Ids : n < s => kind[n] # "none"
      /\ \A i, n \in Ids : i < n /\ kind'[i] = "none" => kind'[n] = "none"
      /\ kind' = [kind EXCEPT ![s] = "summary"] /\ kind[s] = "none"
      /\ phase[s] = "absent" /\ s \notin owed \cup lost /\ state[s] = "absent"
  BY InsertIds DEF StoreSummary, Kind
<1>2. /\ \A m \in Ids : state'[m] = IF m = s THEN "active"
                                  ELSE IF m \in S /\ state[m] # "deleted" THEN "archived"
                                  ELSE state[m]
      /\ phase' = phase /\ owed' = owed /\ lost' = lost
  BY DEF StoreSummary
<1>3. \A m \in Ids : /\ kind'[m] = "none" => state'[m] = "absent"
                     /\ kind'[m] # "event" => phase'[m] = "absent" /\ m \notin owed' \cup lost'
                     /\ m \in owed' \cup lost' => phase'[m] = "absent"
  BY <1>1, <1>2 DEF MemoriesOK, IdsOK, Lists
<1> QED BY <1>1, <1>3 DEF IdsOK

\* What the workers do to the jobs: a job that is absent stays so.
LEMMA WorkKeepsAbsent ==
  ASSUME QueueOK, NEW B \in Nat, BatchesOK(B), NEW w \in Workers,
         ClaimFew(w, B) \/ Proceed(w) \/ DistillFails(w) \/ Abort(w)
  PROVE  \A j \in Ids : phase[j] = "absent" => phase'[j] = "absent"
<1>1. ASSUME ClaimFew(w, B) PROVE \A j \in Ids : phase[j] = "absent" => phase'[j] = "absent"
  BY <1>1 DEF ClaimFew, Worker!Ready, Worker!Queue!Grant, Worker!Queue!Move
<1>2. ASSUME SettleJob(w) PROVE \A j \in Ids : phase[j] = "absent" => phase'[j] = "absent"
  BY <1>2 DEF SettleJob, Worker!Settle, Worker!Queue!Settle, Worker!Queue!Move
<1>3. ASSUME ListEvents(w) \/ DistillSession(w) \/ LostLease(w) \/ DistillFails(w) \/ Abort(w)
      PROVE  phase' = phase
  BY <1>3 DEF ListEvents, DistillSession, LostLease, DistillFails, Abort, Worker!LostLease,
              Worker!Leave, Worker!Step, Worker!Queue!Lose
<1> QED BY <1>1, <1>2, <1>3 DEF Proceed

\* Every step keeps identifiers in the order of their inserts.
LEMMA IdsKept ==
  ASSUME NEW B \in Nat, IInv, BatchesOK(B), IdsOK, StepsOf(B)
  PROVE  IdsOK'
<1>a. MemoriesOK /\ ListsOK /\ QueueOK /\ SourcesAreEvents
  BY DEF IInv, TypeOK, MemoriesOK, ListsOK, QueueOK
<1> USE <1>a
<1>1. ASSUME NEW m \in Ids, StoreEvent(m) PROVE IdsOK'
  <2>1. /\ \A i, n \in Ids : i < n /\ kind'[i] = "none" => kind'[n] = "none"
        /\ kind' = [kind EXCEPT ![m] = "event"] /\ phase[m] = "absent" /\ m \notin owed \cup lost
    BY <1>1, InsertIds DEF StoreEvent, Kind
  <2>2. /\ state' = [state EXCEPT ![m] = "active"] /\ owed' = owed \cup {m} /\ lost' = lost
        /\ phase' = phase
    BY <1>1 DEF StoreEvent, queue
  <2> QED BY <2>1, <2>2 DEF IdsOK, MemoriesOK
<1>2. ASSUME NEW m \in Ids, StoreOther(m) PROVE IdsOK'
  <2>1. /\ \A i, n \in Ids : i < n /\ kind'[i] = "none" => kind'[n] = "none"
        /\ kind' = [kind EXCEPT ![m] = "other"] /\ phase[m] = "absent" /\ m \notin owed \cup lost
    BY <1>2, InsertIds DEF StoreOther, Kind
  <2>2. /\ state' = [state EXCEPT ![m] = "active"] /\ owed' = owed /\ lost' = lost
        /\ phase' = phase
    BY <1>2 DEF StoreOther, queue, hooks
  <2> QED BY <2>1, <2>2 DEF IdsOK, MemoriesOK
<1>3. ASSUME NEW m \in Ids, EnqueueDistillJob(m) PROVE IdsOK'
  <2>1. /\ m \in owed /\ owed' = owed \ {m} /\ lost' = lost /\ UNCHANGED <<kind, state>>
        /\ phase' = [j \in Ids |-> IF j \in {m} THEN "open" ELSE phase[j]]
    BY <1>3 DEF EnqueueDistillJob, memories, Worker!Submit, Worker!Queue!Submit,
                Worker!Queue!Move
  <2> QED BY <2>1 DEF IdsOK
<1>4. ASSUME NEW m \in Ids, HookDies(m) PROVE IdsOK'
  BY <1>4 DEF HookDies, IdsOK, memories, queue
<1>5. ASSUME NEW w \in Workers, ClaimFew(w, B) \/ Proceed(w) \/ DistillFails(w) \/ Abort(w)
      PROVE  IdsOK'
  <2>1. UNCHANGED hooks
    BY <1>5 DEF ClaimFew, Proceed, ListEvents, DistillSession, SettleJob, LostLease,
                DistillFails, Abort
  <2>2. CASE DistillSession(w)
    <3>1. PICK s \in Ids : StoreSummary(s, listed[w])
      BY <2>2 DEF DistillSession
    <3>2. listed[w] \in SUBSET Ids /\ Lists(listed[w])
      BY DEF ListsOK, SourcesAreEvents
    <3>3. phase' = phase
      BY <2>2 DEF DistillSession, Worker!Step
    <3> QED BY <2>1, <3>1, <3>2, <3>3, SummaryIds DEF hooks
  <2>3. CASE ~ DistillSession(w)
    <3>1. UNCHANGED memories
      BY <1>5, <2>3 DEF ClaimFew, Proceed, ListEvents, SettleJob, LostLease, DistillFails, Abort
    <3>2. \A j \in Ids : phase[j] = "absent" => phase'[j] = "absent"
      BY <1>5, WorkKeepsAbsent
    <3> QED BY <2>1, <3>1, <3>2 DEF IdsOK, memories, hooks
  <2> QED BY <2>2, <2>3
<1>6. CASE LapseLeases
  BY <1>6 DEF LapseLeases, Worker!Lapse, Worker!Queue!Lapse, Worker!Queue!Move, IdsOK,
              memories, hooks
<1>7. CASE ListByHand \/ HandGivesUp \/ ListForCleaning \/ UNCHANGED vars
  BY <1>7 DEF ListByHand, HandGivesUp, ListForCleaning, IdsOK, memories, hooks, queue, vars
<1>8. CASE DistillByHand
  <2>1. PICK s \in Ids : StoreSummary(s, picked)
    BY <1>8 DEF DistillByHand
  <2>2. picked \in SUBSET Ids /\ Lists(picked) /\ UNCHANGED <<phase, owed, lost>>
    BY <1>8 DEF DistillByHand, ListsOK, SourcesAreEvents, queue, hooks
  <2> QED BY <2>1, <2>2, SummaryIds
<1>9. CASE DeleteBatch
  <2>1. /\ \A m \in Ids : state'[m] = IF m \in doomed THEN "deleted" ELSE state[m]
        /\ UNCHANGED <<kind, phase, owed, lost>>
    BY <1>9 DEF DeleteBatch, queue, hooks
  <2>2. \A m \in doomed : kind[m] = "event"
    BY DEF SourcesAreEvents, Lists
  <2> QED BY <2>1, <2>2 DEF IdsOK
<1> QED
  BY <1>1, <1>2, <1>3, <1>4, <1>5, <1>6, <1>7, <1>8, <1>9 DEF StepsOf, OtherSteps
-----------------------------------------------------------------------------
(* QuietIsDistilled.  The jobs that are pending will each lead to another   *)
(* look at the session, after the events that are active now; the workers   *)
(* of Y, which have listed but not stored, are about to retire what they    *)
(* listed and to add a summary each.  Whichever of them one takes for done, *)
(* no event that is left has more events from it on than a distillation     *)
(* leaves and pending jobs account for, unless other memories have pushed   *)
(* it so far back that its window has too few events.  A failure leaves one *)
(* job of its batch pending, which stands for the others.                   *)

Waits(Y, j) ==
  \A w \in Workers : holder[j] = w =>
    \/ pc[w] = "list"
    \/ pc[w] = "store" /\ w \notin Y
    \/ pc[w] = "failed" /\ (j = Worker!First(w) \/ holder[Worker!First(w)] # w)

Pending(Y) == {j \in Ids : \/ j \in owed \cup lost
                           \/ phase[j] \in {"open", "dead"}
                           \/ phase[j] \in {"leased", "lapsed"} /\ Waits(Y, j)}

Inflight   == {w \in Workers : pc[w] = "store"}
Covered(Y) == UNION {listed[w] : w \in Y}
Left(Y, e) == {f \in Events(Active) \ Covered(Y) : f >= e}
Later(e)   == {m \in Active : kind[m] # "event" /\ m > e}

Owing(P, f, B) == Cardinality(P) + (IF P = {} THEN 0 ELSE f * (B - 1))

QuietAt(Y, e, B) ==
  \/ Cardinality(Later(e)) + Cardinality(Y) + MinEvents > MaxEvents
  \/ Cardinality(Left(Y, e)) < MinEvents + Owing(Pending(Y), faults, B)

QuietInv(B) ==
  \A Y \in SUBSET Inflight : \A e \in Events(Active) \ Covered(Y) : QuietAt(Y, e, B)

\* The sets that are counted here are sets of identifiers.
LEMMA SubsetsOfIds ==
  ASSUME NEW Y, NEW e
  PROVE  /\ Pending(Y) \in SUBSET Ids /\ Left(Y, e) \in SUBSET Ids /\ Later(e) \in SUBSET Ids
         /\ Events(Active) \in SUBSET Ids /\ Active \in SUBSET Ids
  BY DEF Pending, Left, Later, Events, Active

\* What is used of products: they are numbers, grow with a factor, and distribute.
LEMMA Product ==
  ASSUME NEW a \in Nat, NEW b \in Nat, NEW c \in Nat
  PROVE  /\ a * c \in Nat
         /\ a <= b => a * c <= b * c
         /\ (a + 1) * c = a * c + c
<1>1. a * c \in Nat
  OBVIOUS
<1>2. (a + 1) * c = a * c + c
  OBVIOUS
<1>3. ASSUME a <= b PROVE a * c <= b * c
  <2>1. PICK d \in Nat : b = a + d
    <3>1. b - a \in Nat /\ b = a + (b - a)
      BY <1>3
    <3> QED BY <3>1
  <2>2. b * c = a * c + d * c
    BY <2>1
  <2>3. d * c \in Nat
    BY <2>1
  <2> QED BY <1>1, <2>2, <2>3
<1> QED BY <1>1, <1>2, <1>3

\* What P events and f faults may owe: between the events and the events with their lost claims.
LEMMA OwingIs ==
  ASSUME NEW P \in SUBSET Ids, NEW f \in Nat, NEW B \in Nat \ {0}
  PROVE  /\ Owing(P, f, B) \in Nat /\ Cardinality(P) <= Owing(P, f, B)
         /\ Owing(P, f, B) <= Cardinality(P) + f * (B - 1)
         /\ P # {} => Owing(P, f, B) = Cardinality(P) + f * (B - 1)
         /\ P = {} => Owing(P, f, B) = 0
<1>1. Cardinality(P) \in Nat /\ (P = {} => Cardinality(P) = 0)
  BY IdsFinite, FS_EmptySet
<1>2. f * (B - 1) \in Nat
  <2>1. B - 1 \in Nat
    OBVIOUS
  <2> QED BY <2>1, Product
<1> QED BY <1>1, <1>2 DEF Owing

\* More events and more faults owe more.
LEMMA OwingGrows ==
  ASSUME NEW P \in SUBSET Ids, NEW Q \in SUBSET Ids, P \subseteq Q,
         NEW f \in Nat, NEW g \in Nat, f <= g, NEW B \in Nat \ {0}
  PROVE  Owing(P, f, B) <= Owing(Q, g, B)
<1>1. Cardinality(P) \in Nat /\ Cardinality(Q) \in Nat /\ Cardinality(P) <= Cardinality(Q)
  BY IdsFinite, FewerIds
<1>2. f * (B - 1) \in Nat /\ g * (B - 1) \in Nat /\ f * (B - 1) <= g * (B - 1)
  <2>1. B - 1 \in Nat
    OBVIOUS
  <2> QED BY <2>1, Product
<1>3. CASE P = {}
  <2>1. Owing(P, f, B) = 0
    BY <1>3, OwingIs
  <2>2. Owing(Q, g, B) \in Nat
    BY OwingIs
  <2> QED BY <2>1, <2>2
<1>4. CASE P # {}
  <2>1. Q # {}
    BY <1>4
  <2>2. Owing(P, f, B) = Cardinality(P) + f * (B - 1)
    BY <1>4, OwingIs
  <2>3. Owing(Q, g, B) = Cardinality(Q) + g * (B - 1)
    BY <2>1, OwingIs
  <2> QED BY <1>1, <1>2, <2>2, <2>3
<1> QED BY <1>3, <1>4

\* The counts of a state that is well typed.
LEMMA CountsOK ==
  ASSUME NEW B \in Nat \ {0}, faults \in Nat, NEW Y \in SUBSET Workers, NEW e
  PROVE  /\ Cardinality(Later(e)) \in Nat /\ Cardinality(Left(Y, e)) \in Nat
         /\ Cardinality(Y) \in Nat /\ Owing(Pending(Y), faults, B) \in Nat
  BY SubsetsOfIds, IdsFinite, WorkersFinite, OwingIs

\* What is owed has not shrunk, nor what is later, nor has what is left grown.
LEMMA QuietCarried ==
  ASSUME NEW B \in Nat \ {0}, faults \in Nat, faults' \in Nat,
         NEW e, NEW Y \in SUBSET Workers, NEW Z \in SUBSET Workers, QuietAt(Y, e, B),
         Cardinality(Later(e)) + Cardinality(Y) <= Cardinality(Later(e)') + Cardinality(Z),
         Left(Z, e)' \subseteq Left(Y, e),
         Owing(Pending(Y), faults, B) <= Owing(Pending(Z)', faults', B)
  PROVE  QuietAt(Z, e, B)'
<1>1. /\ Cardinality(Later(e)) \in Nat /\ Cardinality(Left(Y, e)) \in Nat
      /\ Cardinality(Y) \in Nat /\ Owing(Pending(Y), faults, B) \in Nat
  BY CountsOK
<1>2. Pending(Z)' \in SUBSET Ids /\ Left(Z, e)' \in SUBSET Ids /\ Later(e)' \in SUBSET Ids
  BY DEF Pending, Left, Later, Events, Active
<1>3. Left(Y, e) \in SUBSET Ids
  BY SubsetsOfIds
<1>4. /\ Cardinality(Later(e)') \in Nat /\ Cardinality(Left(Z, e)') \in Nat
      /\ Cardinality(Z) \in Nat /\ Owing(Pending(Z)', faults', B) \in Nat
  BY <1>2, IdsFinite, WorkersFinite, OwingIs
<1>5. Cardinality(Left(Z, e)') <= Cardinality(Left(Y, e))
  BY <1>2, <1>3, FewerIds
<1>6. MinEvents \in Nat /\ MaxEvents \in Nat
  BY DistillAssumption
<1>7. QuietAt(Z, e, B)' <=>
        \/ Cardinality(Later(e)') + Cardinality(Z) + MinEvents > MaxEvents
        \/ Cardinality(Left(Z, e)') < MinEvents + Owing(Pending(Z)', faults', B)
  BY DEF QuietAt, Owing
<1>8. \/ Cardinality(Later(e)) + Cardinality(Y) + MinEvents > MaxEvents
      \/ Cardinality(Left(Y, e)) < MinEvents + Owing(Pending(Y), faults, B)
  BY DEF QuietAt
<1>9. CASE Cardinality(Later(e)) + Cardinality(Y) + MinEvents > MaxEvents
  BY <1>1, <1>4, <1>6, <1>7, <1>9
<1>10. CASE Cardinality(Left(Y, e)) < MinEvents + Owing(Pending(Y), faults, B)
  BY <1>1, <1>4, <1>5, <1>6, <1>7, <1>10
<1> QED BY <1>8, <1>9, <1>10
\* The job a worker is at is one of its batch.
LEMMA FirstOf ==
  ASSUME NEW w \in Workers, batch[w] \in SUBSET Ids, batch[w] # {}
  PROVE  Worker!First(w) \in batch[w] /\ Worker!First(w) \in Ids
<1>1. \E j \in batch[w] : \A k \in batch[w] : j <= k
  BY LeastNat DEF Ids
<1> QED
  BY <1>1 DEF Worker!First

\* What each step leaves pending.

\* A worker with the same batch is at the same job.
LEMMA FirstSame ==
  ASSUME NEW v, batch'[v] = batch[v]
  PROVE  Worker!First(v)' = Worker!First(v)
  BY DEF Worker!First

\* A job that is held and pending keeps its holder, or gets one that will look.
LEMMA PendingStays ==
  ASSUME QueueOK, QueueOK', NEW Y, NEW j \in Pending(Y),
         owed' \cup lost' = owed \cup lost, phase'[j] = phase[j],
         \A w \in Workers : holder'[j] = w =>
           \/ pc'[w] = "list"
           \/ /\ holder[j] = w /\ pc'[w] = pc[w] /\ batch'[w] = batch[w]
              /\ holder[Worker!First(w)] # w => holder'[Worker!First(w)] # w
  PROVE  j \in Pending(Y)'
<1>1. ASSUME Waits(Y, j), NEW w \in Workers, holder'[j] = w
      PROVE  \/ pc'[w] = "list"
             \/ pc'[w] = "store" /\ w \notin Y
             \/ pc'[w] = "failed" /\ (j = Worker!First(w)' \/ holder'[Worker!First(w)'] # w)
  <2>1. CASE pc'[w] = "list"
    BY <2>1
  <2>2. CASE /\ holder[j] = w /\ pc'[w] = pc[w] /\ batch'[w] = batch[w]
             /\ holder[Worker!First(w)] # w => holder'[Worker!First(w)] # w
    <3>1. Worker!First(w)' = Worker!First(w)
      BY <2>2, FirstSame
    <3> QED BY <1>1, <2>2, <3>1 DEF Waits
  <2> QED BY <1>1, <2>1, <2>2
<1>2. Waits(Y, j) => Waits(Y, j)'
  BY <1>1 DEF Waits
<1> QED BY <1>2 DEF Pending

\* A claim leaves every pending event pending.
LEMMA ClaimPending ==
  ASSUME NEW B, QueueOK, QueueOK', BatchesOK(B), NEW w \in Workers, ClaimFew(w, B), NEW Y
  PROVE  Pending(Y) \subseteq Pending(Y)'
<1>1. PICK S \in SUBSET Worker!Ready :
        Worker!Queue!Grant(w, S) /\ batch' = [batch EXCEPT ![w] = S]
  BY DEF ClaimFew
<1>2. /\ \A j \in Ids : phase'[j] = IF j \in S THEN "leased" ELSE phase[j]
      /\ holder' = [j \in Ids |-> IF j \in S THEN w ELSE holder[j]]
      /\ pc' = [pc EXCEPT ![w] = "list"] /\ pc[w] = "idle" /\ UNCHANGED <<owed, lost>>
      /\ S \subseteq Ids
  BY <1>1 DEF ClaimFew, Worker!Ready, Worker!Goto, Worker!Queue!Grant, Worker!Queue!Move,
              Worker!Queue!Give, hooks
<1>3. \A j \in Ids : holder[j] # w
  BY <1>2 DEF BatchesOK, Holds
<1>4. ASSUME NEW j \in Ids, j \in S PROVE j \in Pending(Y)'
  BY <1>2, <1>4 DEF Pending, Waits, QueueOK, Worker!TypeOK
<1>5. ASSUME NEW j \in Pending(Y), j \notin S PROVE j \in Pending(Y)'
  <2>1. ASSUME NEW v \in Workers, holder'[j] = v
        PROVE  /\ holder[j] = v /\ pc'[v] = pc[v] /\ batch'[v] = batch[v]
               /\ holder[Worker!First(v)] # v => holder'[Worker!First(v)] # v
    <3>1. j \in Ids /\ holder[j] = v /\ v # w
      BY <1>2, <1>3, <1>5, <2>1 DEF Pending
    <3>2. pc'[v] = pc[v] /\ batch'[v] = batch[v] /\ batch[v] # {}
      BY <1>1, <1>2, <3>1 DEF QueueOK, Worker!TypeOK, BatchesOK, Holds
    <3>3. Worker!First(v) \in Ids
      BY <3>2, FirstOf DEF QueueOK, Worker!TypeOK
    <3> QED BY <1>2, <3>1, <3>2, <3>3
  <2>2. phase'[j] = phase[j] /\ owed' \cup lost' = owed \cup lost
    BY <1>2, <1>5 DEF Pending
  <2> QED BY <2>1, <2>2, PendingStays
<1> QED BY <1>4, <1>5 DEF Pending

\* A worker that is done with its job leaves every pending event pending.
LEMMA SettlePending ==
  ASSUME NEW B, QueueOK, QueueOK', BatchesOK(B), NEW w \in Workers, SettleJob(w), NEW Y
  PROVE  Pending(Y) \subseteq Pending(Y)'
<1> DEFINE f == Worker!First(w)
<1>1. PICK p \in Outcome(w) : Worker!Queue!Settle(w, f, p)
  BY DEF SettleJob, Worker!Settle
<1>2. /\ batch' = [batch EXCEPT ![w] = @ \ {f}]
      /\ pc' = [pc EXCEPT ![w] = IF batch[w] = {f} THEN "idle" ELSE "rest"]
      /\ owed' = owed /\ lost' = lost
  BY DEF SettleJob, Worker!Settle, Worker!Goto, hooks
<1>f. f = Worker!First(w)
  OBVIOUS
<1> HIDE DEF f
<1>3. /\ phase' = [j \in Ids |-> IF j \in {f} THEN p ELSE phase[j]]
      /\ holder' = [j \in Ids |-> IF j \in {f} THEN Nobody ELSE holder[j]]
      /\ holder[f] = w /\ phase[f] \in {"leased", "lapsed"} /\ p \in {"open", "done", "dead"}
  BY <1>1 DEF Worker!Queue!Settle, Worker!Queue!Move, Worker!Queue!Give
<1>4. Outcome(w) # {}
  BY <1>1
<1>5. pc[w] \in {"done", "rest", "failed"} /\ (pc[w] = "failed" => p \in {"open", "dead"})
  BY <1>1, <1>4 DEF Outcome
<1>6. ASSUME NEW j \in Pending(Y) PROVE j \in Pending(Y)'
  <2>1. j \in Ids
    BY DEF Pending
  <2>2. CASE j \in owed \cup lost
    BY <1>2, <2>1, <2>2 DEF Pending
  <2>3. CASE j = f /\ j \notin owed \cup lost
    <3>1. Waits(Y, f)
      BY <1>3, <2>3, <1>6 DEF Pending
    <3>2. pc[w] = "failed"
      BY <3>1, <1>3, <1>5 DEF Waits
    <3> QED BY <3>2, <1>3, <1>5, <2>1, <2>3 DEF Pending
  <2>4. CASE j # f /\ j \notin owed \cup lost
    <3>1. phase'[j] = phase[j] /\ holder'[j] = holder[j]
      BY <1>3, <2>1, <2>4
    <3>2. ASSUME NEW v \in Workers, holder'[j] = v
          PROVE  /\ holder[j] = v /\ pc'[v] = pc[v] /\ batch'[v] = batch[v]
                 /\ holder[Worker!First(v)] # v => holder'[Worker!First(v)] # v
      <4>1. v # w
        <5>1. SUFFICES ASSUME v = w PROVE FALSE
          OBVIOUS
        <5>2. phase[j] \in {"leased", "lapsed"}
          BY <2>1, <3>1, <3>2, DistillAssumption DEF BatchesOK
        <5>3. Waits(Y, j)
          BY <5>2, <2>4, <1>6 DEF Pending
        <5> QED BY <5>1, <5>3, <1>3, <1>5, <1>f, <2>4, <3>1, <3>2 DEF Waits
      <4>2. pc'[v] = pc[v] /\ batch'[v] = batch[v] /\ batch[v] # {}
        BY <1>2, <2>1, <3>1, <3>2, <4>1 DEF QueueOK, Worker!TypeOK, BatchesOK, Holds
      <4>3. Worker!First(v) \in Ids
        BY <4>2, FirstOf DEF QueueOK, Worker!TypeOK
      <4> QED BY <1>3, <3>1, <3>2, <4>2, <4>3, DistillAssumption
    <3> QED BY <1>2, <3>1, <3>2, PendingStays
  <2> QED BY <2>2, <2>3, <2>4
<1> QED BY <1>6

\* A worker that leaves its batch leaves every pending event pending.
LEMMA LeavePending ==
  ASSUME NEW B, QueueOK, QueueOK', BatchesOK(B), NEW w \in Workers, Worker!Leave(w),
         UNCHANGED hooks, NEW Y
  PROVE  Pending(Y) \subseteq Pending(Y)'
<1>1. /\ phase' = phase /\ owed' = owed /\ lost' = lost
      /\ holder' = [j \in Ids |-> IF j \in {k \in Ids : holder[k] = w} THEN Nobody ELSE holder[j]]
      /\ batch' = [batch EXCEPT ![w] = {}] /\ pc' = [pc EXCEPT ![w] = "idle"]
  BY DEF Worker!Leave, Worker!Goto, Worker!Queue!Lose, Worker!Queue!Give, hooks
<1>2. ASSUME NEW j \in Pending(Y) PROVE j \in Pending(Y)'
  <2>1. j \in Ids
    BY DEF Pending
  <2>2. ASSUME NEW v \in Workers, holder'[j] = v
        PROVE  /\ holder[j] = v /\ pc'[v] = pc[v] /\ batch'[v] = batch[v]
               /\ holder[Worker!First(v)] # v => holder'[Worker!First(v)] # v
    <3>1. holder[j] = v /\ v # w
      BY <1>1, <2>1, <2>2, DistillAssumption
    <3>2. pc'[v] = pc[v] /\ batch'[v] = batch[v] /\ batch[v] # {}
      BY <1>1, <2>1, <3>1 DEF QueueOK, Worker!TypeOK, BatchesOK, Holds
    <3>3. Worker!First(v) \in Ids
      BY <3>2, FirstOf DEF QueueOK, Worker!TypeOK
    <3> QED BY <1>1, <3>1, <3>2, <3>3, DistillAssumption
  <2> QED BY <1>1, <2>2, PendingStays
<1> QED BY <1>2
\* The jobs' leases lapse, their hooks ask for them or die: they stay pending.
LEMMA HookPending ==
  ASSUME QueueOK, QueueOK', IdsOK, NEW m \in Ids, EnqueueDistillJob(m) \/ HookDies(m), NEW Y
  PROVE  Pending(Y) \subseteq Pending(Y)'
<1>1. ASSUME HookDies(m) PROVE Pending(Y) \subseteq Pending(Y)'
  <2>1. owed' \cup lost' = owed \cup lost /\ UNCHANGED <<phase, holder, pc, batch>>
    BY <1>1 DEF HookDies, queue
  <2> QED BY <2>1, PendingStays DEF Pending
<1>2. ASSUME EnqueueDistillJob(m) PROVE Pending(Y) \subseteq Pending(Y)'
  <2>1. /\ phase' = [j \in Ids |-> IF j \in {m} THEN "open" ELSE phase[j]]
        /\ owed' = owed \ {m} /\ lost' = lost /\ UNCHANGED <<holder, pc, batch>>
        /\ phase[m] = "absent"
    BY <1>2 DEF EnqueueDistillJob, Worker!Submit, Worker!Queue!Submit, Worker!Queue!Move
  <2>2. \A w \in Workers : Worker!First(w)' = Worker!First(w)
    BY <2>1, FirstSame
  <2>3. \A j \in Ids : Waits(Y, j) => Waits(Y, j)'
    BY <2>1, <2>2 DEF Waits
  <2> QED BY <2>1, <2>3 DEF Pending
<1> QED BY <1>1, <1>2

\* Lapsed leases leave every pending event pending.
LEMMA LapsePending ==
  ASSUME QueueOK, NEW S \in SUBSET Ids, Worker!Lapse(S), UNCHANGED hooks, NEW Y
  PROVE  Pending(Y) \subseteq Pending(Y)'
<1>1. /\ phase' = [j \in Ids |-> IF j \in S THEN "lapsed" ELSE phase[j]]
      /\ \A j \in S : phase[j] = "leased"
      /\ UNCHANGED <<holder, pc, batch, owed, lost>>
  BY DEF Worker!Lapse, Worker!Queue!Lapse, Worker!Queue!Move, hooks
<1>2. \A w \in Workers : Worker!First(w)' = Worker!First(w)
  BY <1>1, FirstSame
<1>3. \A j \in Ids : Waits(Y, j) => Waits(Y, j)'
  BY <1>1, <1>2 DEF Waits
<1> QED BY <1>1, <1>3 DEF Pending

\* What is pending depends on the queue and on what the hooks have yet to ask.
LEMMA SamePending ==
  ASSUME UNCHANGED queue, owed' \cup lost' = owed \cup lost, NEW Y
  PROVE  Pending(Y) = Pending(Y)'
<1>1. UNCHANGED <<phase, holder, pc, batch>>
  BY DEF queue
<1>2. \A w \in Workers : Worker!First(w)' = Worker!First(w)
  BY <1>1, FirstSame
<1>3. \A j \in Ids : Waits(Y, j) <=> Waits(Y, j)'
  BY <1>1, <1>2 DEF Waits
<1> QED BY <1>1, <1>3 DEF Pending

\* The memories are as they were, and so are the lists of the workers of Z.
LEMMA SameMemories ==
  ASSUME UNCHANGED memories, NEW Z, \A w \in Z : listed'[w] = listed[w], NEW e
  PROVE  /\ Left(Z, e)' = Left(Z, e) /\ Later(e)' = Later(e) /\ Covered(Z)' = Covered(Z)
         /\ Events(Active)' = Events(Active)
<1>1. kind' = kind /\ state' = state
  BY DEF memories
<1>2. Active' = Active /\ Events(Active)' = Events(Active)
  BY <1>1 DEF Active, Events
<1>3. Covered(Z)' = Covered(Z)
  BY DEF Covered
<1> QED BY <1>1, <1>2, <1>3 DEF Left, Later

\* A step that changes neither the memories nor what those who store have listed,
\* and after which no less is owed.
LEMMA QuietWorks ==
  ASSUME NEW B \in Nat \ {0}, faults \in Nat, faults' \in Nat, QuietInv(B),
         UNCHANGED memories,
         \A w \in Inflight' : w \in Inflight /\ listed'[w] = listed[w],
         \A Y \in SUBSET Inflight' :
           Owing(Pending(Y), faults, B) <= Owing(Pending(Y)', faults', B)
  PROVE  QuietInv(B)'
<1>1. ASSUME NEW Y \in SUBSET Inflight', NEW e \in Events(Active)' \ Covered(Y)'
      PROVE  QuietAt(Y, e, B)'
  <2>1. \A w \in Y : listed'[w] = listed[w]
    OBVIOUS
  <2>2. /\ Left(Y, e)' = Left(Y, e) /\ Later(e)' = Later(e) /\ Covered(Y)' = Covered(Y)
        /\ Events(Active)' = Events(Active)
    BY <2>1, SameMemories
  <2>3. Y \in SUBSET Inflight /\ Y \in SUBSET Workers
    BY DEF Inflight
  <2>4. QuietAt(Y, e, B)
    BY <2>2, <2>3 DEF QuietInv
  <2>5. Cardinality(Later(e)) + Cardinality(Y) <= Cardinality(Later(e)') + Cardinality(Y)
    <3>1. Cardinality(Later(e)) \in Nat /\ Cardinality(Y) \in Nat
      BY <2>3, CountsOK
    <3>2. Cardinality(Later(e)') = Cardinality(Later(e))
      BY <2>2
    <3> QED BY <3>1, <3>2
  <2> QED BY <2>2, <2>3, <2>4, <2>5, QuietCarried
<1> QED BY <1>1 DEF QuietInv

\* The steps that store and list nothing keep the events beyond the window accounted for.
LEMMA QuietSteps ==
  ASSUME NEW B \in Nat \ {0}, IInv, IInv', BatchesOK(B), IdsOK, QuietInv(B), UNCHANGED memories,
         \/ \E m \in Ids : EnqueueDistillJob(m) \/ HookDies(m)
         \/ \E w \in Workers : ClaimFew(w, B) \/ SettleJob(w) \/ LostLease(w) \/ Abort(w)
         \/ LapseLeases \/ UNCHANGED <<queue, hooks, listed, faults>>
  PROVE  QuietInv(B)'
<1>a. /\ QueueOK /\ QueueOK' /\ faults \in Nat /\ faults' \in Nat
      /\ listed \in [Workers -> SUBSET Ids]
  BY DistillAssumption DEF IInv, TypeOK, QueueOK
<1>1. ASSUME NEW Y PROVE Pending(Y) \subseteq Pending(Y)'
  <2>1. ASSUME NEW m \in Ids, EnqueueDistillJob(m) \/ HookDies(m)
        PROVE  Pending(Y) \subseteq Pending(Y)'
    BY <1>a, <2>1, HookPending
  <2>2. ASSUME NEW w \in Workers, ClaimFew(w, B) \/ SettleJob(w)
        PROVE  Pending(Y) \subseteq Pending(Y)'
    BY <1>a, <2>2, ClaimPending, SettlePending
  <2>3. ASSUME NEW w \in Workers, LostLease(w) \/ Abort(w)
        PROVE  Pending(Y) \subseteq Pending(Y)'
    BY <1>a, <2>3, LeavePending DEF LostLease, Worker!LostLease, Abort
  <2>4. CASE LapseLeases
    BY <1>a, <2>4, LapsePending DEF LapseLeases
  <2>5. CASE UNCHANGED <<queue, hooks, listed, faults>>
    BY <2>5, SamePending DEF hooks
  <2> QED BY <2>1, <2>2, <2>3, <2>4, <2>5
<1>2. faults <= faults'
  BY <1>a DEF EnqueueDistillJob, HookDies, ClaimFew, SettleJob, LostLease, Abort, LapseLeases, Fault
<1>3. ASSUME NEW w \in Workers, pc'[w] = "store"
      PROVE  pc[w] = "store" /\ listed'[w] = listed[w]
  <2>1. ASSUME NEW v \in Workers, SettleJob(v)
        PROVE  /\ pc' = [pc EXCEPT ![v] = pc'[v]] /\ pc'[v] \in {"idle", "rest"}
               /\ listed' = [listed EXCEPT ![v] = {}]
    BY <1>a, <2>1 DEF SettleJob, Worker!Settle, Worker!Goto, QueueOK, Worker!TypeOK
  <2>2. ASSUME NEW v \in Workers, LostLease(v) \/ Abort(v)
        PROVE  /\ pc' = [pc EXCEPT ![v] = "idle"]
               /\ listed' = [listed EXCEPT ![v] = {}]
    BY <2>2 DEF LostLease, Abort, Worker!LostLease, Worker!Leave, Worker!Goto
  <2>3. ASSUME NEW v \in Workers, ClaimFew(v, B)
        PROVE  pc' = [pc EXCEPT ![v] = "list"] /\ listed' = listed
    BY <2>3 DEF ClaimFew, Worker!Goto
  <2>4. ASSUME \/ \E m \in Ids : EnqueueDistillJob(m) \/ HookDies(m)
               \/ LapseLeases \/ UNCHANGED <<queue, hooks, listed, faults>>
        PROVE  pc' = pc /\ listed' = listed
    BY <2>4 DEF EnqueueDistillJob, HookDies, LapseLeases, queue, Worker!Submit, Worker!Lapse
  <2>5. pc \in [Workers -> Point \cup {"idle"}]
    BY <1>a DEF QueueOK, Worker!TypeOK
  <2> QED BY <1>a, <1>3, <2>1, <2>2, <2>3, <2>4, <2>5
<1>4. \A w \in Inflight' : w \in Inflight /\ listed'[w] = listed[w]
  BY <1>3 DEF Inflight
<1>5. ASSUME NEW Y PROVE Owing(Pending(Y), faults, B) <= Owing(Pending(Y)', faults', B)
  <2>1. Pending(Y) \in SUBSET Ids /\ Pending(Y)' \in SUBSET Ids
    BY DEF Pending
  <2> QED BY <1>a, <1>1, <1>2, <2>1, OwingGrows
<1> QED BY <1>a, <1>4, <1>5, QuietWorks
\* The steps that add memories or retire some.

\* A memory of another kind keeps the events beyond the window accounted for.
LEMMA OtherStored ==
  ASSUME NEW B \in Nat \ {0}, IInv, IInv', IdsOK, QuietInv(B), NEW m \in Ids, StoreOther(m)
  PROVE  QuietInv(B)'
<1>1. /\ kind' = [kind EXCEPT ![m] = "other"] /\ kind[m] = "none" /\ state[m] = "absent"
      /\ state' = [state EXCEPT ![m] = "active"]
      /\ kind \in [Ids -> Kind] /\ state \in [Ids -> State]
  BY InsertIds DEF StoreOther, Kind, IInv, TypeOK, MemoriesOK
<1>2. /\ UNCHANGED <<queue, owed, lost, listed, faults, pc>> /\ faults \in Nat
  BY DistillAssumption DEF StoreOther, hooks, queue, IInv, TypeOK
<1>3. Active' = Active \cup {m} /\ m \notin Active /\ Events(Active)' = Events(Active)
  BY <1>1 DEF Active, Events
<1>4. ASSUME NEW Y \in SUBSET Inflight', NEW e \in Events(Active)' \ Covered(Y)'
      PROVE  QuietAt(Y, e, B)'
  <2>1. Y \in SUBSET Inflight /\ Y \in SUBSET Workers /\ Covered(Y)' = Covered(Y)
    BY <1>2 DEF Inflight, Covered
  <2>2. QuietAt(Y, e, B)
    BY <1>3, <2>1 DEF QuietInv
  <2>3. Left(Y, e)' = Left(Y, e)
    BY <1>3, <2>1 DEF Left
  <2>4. Pending(Y)' = Pending(Y)
    BY <1>2, SamePending
  <2>5. Later(e) \subseteq Later(e)'
    BY <1>1, <1>3 DEF Later, Active
  <2>6. Later(e) \in SUBSET Ids /\ Later(e)' \in SUBSET Ids
    BY DEF Later, Active
  <2>7. Cardinality(Later(e)) + Cardinality(Y) <= Cardinality(Later(e)') + Cardinality(Y)
    <3>1. Cardinality(Later(e)) \in Nat /\ Cardinality(Y) \in Nat /\ Cardinality(Later(e)') \in Nat
      BY <2>1, <2>6, IdsFinite, WorkersFinite
    <3>2. Cardinality(Later(e)) <= Cardinality(Later(e)')
      BY <2>5, <2>6, FewerIds
    <3> QED BY <3>1, <3>2
  <2>8. Owing(Pending(Y), faults, B) <= Owing(Pending(Y)', faults', B)
    <3>1. Owing(Pending(Y), faults, B) \in Nat
      BY <1>2, <2>1, CountsOK
    <3>2. Owing(Pending(Y)', faults', B) = Owing(Pending(Y), faults, B)
      BY <1>2, <2>4
    <3> QED BY <3>1, <3>2
  <2> QED BY <1>2, <2>1, <2>2, <2>3, <2>7, <2>8, QuietCarried
<1> QED BY <1>4 DEF QuietInv

\* A new event has its job to come, which accounts for it.
LEMMA EventStored ==
  ASSUME NEW B \in Nat \ {0}, IInv, IInv', IdsOK, QuietInv(B), NEW m \in Ids, StoreEvent(m)
  PROVE  QuietInv(B)'
<1>1. /\ kind' = [kind EXCEPT ![m] = "event"] /\ kind[m] = "none" /\ state[m] = "absent"
      /\ state' = [state EXCEPT ![m] = "active"]
      /\ kind \in [Ids -> Kind] /\ state \in [Ids -> State]
      /\ \A n \in Ids : n > m => state[n] = "absent"
      /\ phase[m] = "absent" /\ m \notin owed \cup lost
  <2>1. MemoriesOK
    BY DEF IInv, TypeOK, MemoriesOK
  <2>2. /\ kind' = [kind EXCEPT ![m] = "event"] /\ kind[m] = "none" /\ state[m] = "absent"
        /\ phase[m] = "absent" /\ m \notin owed \cup lost
    BY <2>1, InsertIds DEF StoreEvent, Kind
  <2>3. \A n \in Ids : n > m => state[n] = "absent"
    BY <2>2 DEF IdsOK, Ids
  <2> QED BY <2>1, <2>2, <2>3 DEF StoreEvent, MemoriesOK
<1>2. /\ UNCHANGED <<queue, listed, faults>> /\ faults \in Nat
      /\ owed' = owed \cup {m} /\ lost' = lost
      /\ UNCHANGED <<phase, holder, pc, batch>>
  BY DistillAssumption DEF StoreEvent, queue, IInv, TypeOK
<1>3. Active' = Active \cup {m} /\ m \notin Active /\ Events(Active)' = Events(Active) \cup {m}
  BY <1>1 DEF Active, Events
<1>4. ASSUME NEW Y
      PROVE  /\ Pending(Y)' = Pending(Y) \cup {m} /\ m \notin Pending(Y)
             /\ Pending(Y) \in SUBSET Ids
  <2>1. \A w \in Workers : Worker!First(w)' = Worker!First(w)
    BY <1>2, FirstSame
  <2>2. \A j \in Ids : Waits(Y, j) <=> Waits(Y, j)'
    BY <1>2, <2>1 DEF Waits
  <2>3. m \notin Pending(Y)
    BY <1>1 DEF Pending
  <2> QED BY <1>2, <2>2, <2>3 DEF Pending
<1>5. ASSUME NEW Y
      PROVE  Owing(Pending(Y)', faults', B) >= Owing(Pending(Y), faults, B) + 1
  <2> DEFINE P == Pending(Y)
  <2>1. P \in SUBSET Ids /\ m \in Ids \ P /\ P \cup {m} \in SUBSET Ids /\ P \cup {m} # {}
    BY <1>4
  <2> HIDE DEF P
  <2>2. Cardinality(P \cup {m}) = Cardinality(P) + 1
    BY <2>1, OneMoreId
  <2>3. Owing(P \cup {m}, faults, B) = Cardinality(P \cup {m}) + faults * (B - 1)
    BY <1>2, <2>1, OwingIs
  <2>4. Owing(P, faults, B) <= Cardinality(P) + faults * (B - 1) /\ Owing(P, faults, B) \in Nat
    BY <1>2, <2>1, OwingIs
  <2>5. faults * (B - 1) \in Nat /\ Cardinality(P) \in Nat
    <3>1. B - 1 \in Nat
      OBVIOUS
    <3> QED BY <1>2, <2>1, <3>1, Product, IdsFinite
  <2>6. Owing(P \cup {m}, faults, B) >= Owing(P, faults, B) + 1
    BY <2>2, <2>3, <2>4, <2>5
  <2> QED BY <1>2, <1>4, <2>6 DEF P
<1>6. ASSUME NEW Y \in SUBSET Inflight', NEW e \in Events(Active)' \ Covered(Y)'
      PROVE  QuietAt(Y, e, B)'
  <2>1. Y \in SUBSET Inflight /\ Y \in SUBSET Workers /\ Covered(Y)' = Covered(Y)
    BY <1>2 DEF Inflight, Covered
  <2>2. /\ Owing(Pending(Y), faults, B) \in Nat /\ Cardinality(Later(e)) \in Nat
        /\ Cardinality(Left(Y, e)) \in Nat /\ Cardinality(Y) \in Nat
        /\ MinEvents \in Nat \ {0} /\ MaxEvents \in Nat
    BY <1>2, <2>1, CountsOK, DistillAssumption
  <2>3. Left(Y, e)' \in SUBSET Ids /\ Later(e)' \in SUBSET Ids /\ Pending(Y)' \in SUBSET Ids
    BY DEF Left, Later, Events, Active, Pending
  <2>4. /\ Cardinality(Left(Y, e)') \in Nat /\ Cardinality(Later(e)') \in Nat
        /\ Owing(Pending(Y)', faults', B) \in Nat
    BY <1>2, <2>3, IdsFinite, OwingIs
  <2>5. QuietAt(Y, e, B)' <=>
          \/ Cardinality(Later(e)') + Cardinality(Y) + MinEvents > MaxEvents
          \/ Cardinality(Left(Y, e)') < MinEvents + Owing(Pending(Y)', faults', B)
    BY DEF QuietAt, Owing
  <2>6. CASE e = m
    <3>1. Left(Y, e)' \subseteq {m}
      BY <1>1, <1>3, <2>6 DEF Left, Events, Active, Ids
    <3>2. Cardinality(Left(Y, e)') <= 1
      <4>1. {m} \in SUBSET Ids /\ Cardinality({m}) = 1
        BY FS_Singleton
      <4>2. Cardinality(Left(Y, e)') <= Cardinality({m})
        BY <2>3, <3>1, <4>1, FewerIds
      <4> QED BY <4>1, <4>2
    <3> QED BY <1>5, <2>2, <2>4, <2>5, <3>2
  <2>7. CASE e # m
    <3>1. e \in Events(Active) \ Covered(Y)
      BY <1>3, <2>1, <2>7
    <3>2. QuietAt(Y, e, B)
      BY <2>1, <3>1 DEF QuietInv
    <3>3. Left(Y, e)' \subseteq Left(Y, e) \cup {m}
      BY <1>3, <2>1 DEF Left
    <3>4. Cardinality(Left(Y, e)') <= Cardinality(Left(Y, e)) + 1
      <4>1. Left(Y, e) \in SUBSET Ids /\ Left(Y, e) \cup {m} \in SUBSET Ids
            /\ m \in Ids \ Left(Y, e)
        BY <1>3 DEF Left, Events, Active
      <4>2. Cardinality(Left(Y, e)') <= Cardinality(Left(Y, e) \cup {m})
        BY <2>3, <3>3, <4>1, FewerIds
      <4>3. Cardinality(Left(Y, e) \cup {m}) = Cardinality(Left(Y, e)) + 1
        BY <4>1, OneMoreId
      <4> QED BY <4>2, <4>3
    <3>5. Later(e)' = Later(e)
      BY <1>1, <1>3 DEF Later, Active
    <3>6. \/ Cardinality(Later(e)) + Cardinality(Y) + MinEvents > MaxEvents
          \/ Cardinality(Left(Y, e)) < MinEvents + Owing(Pending(Y), faults, B)
      BY <3>2 DEF QuietAt
    <3>7. CASE Cardinality(Later(e)) + Cardinality(Y) + MinEvents > MaxEvents
      BY <2>5, <3>5, <3>7
    <3>8. CASE Cardinality(Left(Y, e)) < MinEvents + Owing(Pending(Y), faults, B)
      BY <1>5, <2>2, <2>4, <2>5, <3>4, <3>8
    <3> QED BY <3>6, <3>7, <3>8
  <2> QED BY <2>6, <2>7
<1> QED BY <1>6 DEF QuietInv
\* A summary is one more memory after every event, and what it retires is no
\* longer left.
LEMMA SummaryStored ==
  ASSUME IInv, IdsOK, NEW s \in Ids, NEW S \in SUBSET Ids, Lists(S), StoreSummary(s, S)
  PROVE  /\ Events(Active)' \subseteq Events(Active) \ S
         /\ \A e \in Events(Active)' : /\ s \notin Later(e)
                                       /\ Later(e) \cup {s} \subseteq Later(e)'
<1>1. /\ \A n \in Ids : n < s => kind[n] # "none"
      /\ kind' = [kind EXCEPT ![s] = "summary"] /\ kind[s] = "none" /\ state[s] = "absent"
      /\ \A n \in Ids : n > s => kind[n] = "none"
      /\ kind \in [Ids -> Kind] /\ state \in [Ids -> State]
  <2>1. MemoriesOK
    BY DEF IInv, TypeOK, MemoriesOK
  <2>2. /\ \A n \in Ids : n < s => kind[n] # "none"
        /\ kind' = [kind EXCEPT ![s] = "summary"] /\ kind[s] = "none" /\ state[s] = "absent"
    BY <2>1, InsertIds DEF StoreSummary, Kind
  <2>3. \A n \in Ids : n > s => kind[n] = "none"
    BY <2>2 DEF IdsOK, Ids
  <2> QED BY <2>1, <2>2, <2>3 DEF MemoriesOK
<1>2. \A m \in Ids : state'[m] = IF m = s THEN "active"
                                 ELSE IF m \in S /\ state[m] # "deleted" THEN "archived"
                                 ELSE state[m]
  BY DEF StoreSummary
<1>3. Events(Active)' \subseteq Events(Active) \ S
  <2> SUFFICES ASSUME NEW f \in Events(Active)' PROVE f \in Events(Active) \ S
    OBVIOUS
  <2>1. f \in Ids /\ state'[f] = "active" /\ kind'[f] = "event"
    BY DEF Events, Active
  <2>2. f # s /\ kind[f] = "event"
    BY <1>1, <2>1
  <2>3. f \notin S /\ state[f] = "active"
    BY <1>2, <2>1, <2>2
  <2> QED BY <2>1, <2>2, <2>3 DEF Events, Active
<1>4. ASSUME NEW e \in Events(Active)'
      PROVE  s \notin Later(e) /\ Later(e) \cup {s} \subseteq Later(e)'
  <2>1. e \in Ids /\ kind[e] = "event" /\ e # s
    BY <1>1, <1>3 DEF Events, Active
  <2>2. s > e
    BY <1>1, <2>1 DEF Ids
  <2>3. s \in Later(e)'
    BY <1>1, <1>2, <2>2 DEF Later, Active
  <2>4. s \notin Later(e)
    BY <1>1 DEF Later, Active
  <2>5. ASSUME NEW m \in Later(e) PROVE m \in Later(e)'
    <3>1. m \in Ids /\ m # s /\ kind[m] # "event" /\ state[m] = "active" /\ m > e
      BY <2>4 DEF Later, Active
    <3>2. m \notin S
      BY <3>1 DEF Lists
    <3>3. kind'[m] # "event" /\ state'[m] = "active"
      BY <1>1, <1>2, <3>1, <3>2
    <3> QED BY <3>1, <3>3 DEF Later, Active
  <2> QED BY <2>3, <2>4, <2>5
<1> QED BY <1>3, <1>4

\* A distillation by hand keeps the events beyond the window accounted for.
LEMMA HandStored ==
  ASSUME NEW B \in Nat \ {0}, IInv, IInv', IdsOK, QuietInv(B), DistillByHand
  PROVE  QuietInv(B)'
<1>1. PICK s \in Ids : StoreSummary(s, picked)
  BY DEF DistillByHand
<1>2. /\ UNCHANGED <<queue, listed, faults>> /\ faults \in Nat /\ owed' \cup lost' = owed \cup lost
      /\ pc' = pc
  BY DistillAssumption DEF DistillByHand, queue, hooks, IInv, TypeOK
<1>3. picked \in SUBSET Ids /\ Lists(picked)
  BY DEF IInv, TypeOK, SourcesAreEvents
<1>4. /\ Events(Active)' \subseteq Events(Active)
      /\ \A e \in Events(Active)' : Later(e) \subseteq Later(e)'
  BY <1>1, <1>3, SummaryStored
<1>5. ASSUME NEW Y \in SUBSET Inflight', NEW e \in Events(Active)' \ Covered(Y)'
      PROVE  QuietAt(Y, e, B)'
  <2>1. Y \in SUBSET Inflight /\ Y \in SUBSET Workers /\ Covered(Y)' = Covered(Y)
    BY <1>2 DEF Inflight, Covered
  <2>2. QuietAt(Y, e, B)
    BY <1>4, <2>1 DEF QuietInv
  <2>3. Left(Y, e)' \subseteq Left(Y, e)
    BY <1>4, <2>1 DEF Left
  <2>4. Later(e) \in SUBSET Ids /\ Later(e)' \in SUBSET Ids
    BY DEF Later, Active
  <2>5. Cardinality(Later(e)) + Cardinality(Y) <= Cardinality(Later(e)') + Cardinality(Y)
    <3>1. Cardinality(Later(e)) \in Nat /\ Cardinality(Y) \in Nat /\ Cardinality(Later(e)') \in Nat
      BY <2>1, <2>4, IdsFinite, WorkersFinite
    <3>2. Cardinality(Later(e)) <= Cardinality(Later(e)')
      BY <1>4, <2>4, FewerIds
    <3> QED BY <3>1, <3>2
  <2>6. Owing(Pending(Y), faults, B) <= Owing(Pending(Y)', faults', B)
    <3>1. Owing(Pending(Y), faults, B) \in Nat
      BY <1>2, <2>1, CountsOK
    <3>2. Pending(Y)' = Pending(Y)
      BY <1>2, SamePending
    <3>3. Owing(Pending(Y)', faults', B) = Owing(Pending(Y), faults, B)
      BY <1>2, <3>2
    <3> QED BY <3>1, <3>3
  <2> QED BY <1>2, <2>1, <2>2, <2>3, <2>5, <2>6, QuietCarried
<1> QED BY <1>5 DEF QuietInv

\* A worker stores the summary of what it listed: it counted as done before.
LEMMA WorkerStored ==
  ASSUME NEW B \in Nat \ {0}, IInv, IInv', IdsOK, QuietInv(B), NEW w \in Workers,
         DistillSession(w)
  PROVE  QuietInv(B)'
<1>1. PICK s \in Ids : StoreSummary(s, listed[w])
  BY DEF DistillSession
<1>2. /\ pc[w] = "store" /\ pc' = [pc EXCEPT ![w] = "done"]
      /\ UNCHANGED <<phase, holder, batch>> /\ UNCHANGED <<owed, lost, faults>>
      /\ listed' = [listed EXCEPT ![w] = {}] /\ faults \in Nat
      /\ pc \in [Workers -> Point \cup {"idle"}] /\ listed \in [Workers -> SUBSET Ids]
  BY DistillAssumption DEF DistillSession, Worker!Step, Worker!Goto, hooks, IInv, TypeOK,
                           Worker!TypeOK
<1>3. listed[w] \in SUBSET Ids /\ Lists(listed[w])
  BY <1>2 DEF IInv, SourcesAreEvents
<1>4. /\ Events(Active)' \subseteq Events(Active) \ listed[w]
      /\ \A e \in Events(Active)' : s \notin Later(e) /\ Later(e) \cup {s} \subseteq Later(e)'
  BY <1>1, <1>3, SummaryStored
<1>5. ASSUME NEW Y \in SUBSET Inflight', NEW e \in Events(Active)' \ Covered(Y)'
      PROVE  QuietAt(Y, e, B)'
  <2> DEFINE Z == Y \cup {w}
  <2>1. /\ w \notin Y /\ Z \in SUBSET Inflight /\ Z \in SUBSET Workers /\ Y \in SUBSET Workers
        /\ Covered(Y)' = Covered(Y)
    BY <1>2 DEF Inflight, Covered
  <2>2. Covered(Z) = Covered(Y) \cup listed[w]
    BY DEF Covered
  <2>3. e \in Events(Active) \ Covered(Z)
    BY <1>4, <2>1, <2>2
  <2>4. QuietAt(Z, e, B)
    BY <2>1, <2>3 DEF QuietInv
  <2>5. Left(Y, e)' \subseteq Left(Z, e)
    BY <1>4, <2>1, <2>2 DEF Left
  <2>6. Cardinality(Later(e)) + Cardinality(Z) <= Cardinality(Later(e)') + Cardinality(Y)
    <3>1. Later(e) \in SUBSET Ids /\ Later(e)' \in SUBSET Ids /\ Later(e) \cup {s} \in SUBSET Ids
      BY DEF Later, Active
    <3>2. Cardinality(Z) = Cardinality(Y) + 1
      BY <2>1, WorkersFinite, FS_AddElement
    <3>3. Cardinality(Later(e) \cup {s}) = Cardinality(Later(e)) + 1
      BY <1>4, <3>1, OneMoreId
    <3>4. Cardinality(Later(e) \cup {s}) <= Cardinality(Later(e)')
      BY <1>4, <3>1, FewerIds
    <3>5. Cardinality(Later(e)) \in Nat /\ Cardinality(Later(e)') \in Nat /\ Cardinality(Y) \in Nat
      BY <2>1, <3>1, IdsFinite, WorkersFinite
    <3> HIDE DEF Z
    <3> QED BY <3>2, <3>3, <3>4, <3>5
  <2>7. Pending(Z) \subseteq Pending(Y)'
    <3>1. \A v \in Workers : Worker!First(v)' = Worker!First(v)
      BY <1>2, FirstSame
    <3>2. ASSUME NEW j, Waits(Z, j) PROVE Waits(Y, j)'
      <4> SUFFICES ASSUME NEW v \in Workers, holder'[j] = v
                   PROVE  \/ pc'[v] = "list"
                          \/ pc'[v] = "store" /\ v \notin Y
                          \/ pc'[v] = "failed" /\ (j = Worker!First(v)' \/ holder'[Worker!First(v)'] # v)
        BY DEF Waits
      <4>1. \/ pc[v] = "list"
            \/ pc[v] = "store" /\ v \notin Z
            \/ pc[v] = "failed" /\ (j = Worker!First(v) \/ holder[Worker!First(v)] # v)
        BY <1>2, <3>2 DEF Waits
      <4>2. v # w
        BY <1>2, <4>1
      <4>3. pc'[v] = pc[v]
        BY <1>2, <4>2
      <4> QED BY <1>2, <3>1, <4>1, <4>3
    <3> QED BY <1>2, <3>2 DEF Pending
  <2>8. Owing(Pending(Z), faults, B) <= Owing(Pending(Y)', faults', B)
    <3>1. Pending(Z) \in SUBSET Ids /\ Pending(Y)' \in SUBSET Ids
      BY DEF Pending
    <3> HIDE DEF Z
    <3> QED BY <1>2, <2>7, <3>1, OwingGrows
  <2> HIDE DEF Z
  <2> QED BY <1>2, <2>1, <2>4, <2>5, <2>6, <2>8, QuietCarried
<1> QED BY <1>5 DEF QuietInv

\* Only what is archived is deleted.
LEMMA DeletedIsArchived ==
  ASSUME NEW B \in Nat \ {0}, IInv, IInv', QuietInv(B), DeleteBatch
  PROVE  QuietInv(B)'
<1>1. /\ \A m \in Ids : state'[m] = IF m \in doomed THEN "deleted" ELSE state[m]
      /\ UNCHANGED <<kind, queue, owed, lost, listed, faults, pc>> /\ faults \in Nat
  BY DistillAssumption DEF DeleteBatch, queue, hooks, IInv, TypeOK
<1>2. Active' = Active
  BY <1>1 DEF Active, IInv, SourcesAreEvents
<1>3. Events(Active)' = Events(Active)
  BY <1>1, <1>2 DEF Events
<1>4. ASSUME NEW Y \in SUBSET Inflight', NEW e \in Events(Active)' \ Covered(Y)'
      PROVE  QuietAt(Y, e, B)'
  <2>1. Y \in SUBSET Inflight /\ Covered(Y)' = Covered(Y)
    BY <1>1 DEF Inflight, Covered
  <2>2. QuietAt(Y, e, B)
    BY <1>3, <2>1 DEF QuietInv
  <2>3. Left(Y, e)' = Left(Y, e) /\ Later(e)' = Later(e) /\ Pending(Y)' = Pending(Y)
    BY <1>1, <1>2, <1>3, <2>1, SamePending DEF Left, Later
  <2> QED BY <1>1, <2>2, <2>3 DEF QuietAt, Owing
<1> QED BY <1>4 DEF QuietInv
\* A failure leaves the first job of the batch pending for all of them.
LEMMA FailPending ==
  ASSUME NEW B \in Nat \ {0}, QueueOK, QueueOK', BatchesOK(B), NEW w \in Workers,
         pc[w] \in {"list", "store"}, pc' = [pc EXCEPT ![w] = "failed"],
         UNCHANGED <<phase, holder, batch>>, UNCHANGED hooks, NEW Y, w \notin Y,
         NEW f \in Nat
  PROVE  Owing(Pending(Y), f, B) <= Owing(Pending(Y)', f + 1, B)
<1> DEFINE P == Pending(Y)
           Q == Pending(Y)'
<1>0. PICK j1 : j1 = Worker!First(w)
  OBVIOUS
<1>1. P \in SUBSET Ids /\ Q \in SUBSET Ids
  BY DEF Pending
<1>2. \A v \in Workers : Worker!First(v)' = Worker!First(v)
  BY FirstSame
<1>3. /\ pc \in [Workers -> Point \cup {"idle"}] /\ owed' = owed /\ lost' = lost
      /\ holder' = holder /\ phase' = phase /\ batch[w] \in SUBSET Ids
  BY DEF QueueOK, Worker!TypeOK, hooks
<1>4. ASSUME NEW j \in P, holder[j] # w \/ j = j1 \/ holder[j1] # w PROVE j \in Q
  <2>1. ASSUME Waits(Y, j) PROVE Waits(Y, j)'
    <3> SUFFICES ASSUME NEW v \in Workers, holder'[j] = v
                 PROVE  \/ pc'[v] = "list"
                        \/ pc'[v] = "store" /\ v \notin Y
                        \/ pc'[v] = "failed" /\ (j = Worker!First(v)' \/ holder'[Worker!First(v)'] # v)
      BY DEF Waits
    <3>1. CASE v = w
      BY <1>0, <1>2, <1>3, <1>4, <3>1
    <3>2. CASE v # w
      BY <1>2, <1>3, <2>1, <3>2 DEF Waits
    <3> QED BY <3>1, <3>2
  <2> QED BY <1>3, <2>1 DEF Pending
<1>5. CASE holder[j1] # w
  <2>1. P \subseteq Q
    BY <1>4, <1>5
  <2> HIDE DEF P, Q
  <2>2. Owing(P, f, B) <= Owing(Q, f + 1, B)
    BY <1>1, <2>1, OwingGrows
  <2> QED BY <2>2 DEF P, Q
<1>6. CASE holder[j1] = w
  <2>1. j1 \in batch[w] /\ j1 \in Ids
    <3>1. batch[w] # {}
      BY DEF BatchesOK
    <3> QED BY <1>0, <1>3, <3>1, FirstOf
  <2>2. j1 \in Q
    <3>1. phase[j1] \in {"leased", "lapsed"}
      BY <1>6, <2>1, DistillAssumption DEF BatchesOK
    <3>2. Waits(Y, j1)'
      BY <1>0, <1>2, <1>3, <1>6 DEF Waits
    <3>3. phase'[j1] \in {"leased", "lapsed"}
      BY <1>3, <3>1
    <3> QED BY <2>1, <3>2, <3>3 DEF Pending
  <2> DEFINE R == batch[w] \ {j1}
  <2>3. R \in SUBSET Ids /\ j1 \in Ids \ R /\ R \cup {j1} = batch[w] /\ Q \cup R \in SUBSET Ids
    BY <1>1, <1>3, <2>1
  <2>4. P \subseteq Q \cup R
    BY <1>1, <1>4 DEF BatchesOK, Holds
  <2> HIDE DEF P, Q, R
  <2>5. Cardinality(R) + 1 <= B
    <3>1. Cardinality(batch[w]) = Cardinality(R) + 1
      BY <2>3, OneMoreId
    <3> QED BY <3>1 DEF BatchesOK
  <2>6. Cardinality(P) <= Cardinality(Q) + (B - 1)
    <3>1. Cardinality(P) <= Cardinality(Q \cup R) /\ Cardinality(Q \cup R) <= Cardinality(Q) + Cardinality(R)
      BY <1>1, <2>3, <2>4, FewerIds, BothIds
    <3>2. Cardinality(P) \in Nat /\ Cardinality(Q) \in Nat /\ Cardinality(R) \in Nat
          /\ Cardinality(Q \cup R) \in Nat
      BY <1>1, <2>3, IdsFinite
    <3> QED BY <2>5, <3>1, <3>2
  <2>7. Owing(Q, f + 1, B) = Cardinality(Q) + (f + 1) * (B - 1) /\ Owing(P, f, B) \in Nat
        /\ Owing(P, f, B) <= Cardinality(P) + f * (B - 1)
    <3>1. Q # {}
      BY <2>2
    <3>2. \A g \in Nat : Owing(Q, g, B) = Cardinality(Q) + g * (B - 1)
      BY <1>1, <3>1, OwingIs
    <3>3. Owing(P, f, B) \in Nat /\ Owing(P, f, B) <= Cardinality(P) + f * (B - 1)
      BY <1>1, OwingIs
    <3> QED BY <3>2, <3>3
  <2>8. /\ f * (B - 1) \in Nat /\ (f + 1) * (B - 1) = f * (B - 1) + (B - 1)
        /\ Cardinality(P) \in Nat /\ Cardinality(Q) \in Nat
    <3>1. B - 1 \in Nat
      OBVIOUS
    <3> QED BY <1>1, <3>1, Product, IdsFinite
  <2>9. Owing(P, f, B) <= Owing(Q, f + 1, B)
    BY <2>6, <2>7, <2>8
  <2> QED BY <2>9 DEF P, Q
<1> QED BY <1>5, <1>6

\* A distillation that fails is paid for by its fault.
LEMMA QuietFails ==
  ASSUME NEW B \in Nat \ {0}, IInv, IInv', BatchesOK(B), QuietInv(B), NEW w \in Workers,
         DistillFails(w)
  PROVE  QuietInv(B)'
<1>1. /\ pc[w] \in {"list", "store"} /\ pc' = [pc EXCEPT ![w] = "failed"]
      /\ UNCHANGED <<phase, holder, batch>> /\ UNCHANGED hooks /\ UNCHANGED memories
      /\ listed' = [listed EXCEPT ![w] = {}] /\ faults' = faults + 1
  BY DEF DistillFails, Worker!Step, Worker!Goto, Fault
<1>2. /\ QueueOK /\ QueueOK' /\ faults \in Nat /\ faults' \in Nat
      /\ pc \in [Workers -> Point \cup {"idle"}] /\ listed \in [Workers -> SUBSET Ids]
  BY DistillAssumption DEF IInv, TypeOK, QueueOK, Worker!TypeOK
<1>3. \A v \in Inflight' : v # w /\ v \in Inflight /\ listed'[v] = listed[v]
  BY <1>1, <1>2 DEF Inflight
<1>4. ASSUME NEW Y \in SUBSET Inflight'
      PROVE  Owing(Pending(Y), faults, B) <= Owing(Pending(Y)', faults', B)
  BY <1>1, <1>2, <1>3, FailPending
<1> QED BY <1>1, <1>2, <1>3, <1>4, QuietWorks
\* A worker lists what is in the window, and takes it for done if that is little.
LEMMA CountsLater ==
  ASSUME NEW B \in Nat \ {0}, faults' \in Nat, NEW Y \in SUBSET Workers, NEW e
  PROVE  /\ Cardinality(Later(e)') \in Nat /\ Cardinality(Left(Y, e)') \in Nat
         /\ Owing(Pending(Y)', faults', B) \in Nat
         /\ Cardinality(Pending(Y)') <= Owing(Pending(Y)', faults', B)
         /\ Cardinality(Pending(Y)') \in Nat
         /\ QuietAt(Y, e, B)' <=>
              \/ Cardinality(Later(e)') + Cardinality(Y) + MinEvents > MaxEvents
              \/ Cardinality(Left(Y, e)') < MinEvents + Owing(Pending(Y)', faults', B)
<1>1. Left(Y, e)' \in SUBSET Ids /\ Later(e)' \in SUBSET Ids /\ Pending(Y)' \in SUBSET Ids
  BY DEF Left, Later, Events, Active, Pending
<1>2. /\ Cardinality(Left(Y, e)') \in Nat /\ Cardinality(Later(e)') \in Nat
      /\ Cardinality(Pending(Y)') \in Nat
  BY <1>1, IdsFinite
<1>3. /\ Owing(Pending(Y)', faults', B) \in Nat
      /\ Cardinality(Pending(Y)') <= Owing(Pending(Y)', faults', B)
  BY <1>1, OwingIs
<1>4. QuietAt(Y, e, B)' <=>
        \/ Cardinality(Later(e)') + Cardinality(Y) + MinEvents > MaxEvents
        \/ Cardinality(Left(Y, e)') < MinEvents + Owing(Pending(Y)', faults', B)
  BY DEF QuietAt, Owing
<1> QED BY <1>2, <1>3, <1>4

\* Before the window, an event is followed by all of it.
LEMMA BeyondWindow ==
  ASSUME NEW e \in Events(Active) \ Newest(Active, MaxEvents),
         NEW found, found = Events(Newest(Active, MaxEvents))
  PROVE  /\ Cardinality(Later(e)) + Cardinality(found) >= MaxEvents
         /\ \A g \in found : g > e
<1>1. /\ Active \in SUBSET Ids /\ e \in Active \ Newest(Active, MaxEvents)
      /\ found \in SUBSET Ids /\ found \subseteq Newest(Active, MaxEvents)
      /\ Later(e) \in SUBSET Ids /\ MaxEvents \in Nat
  BY DistillAssumption DEF Active, Events, Newest, Later
<1>2. PICK m \in Active : /\ e <= m
                          /\ {k \in Active : k > m} \subseteq Newest(Active, MaxEvents)
                          /\ Cardinality({k \in Active : k > m}) >= MaxEvents
  BY <1>1, WindowIsFull
<1> DEFINE U == {k \in Active : k > m}
<1>3. U \in SUBSET Ids /\ Later(e) \cup found \in SUBSET Ids
  BY <1>1
<1>4. U \subseteq Later(e) \cup found
  <2> SUFFICES ASSUME NEW k \in U PROVE k \in Later(e) \cup found
    OBVIOUS
  <2>1. k \in Active /\ k > m /\ k \in Newest(Active, MaxEvents)
    BY <1>2
  <2>2. k > e
    BY <1>1, <1>2, <2>1 DEF Ids
  <2>3. CASE kind[k] = "event"
    BY <1>1, <2>1, <2>3 DEF Events, Newest
  <2>4. CASE kind[k] # "event"
    BY <2>1, <2>2, <2>4 DEF Later
  <2> QED BY <2>3, <2>4
<1>5. Cardinality(Later(e)) + Cardinality(found) >= MaxEvents
  <2> HIDE DEF U
  <2>1. Cardinality(U) <= Cardinality(Later(e) \cup found)
    BY <1>3, <1>4, FewerIds
  <2>2. Cardinality(Later(e) \cup found) <= Cardinality(Later(e)) + Cardinality(found)
    BY <1>1, BothIds
  <2>3. /\ Cardinality(Later(e)) \in Nat /\ Cardinality(found) \in Nat
        /\ Cardinality(U) \in Nat /\ Cardinality(Later(e) \cup found) \in Nat
    BY <1>1, <1>3, IdsFinite
  <2>4. Cardinality(U) >= MaxEvents
    BY <1>2 DEF U
  <2> QED BY <1>1, <2>1, <2>2, <2>3, <2>4
<1>6. ASSUME NEW g \in found PROVE g > e
  <2>1. g \in Newest(Active, MaxEvents) /\ g \in Nat /\ e \in Nat
    BY <1>1 DEF Ids
  <2>2. ~ (g <= e)
    BY <1>1, <2>1, WindowIsUpward
  <2> QED BY <2>1, <2>2
<1> QED BY <1>5, <1>6

\* The jobs that the workers of a set hold are no more than their batches take.
LEMMA HeldByFew ==
  ASSUME NEW B \in Nat \ {0}, QueueOK, BatchesOK(B), NEW Y \in SUBSET Workers
  PROVE  Cardinality({j \in Ids : holder[j] \in Y}) <= Cardinality(Y) * B
<1> DEFINE Held(Z) == {j \in Ids : holder[j] \in Z}
           Many(n) == \E Z \in SUBSET Workers : Cardinality(Z) = n /\ Cardinality(Held(Z)) > n * B
           Bad == {n \in Nat : Many(n)}
<1>1. Bad = {}
  <2> SUFFICES ASSUME Bad # {} PROVE FALSE
    OBVIOUS
  <2>1. PICK n \in Bad : \A m \in Bad : n <= m
    <3> HIDE DEF Many
    <3>1. Bad \in SUBSET Nat
      OBVIOUS
    <3> HIDE DEF Bad
    <3> QED BY <3>1, LeastNat
  <2>2. PICK Z \in SUBSET Workers : Cardinality(Z) = n /\ Cardinality(Held(Z)) > n * B
    BY <2>1
  <2>3. n \in Nat
    BY <2>1
  <2>4. CASE Z = {}
    <3>1. Held(Z) = {} /\ n = 0
      BY <2>2, <2>4, FS_EmptySet
    <3>2. Cardinality(Held(Z)) = 0
      BY <3>1, FS_EmptySet
    <3> QED BY <2>2, <3>1, <3>2
  <2>5. CASE Z # {}
    <3>1. PICK w \in Z : TRUE
      BY <2>5
    <3> DEFINE X == Z \ {w}
    <3>2. X \in SUBSET Workers /\ IsFiniteSet(X) /\ Cardinality(X) \in Nat
      <4>1. X \in SUBSET Workers
        OBVIOUS
      <4> HIDE DEF X
      <4> QED BY <4>1, WorkersFinite
    <3>3. n = Cardinality(X) + 1
      <4>1. IsFiniteSet(Z)
        BY WorkersFinite
      <4>2. Cardinality(X) = Cardinality(Z) - 1
        BY <4>1, FS_RemoveElement
      <4> QED BY <2>2, <2>3, <3>2, <4>2
    <3>4. Cardinality(X) \notin Bad
      <4> HIDE DEF Bad, X
      <4> QED BY <2>1, <2>3, <3>2, <3>3
    <3>5. ~ (Cardinality(Held(X)) > Cardinality(X) * B)
      <4> HIDE DEF X, Held
      <4> QED BY <3>2, <3>4
    <3>6. Held(Z) = Held(X) \cup Holds(w)
      BY DEF Holds
    <3>7. Held(X) \in SUBSET Ids /\ Holds(w) \in SUBSET Ids /\ batch[w] \in SUBSET Ids
      BY DEF Holds, QueueOK, Worker!TypeOK
    <3>8. Cardinality(Holds(w)) <= Cardinality(batch[w]) /\ Cardinality(batch[w]) <= B
      BY <3>7, FewerIds DEF BatchesOK
    <3> HIDE DEF X, Held
    <3>9. Cardinality(Held(Z)) <= Cardinality(Held(X)) + Cardinality(Holds(w))
      BY <3>6, <3>7, BothIds
    <3>10. /\ Cardinality(Held(X)) \in Nat /\ Cardinality(Holds(w)) \in Nat
           /\ Cardinality(batch[w]) \in Nat /\ Cardinality(Held(Z)) \in Nat
      <4>1. Held(Z) \in SUBSET Ids
        BY <3>6, <3>7
      <4> QED BY <3>7, <4>1, IdsFinite
    <3>11. n * B = Cardinality(X) * B + B /\ Cardinality(X) * B \in Nat
      <4>1. B \in Nat
        OBVIOUS
      <4> QED BY <3>2, <3>3, <4>1, Product
    <3> QED BY <2>2, <3>5, <3>8, <3>9, <3>10, <3>11
  <2> QED BY <2>4, <2>5
<1>2. Cardinality(Y) \in Nat /\ Cardinality(Held(Y)) \in Nat
  <2>1. Held(Y) \in SUBSET Ids
    OBVIOUS
  <2> QED BY <2>1, IdsFinite, WorkersFinite
<1>3. Cardinality(Y) * B \in Nat
  BY <1>2, Product
<1>4. ~ (Cardinality(Held(Y)) > Cardinality(Y) * B)
  BY <1>1, <1>2
<1>5. Cardinality(Held(Y)) <= Cardinality(Y) * B
  <2> HIDE DEF Held
  <2> QED BY <1>2, <1>3, <1>4
<1> QED BY <1>5
\* A worker that has listed still looks for those outside of Y, and for the jobs
\* that those of Y do not hold.
LEMMA ListPending ==
  ASSUME QueueOK, NEW w \in Workers, NEW Y \in SUBSET Workers,
         pc[w] = "list", pc' = [pc EXCEPT ![w] = pc'[w]],
         UNCHANGED <<phase, holder, batch>>, UNCHANGED hooks
  PROVE  /\ w \notin Y /\ pc'[w] = "store" => Pending(Y) \subseteq Pending(Y)'
         /\ pc'[w] = "store" => Pending({}) \subseteq Pending(Y)' \cup {j \in Ids : holder[j] \in Y}
<1>1. \A v \in Workers : Worker!First(v)' = Worker!First(v)
  BY FirstSame
<1>2. /\ pc \in [Workers -> Point \cup {"idle"}] /\ owed' = owed /\ lost' = lost
      /\ holder' = holder /\ phase' = phase
  BY DEF QueueOK, Worker!TypeOK, hooks
<1>3. ASSUME NEW Z, NEW j \in Pending(Z), pc'[w] = "store",
             (Z = Y /\ w \notin Y) \/ (Z = {} /\ holder[j] \notin Y)
      PROVE  j \in Pending(Y)'
  <2>1. ASSUME Waits(Z, j) PROVE Waits(Y, j)'
    <3> SUFFICES ASSUME NEW v \in Workers, holder'[j] = v
                 PROVE  \/ pc'[v] = "list"
                        \/ pc'[v] = "store" /\ v \notin Y
                        \/ pc'[v] = "failed" /\ (j = Worker!First(v)' \/ holder'[Worker!First(v)'] # v)
      BY DEF Waits
    <3>1. \/ pc[v] = "list"
          \/ pc[v] = "store" /\ v \notin Z
          \/ pc[v] = "failed" /\ (j = Worker!First(v) \/ holder[Worker!First(v)] # v)
      BY <1>2, <2>1 DEF Waits
    <3>2. CASE v = w
      BY <1>2, <1>3, <3>2
    <3>3. CASE v # w
      <4>1. pc'[v] = pc[v]
        BY <1>2, <3>3
      <4> QED BY <1>1, <1>2, <1>3, <3>1, <4>1
    <3> QED BY <3>2, <3>3
  <2> QED BY <1>2, <2>1 DEF Pending
<1>4. ASSUME w \notin Y, pc'[w] = "store" PROVE Pending(Y) \subseteq Pending(Y)'
  BY <1>3, <1>4
<1>5. ASSUME pc'[w] = "store", NEW j \in Pending({}), holder[j] \notin Y PROVE j \in Pending(Y)'
  BY <1>3, <1>5
<1>6. Pending({}) \subseteq Ids
  BY DEF Pending
<1> QED BY <1>4, <1>5, <1>6

\* What n workers take for done is less than a distillation takes.
LEMMA SmallEnough ==
  ASSUME NEW B \in Nat \ {0}, SmallBatches(B), NEW n \in 1 .. Cardinality(Workers),
         NEW f \in 0 .. MaxFaults, MinEvents + n <= MaxEvents
  PROVE  n * B + f * (B - 1) <= n + MinEvents /\ n * B \in Nat /\ f * (B - 1) \in Nat
<1>1. /\ MinEvents \in Nat /\ MaxEvents \in Nat /\ MaxFaults \in Nat /\ n \in Nat /\ f \in Nat
      /\ B - 1 \in Nat /\ Cardinality(Workers) \in Nat
  BY WorkersFinite, DistillAssumption
<1>2. (n + MaxFaults) * (B - 1) <= MinEvents
  BY DEF SmallBatches
<1>3. (n + f) * (B - 1) <= (n + MaxFaults) * (B - 1)
  <2>1. n + f \in Nat /\ n + MaxFaults \in Nat /\ n + f <= n + MaxFaults
    BY <1>1
  <2> QED BY <1>1, <2>1, Product
<1>4. /\ n * (B - 1) \in Nat /\ f * (B - 1) \in Nat /\ n * B \in Nat
      /\ (n + f) * (B - 1) \in Nat /\ (n + MaxFaults) * (B - 1) \in Nat
  <2>1. n + f \in Nat /\ n + MaxFaults \in Nat /\ B \in Nat
    BY <1>1
  <2> QED BY <1>1, <2>1, Product
<1>5. (n + f) * (B - 1) = n * (B - 1) + f * (B - 1) /\ n * B = n * (B - 1) + n
  <2>1. (n + f) * (B - 1) = n * (B - 1) + f * (B - 1)
    BY <1>1
  <2>2. n * (B - 1) = n * B - n
    BY <1>1
  <2> QED BY <1>1, <1>4, <2>1, <2>2
<1> QED BY <1>1, <1>2, <1>3, <1>4, <1>5

\* A run that lists its window leaves few events, or a window full of what came later.
LEMMA QuietLists ==
  ASSUME NEW B \in Nat \ {0}, SmallBatches(B), IInv, IInv', BatchesOK(B), QuietInv(B),
         NEW w \in Workers, ListEvents(w)
  PROVE  QuietInv(B)'
<1>0. PICK found : found = Events(Newest(Active, MaxEvents))
  OBVIOUS
<1>1. /\ pc[w] = "list" /\ UNCHANGED <<phase, holder, batch>> /\ UNCHANGED hooks
      /\ pc' = [pc EXCEPT ![w] = IF Cardinality(found) < MinEvents THEN "done" ELSE "store"]
      /\ UNCHANGED memories /\ faults' = faults
      /\ listed' = [listed EXCEPT ![w] = found]
  BY <1>0 DEF ListEvents, Worker!Step, Worker!Goto
<1>2. /\ QueueOK /\ faults \in 0 .. MaxFaults /\ faults \in Nat /\ faults' \in Nat
      /\ pc \in [Workers -> Point \cup {"idle"}] /\ listed \in [Workers -> SUBSET Ids]
      /\ MinEvents \in Nat \ {0} /\ MaxEvents \in Nat
  BY DistillAssumption DEF IInv, TypeOK, QueueOK, Worker!TypeOK
<1>3. /\ found \in SUBSET Ids /\ found \subseteq Events(Active)
      /\ \A g \in Events(Active) : g \in Newest(Active, MaxEvents) => g \in found
      /\ Events(Active) \subseteq Active /\ Active \in SUBSET Ids
  BY <1>0 DEF Events, Newest, Active
<1>4. Cardinality(found) \in Nat
  BY <1>3, IdsFinite
<1>5. /\ pc'[w] = IF Cardinality(found) < MinEvents THEN "done" ELSE "store"
      /\ pc' = [pc EXCEPT ![w] = pc'[w]] /\ listed'[w] = found
      /\ \A v \in Workers : v # w => pc'[v] = pc[v] /\ listed'[v] = listed[v]
  BY <1>1, <1>2
<1>6. ASSUME NEW Y \in SUBSET Inflight', NEW e \in Events(Active)' \ Covered(Y)'
      PROVE  QuietAt(Y, e, B)'
  <2>1. /\ Y \in SUBSET Workers /\ Events(Active)' = Events(Active) /\ Later(e)' = Later(e)
        /\ e \in Events(Active)
    <3>1. Events(Active)' = Events(Active) /\ Later(e)' = Later(e)
      BY <1>1 DEF memories, Later, Events, Active
    <3> QED BY <3>1 DEF Inflight
  <2>2. /\ Cardinality(Later(e)) \in Nat /\ Cardinality(Y) \in Nat
        /\ Cardinality(Left(Y, e)') \in Nat /\ Owing(Pending(Y)', faults', B) \in Nat
        /\ Cardinality(Pending(Y)') \in Nat
        /\ Cardinality(Pending(Y)') <= Owing(Pending(Y)', faults', B)
        /\ QuietAt(Y, e, B)' <=>
             \/ Cardinality(Later(e)) + Cardinality(Y) + MinEvents > MaxEvents
             \/ Cardinality(Left(Y, e)') < MinEvents + Owing(Pending(Y)', faults', B)
    BY <1>2, <2>1, CountsOK, CountsLater
  <2>3. CASE e \notin Newest(Active, MaxEvents) /\ pc'[w] = "done"
    <3>1. Cardinality(Later(e)) + Cardinality(found) >= MaxEvents
      BY <1>0, <2>1, <2>3, BeyondWindow
    <3>2. Cardinality(found) < MinEvents
      BY <1>5, <2>3
    <3> QED BY <1>2, <1>4, <2>2, <3>1, <3>2
  <2>4. CASE e \in Newest(Active, MaxEvents) /\ pc'[w] = "done"
    <3>1. Left(Y, e)' \subseteq found
      <4> SUFFICES ASSUME NEW g \in Left(Y, e)' PROVE g \in found
        OBVIOUS
      <4>1. g \in Events(Active) /\ g >= e /\ g \in Nat /\ e \in Nat
        BY <1>3, <2>1 DEF Left, Ids
      <4>2. g \in Newest(Active, MaxEvents)
        BY <1>2, <1>3, <2>4, <4>1, WindowIsUpward
      <4> QED BY <1>3, <4>1, <4>2
    <3>2. Cardinality(Left(Y, e)') <= Cardinality(found)
      <4>1. Left(Y, e)' \in SUBSET Ids
        BY DEF Left, Events, Active
      <4> QED BY <1>3, <3>1, <4>1, FewerIds
    <3>3. Cardinality(found) < MinEvents
      BY <1>5, <2>4
    <3> QED BY <1>2, <1>4, <2>2, <3>2, <3>3
  <2>5. CASE pc'[w] = "store" /\ w \notin Y
    <3>1. Y \in SUBSET Inflight /\ \A v \in Y : listed'[v] = listed[v]
      BY <1>5, <2>5 DEF Inflight
    <3>2. Left(Y, e)' = Left(Y, e) /\ Covered(Y)' = Covered(Y)
      BY <1>1, <3>1, SameMemories
    <3>3. QuietAt(Y, e, B)
      BY <2>1, <3>1, <3>2 DEF QuietInv
    <3>4. Pending(Y) \subseteq Pending(Y)'
      BY <1>1, <1>2, <1>5, <2>1, <2>5, ListPending
    <3>5. Owing(Pending(Y), faults, B) <= Owing(Pending(Y)', faults', B)
      <4>1. Pending(Y) \in SUBSET Ids /\ Pending(Y)' \in SUBSET Ids
        BY DEF Pending
      <4> QED BY <1>1, <1>2, <3>4, <4>1, OwingGrows
    <3>6. Cardinality(Later(e)) + Cardinality(Y) <= Cardinality(Later(e)') + Cardinality(Y)
      BY <2>1, <2>2
    <3> QED BY <1>2, <2>1, <3>2, <3>3, <3>5, <3>6, QuietCarried
  <2>6. CASE pc'[w] = "store" /\ w \in Y
        /\ Cardinality(Later(e)) + Cardinality(Y) + MinEvents <= MaxEvents
    <3>1. e \notin found /\ found \subseteq Covered(Y)'
      BY <1>5, <2>6 DEF Covered
    <3>2. e \notin Newest(Active, MaxEvents)
      BY <1>3, <2>1, <3>1
    <3>3. /\ Cardinality(Later(e)) + Cardinality(found) >= MaxEvents
          /\ \A g \in found : g > e
      BY <1>0, <2>1, <3>2, BeyondWindow
    <3>4. Cardinality(Left({}, e)) < MinEvents + Owing(Pending({}), faults, B)
      <4>1. QuietAt({}, e, B)
        BY <2>1 DEF QuietInv, Covered
      <4>2. ~ (Cardinality(Later(e)) + Cardinality({}) + MinEvents > MaxEvents)
        <5>1. Cardinality({}) = 0
          BY FS_EmptySet
        <5> QED BY <1>2, <2>2, <2>6, <5>1
      <4> QED BY <4>1, <4>2 DEF QuietAt
    <3>5. Cardinality(Left(Y, e)') + Cardinality(found) <= Cardinality(Left({}, e))
      <4>1. /\ Left(Y, e)' \in SUBSET Ids /\ Left({}, e) \in SUBSET Ids
            /\ Left(Y, e)' \cup found \in SUBSET Ids
        BY <1>3 DEF Left, Events, Active
      <4>2. Left(Y, e)' \cap found = {}
        BY <3>1 DEF Left
      <4>3. Left(Y, e)' \cup found \subseteq Left({}, e)
        <5>1. ASSUME NEW g \in found PROVE g >= e
          <6>1. g \in Ids /\ e \in Ids
            BY <1>3, <2>1
          <6>2. g \in Nat /\ e \in Nat
            BY <6>1 DEF Ids
          <6>3. g > e
            BY <3>3
          <6> QED BY <6>2, <6>3
        <5> QED BY <1>3, <2>1, <5>1 DEF Left, Covered
      <4>4. Cardinality(Left(Y, e)' \cup found) = Cardinality(Left(Y, e)') + Cardinality(found)
        BY <1>3, <4>1, <4>2, BothIds
      <4>5. Cardinality(Left(Y, e)' \cup found) <= Cardinality(Left({}, e))
        BY <4>1, <4>3, FewerIds
      <4> QED BY <4>4, <4>5
    <3>6. Cardinality(Pending({})) <= Cardinality(Pending(Y)') + Cardinality(Y) * B
      <4> DEFINE H == {j \in Ids : holder[j] \in Y}
      <4>1. Pending({}) \subseteq Pending(Y)' \cup H
        BY <1>1, <1>2, <1>5, <2>1, <2>6, ListPending
      <4>2. Cardinality(H) <= Cardinality(Y) * B
        BY <1>2, <2>1, HeldByFew
      <4>3. /\ Pending({}) \in SUBSET Ids /\ Pending(Y)' \in SUBSET Ids /\ H \in SUBSET Ids
            /\ Pending(Y)' \cup H \in SUBSET Ids
        BY DEF Pending
      <4> HIDE DEF H
      <4>4. /\ Cardinality(Pending({})) <= Cardinality(Pending(Y)' \cup H)
            /\ Cardinality(Pending(Y)' \cup H) <= Cardinality(Pending(Y)') + Cardinality(H)
        BY <4>1, <4>3, FewerIds, BothIds
      <4>5. /\ Cardinality(Pending({})) \in Nat /\ Cardinality(H) \in Nat
            /\ Cardinality(Pending(Y)' \cup H) \in Nat
        BY <4>3, IdsFinite
      <4>6. Cardinality(Y) * B \in Nat
        <5>1. B \in Nat
          OBVIOUS
        <5> QED BY <2>2, <5>1, Product
      <4> QED BY <2>2, <4>2, <4>4, <4>5, <4>6
    <3>7. /\ Owing(Pending({}), faults, B) <= Cardinality(Pending({})) + faults * (B - 1)
          /\ Owing(Pending({}), faults, B) \in Nat /\ Cardinality(Pending({})) \in Nat
          /\ Cardinality(Left({}, e)) \in Nat
      <4>1. Pending({}) \in SUBSET Ids /\ Left({}, e) \in SUBSET Ids
        BY SubsetsOfIds
      <4> QED BY <1>2, <4>1, OwingIs, IdsFinite
    <3>8. /\ Cardinality(Y) * B + faults * (B - 1) <= Cardinality(Y) + MinEvents
          /\ Cardinality(Y) * B \in Nat /\ faults * (B - 1) \in Nat
      <4>1. Cardinality(Y) \in 1 .. Cardinality(Workers)
        <5>1. Cardinality(Y) # 0
          BY <2>1, <2>6, WorkersFinite, FS_EmptySet
        <5>2. Cardinality(Y) <= Cardinality(Workers) /\ Cardinality(Workers) \in Nat
          BY <2>1, WorkersFinite, FS_Subset
        <5> QED BY <2>2, <5>1, <5>2
      <4>2. MinEvents + Cardinality(Y) <= MaxEvents
        BY <1>2, <2>2, <2>6
      <4> QED BY <1>2, <4>1, <4>2, SmallEnough
    <3>9. Cardinality(Left(Y, e)') < MinEvents + Cardinality(Pending(Y)')
      BY <1>2, <1>4, <2>2, <2>6, <3>3, <3>4, <3>5, <3>6, <3>7, <3>8
    <3> QED BY <1>2, <2>2, <3>9
  <2>7. CASE Cardinality(Later(e)) + Cardinality(Y) + MinEvents > MaxEvents
    BY <2>2, <2>7
  <2>8. pc'[w] \in {"done", "store"}
    BY <1>5
  <2> QED BY <1>2, <2>2, <2>3, <2>4, <2>5, <2>6, <2>7, <2>8
<1> QED BY <1>6 DEF QuietInv
\* The invariant, and what follows from it when all is quiet.
QuietIInv(B) == IInv /\ BatchesOK(B) /\ IdsOK /\ QuietInv(B)

\* The invariant holds when nothing is stored yet.
LEMMA QuietInit ==
  ASSUME NEW B \in Nat, Init
  PROVE  QuietIInv(B)
<1>1. /\ \A j \in Ids : holder[j] = Nobody /\ phase[j] = "absent"
      /\ \A w \in Workers : pc[w] = "idle" /\ batch[w] = {}
      /\ \A m \in Ids : kind[m] = "none" /\ state[m] = "absent"
      /\ owed = {} /\ lost = {}
  BY DEF Init, Worker!Init, Worker!Queue!Init
<1>2. BatchesOK(B)
  BY <1>1, FS_EmptySet, DistillAssumption DEF BatchesOK, Holds
<1>3. IdsOK
  BY <1>1 DEF IdsOK
<1>4. Events(Active) = {}
  BY <1>1 DEF Events, Active
<1> QED BY InitIInv, <1>2, <1>3, <1>4 DEF QuietIInv, QuietInv

\* Every step keeps the invariant, when batches are small beside the window.
LEMMA QuietKept ==
  ASSUME NEW B \in Nat \ {0}, SmallBatches(B), QuietIInv(B), IInv', StepsOf(B)
  PROVE  QuietIInv(B)'
<1>a. IInv /\ BatchesOK(B) /\ IdsOK /\ QuietInv(B) /\ B \in Nat
  BY DEF QuietIInv
<1>b. QueueOK
  BY <1>a DEF IInv, TypeOK, QueueOK
<1>1. BatchesOK(B)' /\ IdsOK'
  BY <1>a, <1>b, BatchesKept, IdsKept
<1> SUFFICES QuietInv(B)'
  BY <1>1 DEF QuietIInv
<1>2. ASSUME NEW m \in Ids, StoreEvent(m) \/ StoreOther(m) PROVE QuietInv(B)'
  BY <1>a, <1>2, EventStored, OtherStored
<1>3. ASSUME NEW m \in Ids, EnqueueDistillJob(m) \/ HookDies(m) PROVE QuietInv(B)'
  <2>1. UNCHANGED memories
    BY <1>3 DEF EnqueueDistillJob, HookDies, memories
  <2> QED BY <1>a, <1>3, <2>1, QuietSteps
<1>4. ASSUME NEW w \in Workers, ClaimFew(w, B) \/ SettleJob(w) \/ LostLease(w) \/ Abort(w)
      PROVE  QuietInv(B)'
  <2>1. UNCHANGED memories
    BY <1>4 DEF ClaimFew, SettleJob, LostLease, Abort, memories
  <2> QED BY <1>a, <1>4, <2>1, QuietSteps
<1>5. ASSUME NEW w \in Workers, ListEvents(w) PROVE QuietInv(B)'
  BY <1>a, <1>5, QuietLists
<1>6. ASSUME NEW w \in Workers, DistillSession(w) PROVE QuietInv(B)'
  BY <1>a, <1>6, WorkerStored
<1>7. ASSUME NEW w \in Workers, DistillFails(w) PROVE QuietInv(B)'
  BY <1>a, <1>7, QuietFails
<1>8. CASE LapseLeases
  <2>1. UNCHANGED memories
    BY <1>8 DEF LapseLeases, memories
  <2> QED BY <1>a, <1>8, <2>1, QuietSteps
<1>9. CASE ListByHand \/ HandGivesUp \/ ListForCleaning \/ UNCHANGED vars
  <2>1. UNCHANGED memories /\ UNCHANGED <<queue, hooks, listed, faults>>
    BY <1>9 DEF ListByHand, HandGivesUp, ListForCleaning, vars
  <2> QED BY <1>a, <2>1, QuietSteps
<1>10. CASE DistillByHand
  BY <1>a, <1>10, HandStored
<1>11. CASE DeleteBatch
  BY <1>a, <1>11, DeletedIsArchived
<1> QED
  BY <1>2, <1>3, <1>4, <1>5, <1>6, <1>7, <1>8, <1>9, <1>10, <1>11 DEF StepsOf, OtherSteps, Proceed

\* When nobody is at work and no job is left, the invariant says that events are few.
LEMMA QuietMeansDistilled ==
  ASSUME NEW B \in Nat \ {0}, QuietIInv(B)
  PROVE  QuietIsDistilled
<1> DEFINE W == Events(Newest(Active, MaxEvents))
<1>1. SUFFICES ASSUME Quiet, ~ (Cardinality(W) < MinEvents) PROVE FALSE
  BY DEF QuietIsDistilled
<1>2. /\ W \in SUBSET Ids /\ W \in SUBSET Nat /\ W \subseteq Events(Active)
      /\ faults \in Nat /\ MinEvents \in Nat \ {0} /\ MaxEvents \in Nat
      /\ W \subseteq Newest(Active, MaxEvents)
  BY DistillAssumption DEF Events, Newest, Active, Ids, QuietIInv, IInv, TypeOK
<1>3. W # {} /\ Cardinality(W) \in Nat
  <2>1. Cardinality(W) \in Nat
    BY <1>2, IdsFinite
  <2> HIDE DEF W
  <2> QED BY <1>1, <1>2, <2>1, FS_EmptySet
<1>4. PICK e \in W : \A f \in W : e <= f
  <2> HIDE DEF W
  <2> QED BY <1>2, <1>3, LeastNat
<1>5. Pending({}) = {}
  BY <1>1 DEF Quiet, Pending
<1>6. Cardinality(Later(e)) + Cardinality(W) <= MaxEvents
  <2> DEFINE U == {k \in Active : k > e}
             V == W \ {e}
  <2>1. /\ U \in SUBSET Ids /\ V \in SUBSET Ids /\ Later(e) \in SUBSET Ids
        /\ e \in Ids \ V /\ V \cup {e} = W
    BY <1>2, <1>4 DEF Active, Later
  <2>2. Later(e) \cup V \subseteq U /\ Later(e) \cap V = {} /\ Later(e) \cup V \in SUBSET Ids
    <3>1. ASSUME NEW k \in V PROVE k \in U
      <4>1. e <= k /\ k # e /\ k \in Nat /\ e \in Nat /\ k \in Active
        BY <1>2, <1>4 DEF Events, Newest
      <4> QED BY <4>1
    <3>2. Later(e) \subseteq U
      BY DEF Later
    <3>3. Later(e) \cap V = {}
      BY <1>2 DEF Later, Events
    <3> QED BY <2>1, <3>1, <3>2, <3>3
  <2>3. Cardinality(U) < MaxEvents
    BY <1>2, <1>4 DEF Newest
  <2> HIDE DEF U, V, W
  <2>4. Cardinality(W) = Cardinality(V) + 1
    BY <2>1, OneMoreId
  <2>5. Cardinality(Later(e) \cup V) = Cardinality(Later(e)) + Cardinality(V)
    BY <2>1, <2>2, BothIds
  <2>6. Cardinality(Later(e) \cup V) <= Cardinality(U)
    BY <2>1, <2>2, FewerIds
  <2>7. /\ Cardinality(Later(e)) \in Nat /\ Cardinality(V) \in Nat /\ Cardinality(U) \in Nat
        /\ Cardinality(Later(e) \cup V) \in Nat
    BY <2>1, <2>2, IdsFinite
  <2> QED BY <1>2, <2>3, <2>4, <2>5, <2>6, <2>7
<1>7. QuietAt({}, e, B)
  BY <1>2, <1>4 DEF QuietIInv, QuietInv, Covered
<1>8. Cardinality({}) = 0 /\ Owing(Pending({}), faults, B) = 0
  BY <1>2, <1>5, FS_EmptySet DEF Owing
<1>9. Cardinality(Later(e)) \in Nat /\ Cardinality(Left({}, e)) \in Nat
  BY SubsetsOfIds, IdsFinite
<1>10. Cardinality(Left({}, e)) < MinEvents
  <2> HIDE DEF W
  <2> QED BY <1>1, <1>2, <1>3, <1>6, <1>7, <1>8, <1>9 DEF QuietAt
<1>11. Cardinality(W) <= Cardinality(Left({}, e))
  <2>1. W \subseteq Left({}, e)
    <3>1. ASSUME NEW f \in W PROVE f >= e
      BY <1>2, <1>4
    <3> QED BY <1>2, <3>1 DEF Left, Covered
  <2>2. Left({}, e) \in SUBSET Ids
    BY SubsetsOfIds
  <2> HIDE DEF W
  <2> QED BY <1>2, <2>1, <2>2, FewerIds
<1> HIDE DEF W
<1> QED BY <1>1, <1>2, <1>3, <1>9, <1>10, <1>11

\* As long as batches are small: when all the jobs are done, whoever claimed them,
\* failed, died or came too late, the newest memories of the session hold fewer
\* events than a distillation takes.
THEOREM QuietIsDistilledHolds ==
  ASSUME SmallBatches(BatchSize)
  PROVE  Spec => []QuietIsDistilled
<1>1. BatchSize \in Nat \ {0} /\ BatchSize \in Nat
  BY DistillAssumption
<1>2. Init => QuietIInv(BatchSize)
  BY <1>1, QuietInit
<1>3. QuietIInv(BatchSize) /\ IInv' /\ [Next]_vars => QuietIInv(BatchSize)'
  BY <1>1, StepsAre, QuietKept
<1>4. QuietIInv(BatchSize) => QuietIsDistilled
  BY <1>1, QuietMeansDistilled
<1> QED
  BY <1>2, <1>3, <1>4, IInvHolds, PTL DEF Spec
=============================================================================
