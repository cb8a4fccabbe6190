------------------------- MODULE JobQueueProofs -------------------------
(***************************************************************************)
(* Proofs about JobQueue for any jobs, workers, tokens and bounds.         *)
(*                                                                         *)
(* The inductive invariant adds to the types how the lease columns follow  *)
(* the status column, how a worker's claim follows its batch, and that no  *)
(* two workers carry the same token.  The three safety properties rest on  *)
(* it: a token identifies one claim, and attempts change only when the     *)
(* token does.                                                             *)
(***************************************************************************)
EXTENDS JobQueue, TLAPS

\* The lease columns are set exactly while the row is running, and a job is
\* inserted with no attempts behind it.
RowsConsistent ==
  \A j \in Jobs :
    /\ status[j] = "running" <=> token[j] # NoToken
    /\ status[j] = "running" <=> lease[j] # NoLease
    /\ status[j] = "absent" => attempts[j] = 0

\* A worker has a token exactly while it has a batch, no other worker has the
\* same one, and fail_job works on a job of the batch.
ClaimsConsistent ==
  /\ \A w \in Workers : /\ held[w] = {} <=> claim[w] = NoToken
                        /\ failing[w] # NoJob => failing[w] \in held[w]
  /\ \A w1, w2 \in Workers : claim[w1] = claim[w2] /\ claim[w1] # NoToken => w1 = w2

IInv == /\ TypeOK
        /\ RowsConsistent
        /\ ClaimsConsistent
        /\ RetryDecisionFresh
        /\ RetryBudget

\* The invariant holds of an empty queue.
LEMMA InitIInv == Init => IInv
  BY IdsAssumption, BoundsAssumption
     DEF Init, IInv, TypeOK, RowsConsistent, ClaimsConsistent,
         RetryDecisionFresh, RetryBudget, Status, NoLease

\* Types.
LEMMA NextTypeOK == TypeOK /\ [Next]_vars => TypeOK'
<1> SUFFICES ASSUME TypeOK, [Next]_vars PROVE TypeOK'
  OBVIOUS
<1> USE IdsAssumption, BoundsAssumption DEF TypeOK, Status, NoLease
<1>1. ASSUME NEW j \in Jobs, EnqueueJob(j) PROVE TypeOK'
  BY <1>1 DEF EnqueueJob, worker
<1>2. ASSUME NEW w \in Workers, NEW q \in Queues, ClaimJobs(w, q) PROVE TypeOK'
  BY <1>2 DEF ClaimJobs, Candidates
<1>3. ASSUME NEW w \in Workers, NEW j \in Jobs, ScreenCorrupt(w, j) PROVE TypeOK'
  BY <1>3 DEF ScreenCorrupt, Settle, Forget, row
<1>4. ASSUME NEW w \in Workers, NEW j \in Jobs, CompleteJob(w, j) PROVE TypeOK'
  BY <1>4 DEF CompleteJob, Settle, Forget
<1>5. ASSUME NEW w \in Workers, NEW j \in Jobs, FailJobRead(w, j) PROVE TypeOK'
  BY <1>5 DEF FailJobRead, row
<1>6. ASSUME NEW w \in Workers, FailJobWrite(w) PROVE TypeOK'
  BY <1>6 DEF FailJobWrite, Settle, Forget
<1>7. ASSUME NEW w \in Workers, LostLease(w) PROVE TypeOK'
  BY <1>7 DEF LostLease, DropBatch, row
<1>8. ASSUME NEW w \in Workers, Abort(w) PROVE TypeOK'
  BY <1>8 DEF Abort, DropBatch, row
<1>9. CASE Tick
  BY <1>9 DEF Tick, worker
<1>10. ASSUME NEW S \in SUBSET Jobs, Delete(S) PROVE TypeOK'
  BY <1>10 DEF Delete, worker
<1>11. CASE UNCHANGED vars
  BY <1>11 DEF vars, row, worker
<1> QED
  BY <1>1, <1>2, <1>3, <1>4, <1>5, <1>6, <1>7, <1>8, <1>9, <1>10, <1>11
     DEF Next, Settling, PurgeCompletedJobs, PurgePermanentlyFailedJobs

\* What a claim does, whichever batch and token it takes.
ClaimEffect(w, S, t) ==
  /\ S # {} /\ FreshToken(t) /\ \A j \in S : Claimable(j)
  /\ status'   = [j \in Jobs |-> IF j \in S THEN "running" ELSE status[j]]
  /\ token'    = [j \in Jobs |-> IF j \in S THEN t ELSE token[j]]
  /\ lease'    = [j \in Jobs |-> IF j \in S THEN LeaseTtl ELSE lease[j]]
  /\ attempts' = [j \in Jobs |-> IF j \in S /\ attempts[j] < AttemptCap
                                   THEN attempts[j] + 1 ELSE attempts[j]]
  /\ held'     = [held EXCEPT ![w] = S]
  /\ claim'    = [claim EXCEPT ![w] = t]
  /\ Idle(w)
  /\ UNCHANGED <<failing, verdict, aborts>>

\* A claim takes some set of jobs under some token.
LEMMA ClaimTakesBatch ==
  ASSUME NEW w \in Workers, NEW q \in Queues, ClaimJobs(w, q)
  PROVE  \E S \in SUBSET Jobs, t \in Token : ClaimEffect(w, S, t)
  BY DEF ClaimJobs, Candidates, ClaimEffect

\* The columns that go together stay together.
LEMMA NextConsistent ==
  TypeOK /\ RowsConsistent /\ ClaimsConsistent /\ [Next]_vars
    => RowsConsistent' /\ ClaimsConsistent'
<1> SUFFICES ASSUME TypeOK, RowsConsistent, ClaimsConsistent, [Next]_vars
             PROVE  RowsConsistent' /\ ClaimsConsistent'
  OBVIOUS
<1> USE IdsAssumption, BoundsAssumption
    DEF TypeOK, RowsConsistent, ClaimsConsistent, Status, NoLease
<1>1. ASSUME NEW j \in Jobs, EnqueueJob(j)
      PROVE  RowsConsistent' /\ ClaimsConsistent'
  BY <1>1 DEF EnqueueJob, worker
<1>2. ASSUME NEW w \in Workers, NEW q \in Queues, ClaimJobs(w, q)
      PROVE  RowsConsistent' /\ ClaimsConsistent'
  <2>1. PICK S \in SUBSET Jobs, t \in Token : ClaimEffect(w, S, t)
    BY <1>2, ClaimTakesBatch
  <2>3. RowsConsistent'
    BY <2>1 DEF ClaimEffect, Claimable
  <2>4. ClaimsConsistent'
    BY <2>1 DEF ClaimEffect, FreshToken, Idle
  <2> QED
    BY <2>3, <2>4
<1>3. ASSUME NEW w \in Workers, NEW j \in Jobs, ScreenCorrupt(w, j)
      PROVE  RowsConsistent' /\ ClaimsConsistent'
  BY <1>3 DEF ScreenCorrupt, Owns, Settle, Forget, row
<1>4. ASSUME NEW w \in Workers, NEW j \in Jobs, CompleteJob(w, j)
      PROVE  RowsConsistent' /\ ClaimsConsistent'
  BY <1>4 DEF CompleteJob, Owns, Current, Settle, Forget
<1>5. ASSUME NEW w \in Workers, NEW j \in Jobs, FailJobRead(w, j)
      PROVE  RowsConsistent' /\ ClaimsConsistent'
  BY <1>5 DEF FailJobRead, Current, row
<1>6. ASSUME NEW w \in Workers, FailJobWrite(w)
      PROVE  RowsConsistent' /\ ClaimsConsistent'
  BY <1>6 DEF FailJobWrite, Owns, Settle, Forget
<1>7. ASSUME NEW w \in Workers, LostLease(w)
      PROVE  RowsConsistent' /\ ClaimsConsistent'
  BY <1>7 DEF LostLease, DropBatch, row
<1>8. ASSUME NEW w \in Workers, Abort(w)
      PROVE  RowsConsistent' /\ ClaimsConsistent'
  BY <1>8 DEF Abort, DropBatch, row
<1>9. CASE Tick
  BY <1>9 DEF Tick, worker
<1>10. ASSUME NEW S \in SUBSET Jobs, Delete(S),
              \A j \in S : status[j] \in {"completed", "failed"}
       PROVE  RowsConsistent' /\ ClaimsConsistent'
  BY <1>10 DEF Delete, worker
<1>11. CASE UNCHANGED vars
  BY <1>11 DEF vars, row, worker
<1> QED
  BY <1>1, <1>2, <1>3, <1>4, <1>5, <1>6, <1>7, <1>8, <1>9, <1>10, <1>11
     DEF Next, Settling, PurgeCompletedJobs, PurgePermanentlyFailedJobs

\* No action but a claim raises attempts, and a claim replaces the token with
\* one that no worker inside fail_job holds.
LEMMA NextRetry ==
  IInv /\ [Next]_vars => RetryDecisionFresh' /\ RetryBudget'
<1> SUFFICES ASSUME IInv, [Next]_vars PROVE RetryDecisionFresh' /\ RetryBudget'
  OBVIOUS
<1> USE IdsAssumption, BoundsAssumption
    DEF IInv, TypeOK, RowsConsistent, ClaimsConsistent, Status, NoLease,
        RetryDecisionFresh, RetryBudget, Owns
<1>1. ASSUME NEW j \in Jobs, EnqueueJob(j)
      PROVE  RetryDecisionFresh' /\ RetryBudget'
  BY <1>1 DEF EnqueueJob, worker
<1>2. ASSUME NEW w \in Workers, NEW q \in Queues, ClaimJobs(w, q)
      PROVE  RetryDecisionFresh' /\ RetryBudget'
  <2>1. PICK S \in SUBSET Jobs, t \in Token : ClaimEffect(w, S, t)
    BY <1>2, ClaimTakesBatch
  <2>2. failing[w] = NoJob /\ UNCHANGED <<failing, verdict>>
    BY <2>1 DEF ClaimEffect, Idle
  <2>3. RetryDecisionFresh'
    <3> SUFFICES ASSUME NEW v \in Workers, failing'[v] # NoJob, Owns(v, failing[v])'
                 PROVE  verdict'[v] = "failed" <=> attempts'[failing'[v]] >= MaxAttempts
      OBVIOUS
    <3>1. v # w /\ failing[v] \in Jobs
      BY <2>2
    <3>2. failing[v] \notin S
      BY <2>1, <2>2, <3>1 DEF ClaimEffect, FreshToken
    <3> QED
      BY <2>1, <2>2, <3>1, <3>2 DEF ClaimEffect
  <2>4. RetryBudget'
    BY <2>1 DEF ClaimEffect
  <2> QED
    BY <2>3, <2>4
<1>3. ASSUME NEW w \in Workers, NEW j \in Jobs, ScreenCorrupt(w, j)
      PROVE  RetryDecisionFresh' /\ RetryBudget'
  BY <1>3 DEF ScreenCorrupt, Settle, Forget, row
<1>4. ASSUME NEW w \in Workers, NEW j \in Jobs, CompleteJob(w, j)
      PROVE  RetryDecisionFresh' /\ RetryBudget'
  BY <1>4 DEF CompleteJob, Settle, Forget
<1>5. ASSUME NEW w \in Workers, NEW j \in Jobs, FailJobRead(w, j)
      PROVE  RetryDecisionFresh' /\ RetryBudget'
  BY <1>5 DEF FailJobRead, row
<1>6. ASSUME NEW w \in Workers, FailJobWrite(w)
      PROVE  RetryDecisionFresh' /\ RetryBudget'
  BY <1>6 DEF FailJobWrite, Settle, Forget
<1>7. ASSUME NEW w \in Workers, LostLease(w)
      PROVE  RetryDecisionFresh' /\ RetryBudget'
  BY <1>7 DEF LostLease, DropBatch, row
<1>8. ASSUME NEW w \in Workers, Abort(w)
      PROVE  RetryDecisionFresh' /\ RetryBudget'
  BY <1>8 DEF Abort, DropBatch, row
<1>9. CASE Tick
  BY <1>9 DEF Tick, worker
<1>10. ASSUME NEW S \in SUBSET Jobs, Delete(S)
       PROVE  RetryDecisionFresh' /\ RetryBudget'
  BY <1>10 DEF Delete, worker
<1>11. CASE UNCHANGED vars
  BY <1>11 DEF vars, row, worker
<1> QED
  BY <1>1, <1>2, <1>3, <1>4, <1>5, <1>6, <1>7, <1>8, <1>9, <1>10, <1>11
     DEF Next, Settling, PurgeCompletedJobs, PurgePermanentlyFailedJobs

\* The invariant holds in every state.
LEMMA SpecIInv == Spec => []IInv
<1>1. IInv /\ [Next]_vars => IInv'
  BY NextTypeOK, NextConsistent, NextRetry DEF IInv
<1> QED
  BY InitIInv, <1>1, PTL DEF Spec

-----------------------------------------------------------------------------

\* The columns of memory_jobs and the workers' batches keep their types.
THEOREM TypeCorrect == Spec => []TypeOK
  BY SpecIInv, PTL DEF IInv

\* At most one worker holds the token a row currently carries, so the guarded
\* UPDATEs of complete_job, fail_job and permanently_fail_job accept at most
\* one of the workers that believe they lease the job.
THEOREM SingleHolderHolds == Spec => []SingleHolder
<1>1. IInv => SingleHolder
  BY DEF IInv, ClaimsConsistent, SingleHolder, Owns
<1> QED
  BY SpecIInv, <1>1, PTL

\* The gap between fail_job's SELECT and its UPDATE is harmless: a decision
\* that can still be written is the decision the row calls for now.
THEOREM RetryDecisionFreshHolds == Spec => []RetryDecisionFresh
  BY SpecIInv, PTL DEF IInv

\* A job is neither given up early nor retried once its attempts are used up.
THEOREM RetryBudgetHolds == Spec => []RetryBudget
  BY SpecIInv, PTL DEF IInv

-----------------------------------------------------------------------------
\* Without overrun a batch stays its worker's: every job of it still carries
\* the worker's token, and its lease has not lapsed.
BatchKept == \A w \in Workers : \A j \in held[w] : token[j] = claim[w] /\ lease[j] >= 0

\* Without overruns every step leaves each worker its batch, under its lease.
LEMMA NextBatchKept ==
  ASSUME MayOverrun = FALSE, IInv, BatchKept, [Next]_vars
  PROVE  BatchKept'
<1> USE IdsAssumption, BoundsAssumption
    DEF IInv, TypeOK, RowsConsistent, ClaimsConsistent, BatchKept, NoLease
<1>1. ASSUME NEW j \in Jobs, EnqueueJob(j) PROVE BatchKept'
  BY <1>1 DEF EnqueueJob, worker
<1>2. ASSUME NEW w \in Workers, NEW q \in Queues, ClaimJobs(w, q) PROVE BatchKept'
  <2>1. PICK S \in SUBSET Jobs, t \in Token : ClaimEffect(w, S, t)
    BY <1>2, ClaimTakesBatch
  <2>2. \A v \in Workers : held[v] \cap S = {}
    BY <2>1 DEF ClaimEffect, Claimable, Status
  <2> QED
    BY <2>1, <2>2 DEF ClaimEffect
<1>3. ASSUME NEW w \in Workers, NEW j \in Jobs, ScreenCorrupt(w, j) PROVE BatchKept'
  BY <1>3 DEF ScreenCorrupt, Owns, Settle, Forget, row
<1>4. ASSUME NEW w \in Workers, NEW j \in Jobs, CompleteJob(w, j) PROVE BatchKept'
  BY <1>4 DEF CompleteJob, Owns, Settle, Forget
<1>5. ASSUME NEW w \in Workers, NEW j \in Jobs, FailJobRead(w, j) PROVE BatchKept'
  BY <1>5 DEF FailJobRead, row
<1>6. ASSUME NEW w \in Workers, FailJobWrite(w) PROVE BatchKept'
  BY <1>6 DEF FailJobWrite, Owns, Settle, Forget
<1>7. ASSUME NEW w \in Workers, LostLease(w) \/ Abort(w) PROVE BatchKept'
  BY <1>7 DEF LostLease, Abort, DropBatch, row
<1>8. CASE Tick
  <2>1. \A w \in Workers : \A j \in held[w] : Owns(w, j)
    BY DEF Owns
  <2>2. \A w \in Workers : \A j \in held[w] : lease[j] > 0
    BY <1>8, <2>1 DEF Tick
  <2> QED
    BY <1>8, <2>2 DEF Tick, worker
<1>9. ASSUME NEW S \in SUBSET Jobs, Delete(S) PROVE BatchKept'
  BY <1>9 DEF Delete, worker
<1>10. CASE UNCHANGED vars
  BY <1>10 DEF vars, row, worker
<1> QED
  BY <1>1, <1>2, <1>3, <1>4, <1>5, <1>6, <1>7, <1>8, <1>9, <1>10
     DEF Next, Settling, PurgeCompletedJobs, PurgePermanentlyFailedJobs

\* When every batch is settled before its lease lapses, no job is ever in the
\* batches of two workers (claim_jobs takes only open and lapsed rows).
THEOREM ExclusiveWorkHolds == ASSUME MayOverrun = FALSE PROVE Spec => []ExclusiveWork
<1>1. Init => BatchKept
  BY DEF Init, BatchKept
<1>2. IInv /\ BatchKept => ExclusiveWork
  BY DEF IInv, ClaimsConsistent, TypeOK, BatchKept, ExclusiveWork
<1> QED
  BY SpecIInv, NextBatchKept, <1>1, <1>2, PTL DEF Spec
=============================================================================
