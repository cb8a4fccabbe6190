------------------------- MODULE JobLeaseProofs -------------------------
(***************************************************************************)
(* The job queue implements the abstract lease of JobLease, for any jobs,  *)
(* workers, tokens and bounds.  Every action maps to the abstract step its *)
(* lemma names.                                                            *)
(***************************************************************************)
EXTENDS JobQueueProofs

\* The invariant contains that a job has one holder.
LEMMA SingleHolderInv == IInv => SingleHolder
  BY DEF IInv, ClaimsConsistent, SingleHolder, Owns

\* The mapping's holder is the worker that owns the job, if there is one.
LEMMA HolderIs ==
  ASSUME SingleHolder, NEW j \in Jobs
  PROVE  /\ \A w \in Workers : Owns(w, j) => HolderOf(j) = w
         /\ (\A w \in Workers : ~Owns(w, j)) => HolderOf(j) = NoJob
  BY DEF SingleHolder, HolderOf

\* Both sides of a step have at most one holder per job.
LEMMA StepHolders ==
  ASSUME IInv, IInv', NEW j \in Jobs
  PROVE  /\ (\A w \in Workers : Owns(w, j) <=> Owns(w, j)') => HolderOf(j)' = HolderOf(j)
         /\ \A w \in Workers : Owns(w, j)' => HolderOf(j)' = w
         /\ (\A w \in Workers : ~Owns(w, j)') => HolderOf(j)' = NoJob
<1>1. SingleHolder /\ SingleHolder'
  BY DEF IInv, ClaimsConsistent, SingleHolder, Owns
<1>2. /\ \A w \in Workers : Owns(w, j) => HolderOf(j) = w
      /\ (\A w \in Workers : ~Owns(w, j)) => HolderOf(j) = NoJob
  BY <1>1, HolderIs
<1>3. /\ \A w \in Workers : Owns(w, j)' => HolderOf(j)' = w
      /\ (\A w \in Workers : ~Owns(w, j)') => HolderOf(j)' = NoJob
  BY <1>1 DEF SingleHolder, HolderOf
<1> QED
  BY <1>2, <1>3

\* A job with an owner is running.
LEMMA OwnedIsRunning ==
  ASSUME IInv, NEW w \in Workers, NEW j \in Jobs, Owns(w, j)
  PROVE  status[j] = "running" /\ HolderOf(j) = w
  BY SingleHolderInv, HolderIs DEF IInv, RowsConsistent, Owns

\* The queue begins as its abstraction does.
LEMMA InitLease == Init => Lease!Init
<1> SUFFICES ASSUME Init PROVE Lease!Init
  OBVIOUS
<1>1. \A j \in Jobs : PhaseOf(j) = "absent" /\ HolderOf(j) = NoJob
  BY IdsAssumption DEF Init, PhaseOf, HolderOf, Owns
<1> QED
  BY <1>1 DEF Lease!Init

\* To enqueue a job is to submit it.
LEMMA EnqueueSubmits ==
  ASSUME IInv, IInv', NEW j \in Jobs, EnqueueJob(j)
  PROVE  Lease!Submit(j)
<1>1. \A k \in Jobs : HolderOf(k)' = HolderOf(k)
  BY StepHolders DEF EnqueueJob, worker, Owns
<1>2. \A k \in Jobs : PhaseOf(k)' = IF k \in {j} THEN "open" ELSE PhaseOf(k)
  BY DEF EnqueueJob, PhaseOf, IInv, TypeOK, Status
<1>3. PhaseOf(j) = "absent"
  BY DEF EnqueueJob, PhaseOf
<1> QED
  BY <1>1, <1>2, <1>3 DEF Lease!Submit, Lease!Move

\* To claim jobs is to be granted their leases.
LEMMA ClaimGrants ==
  ASSUME IInv, IInv', NEW w \in Workers, NEW S \in SUBSET Jobs, NEW t \in Token,
         ClaimEffect(w, S, t)
  PROVE  Lease!Grant(w, S)
<1>1. \A k \in Jobs \ S : HolderOf(k)' = HolderOf(k)
  <2> SUFFICES ASSUME NEW k \in Jobs \ S, NEW v \in Workers
               PROVE  Owns(v, k) <=> Owns(v, k)'
    BY StepHolders
  <2> QED
    BY DEF ClaimEffect, Idle, FreshToken, Owns, IInv, TypeOK
<1>2. \A k \in S : HolderOf(k)' = w
  <2> SUFFICES ASSUME NEW k \in S PROVE Owns(w, k)'
    BY StepHolders
  <2> QED
    BY IdsAssumption DEF ClaimEffect, Owns, IInv, TypeOK
<1>3. \A k \in Jobs : PhaseOf(k)' = IF k \in S THEN "leased" ELSE PhaseOf(k)
  BY BoundsAssumption DEF ClaimEffect, PhaseOf, IInv, TypeOK, Status
<1>4. \A k \in S : PhaseOf(k) \in {"open", "lapsed"}
  BY BoundsAssumption DEF ClaimEffect, Claimable, PhaseOf, IInv, TypeOK, Status, NoLease
<1> QED
  BY <1>1, <1>2, <1>3, <1>4 DEF Lease!Grant, Lease!Move, Lease!Give

\* Every settling UPDATE that finds its token settles the abstract job.
LEMMA SettleSettles ==
  ASSUME IInv, IInv', NEW w \in Workers, NEW j \in Jobs, Owns(w, j),
         NEW s \in {"pending", "completed", "failed"}, Settle(j, s), Forget(w, j)
  PROVE  \E p \in Lease!Phase : Lease!Settle(w, j, p)
<1> DEFINE p == IF s = "pending" THEN "open" ELSE IF s = "completed" THEN "done" ELSE "dead"
<1>1. status[j] = "running" /\ HolderOf(j) = w
  BY OwnedIsRunning
<1>2. \A k \in Jobs \ {j} : HolderOf(k)' = HolderOf(k)
  <2> SUFFICES ASSUME NEW k \in Jobs \ {j}, NEW v \in Workers
               PROVE  Owns(v, k) <=> Owns(v, k)'
    BY StepHolders
  <2> QED
    BY DEF Settle, Forget, Owns, IInv, TypeOK
<1>3. HolderOf(j)' = NoJob
  <2> SUFFICES ASSUME NEW v \in Workers PROVE ~Owns(v, j)'
    BY StepHolders
  <2> QED
    BY DEF Settle, Owns, IInv, TypeOK
<1>4. \A k \in Jobs : PhaseOf(k)' = IF k \in {j} THEN p ELSE PhaseOf(k)
  BY DEF Settle, PhaseOf, IInv, TypeOK, Status
<1>5. PhaseOf(j) \in {"leased", "lapsed"}
  BY <1>1 DEF PhaseOf
<1>6. Lease!Settle(w, j, p)
  BY <1>1, <1>2, <1>3, <1>4, <1>5 DEF Lease!Settle, Lease!Move, Lease!Give
<1> QED
  BY <1>6 DEF Lease!Phase

\* A worker that forgets jobs without settling them, and the rows unchanged.
LEMMA ForgettingLoses ==
  ASSUME IInv, IInv', NEW w \in Workers, NEW S \in SUBSET Jobs, UNCHANGED row,
         held' = [held EXCEPT ![w] = @ \ S],
         claim' = [claim EXCEPT ![w] = IF held[w] \ S = {} THEN NoToken ELSE @]
  PROVE  Lease!Lose({k \in S : Owns(w, k)})
<1> DEFINE L == {k \in S : Owns(w, k)}
<1>1. \A k \in Jobs \ L : HolderOf(k)' = HolderOf(k)
  <2> SUFFICES ASSUME NEW k \in Jobs \ L, NEW v \in Workers
               PROVE  Owns(v, k) <=> Owns(v, k)'
    BY StepHolders
  <2> QED
    BY DEF Owns, row, IInv, TypeOK
<1>2. \A k \in L : HolderOf(k)' = NoJob
  <2> SUFFICES ASSUME NEW k \in L, NEW v \in Workers PROVE ~Owns(v, k)'
    BY StepHolders
  <2>1. v # w => ~Owns(v, k)
    BY SingleHolderInv DEF SingleHolder
  <2> QED
    BY <2>1 DEF Owns, row, IInv, TypeOK
<1>3. \A k \in Jobs : PhaseOf(k)' = PhaseOf(k)
  BY DEF PhaseOf, row
<1> QED
  BY <1>1, <1>2, <1>3 DEF Lease!Lose, Lease!Give

\* A tick of the clock lapses the leases that end with it.
LEMMA TickLapses ==
  ASSUME IInv, IInv', Tick
  PROVE  Lease!Lapse({j \in Jobs : lease[j] = 0})
<1> DEFINE L == {j \in Jobs : lease[j] = 0}
<1>1. \A k \in Jobs : HolderOf(k)' = HolderOf(k)
  BY StepHolders DEF Tick, worker, Owns
<1>2. \A k \in Jobs : lease[k] >= 0 => status[k] = "running"
  BY BoundsAssumption DEF IInv, TypeOK, RowsConsistent, NoLease
<1>3. \A k \in Jobs : PhaseOf(k)' = IF k \in L THEN "lapsed" ELSE PhaseOf(k)
  <2> SUFFICES ASSUME NEW k \in Jobs
               PROVE  PhaseOf(k)' = IF k \in L THEN "lapsed" ELSE PhaseOf(k)
    OBVIOUS
  <2>1. /\ status'[k] = status[k]
        /\ lease[k] \in Int
        /\ lease'[k] = IF lease[k] >= 0 THEN lease[k] - 1 ELSE lease[k]
    BY BoundsAssumption DEF Tick, IInv, TypeOK, NoLease
  <2> QED
    BY <1>2, <2>1 DEF PhaseOf, IInv, TypeOK, Status
<1>4. \A k \in L : PhaseOf(k) = "leased"
  BY <1>2 DEF PhaseOf
<1> QED
  BY <1>1, <1>3, <1>4 DEF Lease!Lapse, Lease!Move

\* To delete finished jobs is to remove them.
LEMMA DeleteRemoves ==
  ASSUME IInv, IInv', NEW S \in SUBSET Jobs, Delete(S),
         \A j \in S : status[j] \in {"completed", "failed"}
  PROVE  Lease!Remove(S)
<1>1. \A k \in Jobs : HolderOf(k)' = HolderOf(k)
  BY StepHolders DEF Delete, worker, Owns
<1>2. \A k \in Jobs : PhaseOf(k)' = IF k \in S THEN "removed" ELSE PhaseOf(k)
  BY DEF Delete, PhaseOf, IInv, TypeOK, Status
<1>3. \A k \in S : PhaseOf(k) \in {"done", "dead"}
  BY DEF PhaseOf
<1> QED
  BY <1>1, <1>2, <1>3 DEF Lease!Remove, Lease!Move

\* fail_job's SELECT changes nothing the abstract lease can see.
LEMMA InvisibleStutters ==
  ASSUME IInv, IInv', UNCHANGED <<row, held, claim>>
  PROVE  UNCHANGED Lease!vars
<1>1. \A k \in Jobs : HolderOf(k)' = HolderOf(k)
  BY StepHolders DEF row, Owns
<1>2. \A k \in Jobs : PhaseOf(k)' = PhaseOf(k)
  BY DEF row, PhaseOf
<1> QED
  BY <1>1, <1>2 DEF Lease!vars

\* Every step of the queue is one of its abstraction, or none.
LEMMA NextLease == IInv /\ IInv' /\ [Next]_vars => [Lease!Next]_(Lease!vars)
<1> SUFFICES ASSUME IInv, IInv', [Next]_vars PROVE [Lease!Next]_(Lease!vars)
  OBVIOUS
<1>1. ASSUME NEW j \in Jobs, EnqueueJob(j) PROVE Lease!Next
  BY <1>1, EnqueueSubmits DEF Lease!Next
<1>2. ASSUME NEW w \in Workers, NEW q \in Queues, ClaimJobs(w, q) PROVE Lease!Next
  BY <1>2, ClaimTakesBatch, ClaimGrants DEF Lease!Next
<1>3. ASSUME NEW w \in Workers, NEW j \in Jobs, NEW s \in {"pending", "completed", "failed"},
             Owns(w, j), Settle(j, s), Forget(w, j)
      PROVE  Lease!Next
  BY <1>3, SettleSettles DEF Lease!Next
<1>4. ASSUME NEW w \in Workers, NEW S \in SUBSET Jobs, UNCHANGED row,
             held' = [held EXCEPT ![w] = @ \ S],
             claim' = [claim EXCEPT ![w] = IF held[w] \ S = {} THEN NoToken ELSE @]
      PROVE  Lease!Next
  <2>1. Lease!Lose({k \in S : Owns(w, k)})
    BY <1>4, ForgettingLoses
  <2> QED
    BY <2>1 DEF Lease!Next
<1>5. ASSUME NEW w \in Workers, NEW j \in Jobs, ScreenCorrupt(w, j) PROVE Lease!Next
  <2>1. CASE Owns(w, j) /\ Settle(j, "failed")
    BY <1>3, <1>5, <2>1 DEF ScreenCorrupt
  <2>2. CASE UNCHANGED row
    BY <1>4, <1>5, <2>2 DEF ScreenCorrupt, Forget
  <2> QED
    BY <1>5, <2>1, <2>2 DEF ScreenCorrupt
<1>6. ASSUME NEW w \in Workers, NEW j \in Jobs, CompleteJob(w, j) PROVE Lease!Next
  BY <1>3, <1>6 DEF CompleteJob
<1>7. ASSUME NEW w \in Workers, NEW j \in Jobs, FailJobRead(w, j)
      PROVE  UNCHANGED Lease!vars
  BY <1>7, InvisibleStutters DEF FailJobRead
<1>8. ASSUME NEW w \in Workers, FailJobWrite(w) PROVE Lease!Next
  <2>1. failing[w] \in Jobs /\ verdict[w] \in {"pending", "failed"}
    BY <1>8 DEF FailJobWrite, IInv, TypeOK
  <2> QED
    BY <1>3, <1>8, <2>1 DEF FailJobWrite
<1>9. ASSUME NEW w \in Workers, UNCHANGED row, DropBatch(w) PROVE Lease!Next
  <2>1. held[w] \in SUBSET Jobs
    BY DEF IInv, TypeOK
  <2>2. /\ held' = [held EXCEPT ![w] = @ \ held[w]]
        /\ claim' = [claim EXCEPT ![w] = IF held[w] \ held[w] = {} THEN NoToken ELSE @]
    BY <1>9 DEF DropBatch
  <2> QED
    BY <1>4, <1>9, <2>1, <2>2
<1>10. ASSUME NEW w \in Workers, LostLease(w) \/ Abort(w) PROVE Lease!Next
  BY <1>9, <1>10 DEF LostLease, Abort
<1>11. CASE Tick
  BY <1>11, TickLapses DEF Lease!Next
<1>12. CASE PurgeCompletedJobs \/ PurgePermanentlyFailedJobs
  <2>1. PICK S \in SUBSET Jobs :
          Delete(S) /\ \A j \in S : status[j] \in {"completed", "failed"}
    BY <1>12 DEF PurgeCompletedJobs, PurgePermanentlyFailedJobs
  <2> QED
    BY <2>1, DeleteRemoves DEF Lease!Next
<1>13. CASE UNCHANGED vars
  BY <1>13, InvisibleStutters DEF vars, worker
<1> QED
  BY <1>1, <1>2, <1>5, <1>6, <1>7, <1>8, <1>10, <1>11, <1>12, <1>13 DEF Next, Settling

\* The queue implements the abstract lease: no step of any number of workers,
\* timeouts, crashes and purges takes an unlapsed lease from its holder, lets
\* anyone else settle the job, or reopens a settled one.
THEOREM QueueImplementsLease == Spec => ImplementsJobLease
<1>1. IInv /\ IInv' /\ [Next]_vars => [Lease!Next]_(Lease!vars)
  BY NextLease
<1> QED
  BY InitLease, <1>1, SpecIInv, PTL DEF Spec, ImplementsJobLease, Lease!Spec
=============================================================================
