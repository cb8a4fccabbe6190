----------------------- MODULE SessionDigestProofs -----------------------
(***************************************************************************)
(* Proofs about SessionDigest for any jobs, workers, thresholds and bounds.*)
(*                                                                         *)
(* None of the properties is inductive: a digest job is completed on the   *)
(* word of a worker that looked at the digests some statements ago.  The   *)
(* inductive invariant says what a worker may rely on at each of its       *)
(* points, and that a short digest without a long one is being completed,  *)
(* unless a run was cut short.                                             *)
(***************************************************************************)
EXTENDS SessionDigest, TLAPS

\* What a worker knows where it stands: its group has a forced job only past
\* the threshold's shortcut, its window has an end, the short digest of the
\* window is there before the long one, and it succeeds on what is there.
WorkersKnow ==
  \A w \in Workers :
    /\ pc[w] = "threshold" => batch[w] \cap Forced = {}
    /\ pc[w] \in {"short", "long"} => end[w] \in 1 .. MaxMemories
    /\ pc[w] = "long" => end[w] \in digests["short"]
    /\ pc[w] = "succeed" => digests["short"] # {}
    /\ pc[w] = "succeed" /\ batch[w] \cap Forced # {} => digests["long"] # {}

\* A short digest is followed by the long one, if runs are not cut short.
PairPending ==
  aborts = 0 /\ digests["short"] # {} =>
    digests["long"] # {} \/ \E w \in Workers : pc[w] = "long"

IInv == /\ TypeOK
        /\ WorkersKnow
        /\ DoneIsDigested
        /\ LongHasShort
        /\ ForcedHasBoth
        /\ PairPending

\* The invariant holds before the first digest.
LEMMA InitIInv == Init => IInv
  BY DigestAssumption
     DEF Init, Queue!Init, IInv, TypeOK, WorkersKnow, DoneIsDigested, LongHasShort,
         ForcedHasBoth, PairPending, Kind, Point, Queue!Phase

\* Types.  A registered window has an end, which is why this needs more than
\* the types themselves.
LEMMA NextTypeOK == TypeOK /\ WorkersKnow /\ [Next]_vars => TypeOK'
<1> SUFFICES ASSUME TypeOK, WorkersKnow, [Next]_vars PROVE TypeOK'
  OBVIOUS
<1> USE DigestAssumption DEF TypeOK, Point, Kind, Queue!Phase
<1>1. CASE AddMemory
  BY <1>1 DEF AddMemory, queue, worker
<1>2. ASSUME NEW j \in Jobs, EnqueueDigestJob(j) PROVE TypeOK'
  BY <1>2 DEF EnqueueDigestJob, Queue!Submit, Queue!Move, worker
<1>3. ASSUME NEW w \in Workers, ClaimDigestJobs(w) PROVE TypeOK'
  BY <1>3 DEF ClaimDigestJobs, Queue!Grant, Queue!Move, Queue!Give, Goto
<1>4. ASSUME NEW w \in Workers, CheckThreshold(w) PROVE TypeOK'
  BY <1>4 DEF CheckThreshold, Goto, queue
<1>5. ASSUME NEW w \in Workers, FindExisting(w) PROVE TypeOK'
  BY <1>5 DEF FindExisting, Goto, queue
<1>6. ASSUME NEW w \in Workers, Gather(w) PROVE TypeOK'
  BY <1>6 DEF Gather, Goto, queue
<1>7. ASSUME NEW w \in Workers, RegisterShort(w) PROVE TypeOK'
  BY <1>7 DEF RegisterShort, Register, Goto, queue, WorkersKnow
<1>8. ASSUME NEW w \in Workers, RegisterLong(w) PROVE TypeOK'
  BY <1>8 DEF RegisterLong, Register, Goto, queue, WorkersKnow
<1>9. ASSUME NEW w \in Workers, SettleJob(w) PROVE TypeOK'
  BY <1>9 DEF SettleJob, Queue!Settle, Queue!Move, Queue!Give, Goto
<1>10. ASSUME NEW w \in Workers, LostLease(w) PROVE TypeOK'
  BY <1>10 DEF LostLease, Leave, Queue!Lose, Queue!Give, Goto
<1>11. ASSUME NEW w \in Workers, Abort(w) PROVE TypeOK'
  BY <1>11 DEF Abort, Leave, Queue!Lose, Queue!Give, Goto
<1>12. CASE LapseLeases
  BY <1>12 DEF LapseLeases, Queue!Lapse, Queue!Move, worker
<1>13. CASE UNCHANGED vars
  BY <1>13 DEF vars, queue, worker
<1> QED
  BY <1>1, <1>2, <1>3, <1>4, <1>5, <1>6, <1>7, <1>8, <1>9, <1>10, <1>11, <1>12, <1>13
     DEF Next, Proceed

\* What a settled job was settled on.
LEMMA SettlesOnItsWord ==
  ASSUME TypeOK, NEW w \in Workers, SettleJob(w)
  PROVE  \E j \in batch[w] :
           /\ \A k \in Jobs : k # j => phase'[k] = phase[k]
           /\ phase'[j] = "done" => pc[w] = "succeed"
           /\ batch' = [batch EXCEPT ![w] = @ \ {j}]
           /\ pc' = [pc EXCEPT ![w] = IF batch[w] = {j} THEN "idle" ELSE pc[w]]
           /\ end' = [end EXCEPT ![w] = 0]
<1>1. PICK j \in batch[w], p \in Outcome(w) :
        /\ Queue!Settle(w, j, p)
        /\ batch' = [batch EXCEPT ![w] = @ \ {j}]
        /\ Goto(w, IF batch[w] = {j} THEN "idle" ELSE pc[w])
        /\ end' = [end EXCEPT ![w] = 0]
  BY DEF SettleJob
<1>2. j \in Jobs
  BY DEF TypeOK
<1>3. p = "done" => pc[w] = "succeed"
  BY DEF Outcome
<1>4. phase' = [k \in Jobs |-> IF k \in {j} THEN p ELSE phase[k]]
  BY <1>1 DEF Queue!Settle, Queue!Move
<1> QED
  BY <1>1, <1>2, <1>3, <1>4 DEF Goto

Known == WorkersKnow /\ DoneIsDigested /\ LongHasShort /\ ForcedHasBoth /\ PairPending

\* Every step keeps what workers know of the digests, and their pairs complete or pending.
LEMMA NextKnown == TypeOK /\ Known /\ [Next]_vars => Known'
<1> SUFFICES ASSUME TypeOK, Known, [Next]_vars PROVE Known'
  OBVIOUS
<1> USE DigestAssumption
    DEF TypeOK, Known, WorkersKnow, DoneIsDigested, LongHasShort, ForcedHasBoth, PairPending,
        Point, Kind
<1>1. CASE AddMemory
  BY <1>1 DEF AddMemory, queue, worker
<1>2. ASSUME NEW j \in Jobs, EnqueueDigestJob(j) PROVE Known'
  BY <1>2 DEF EnqueueDigestJob, Queue!Submit, Queue!Move, worker
\* A group with a forced job does not start at the threshold.
<1>3. ASSUME NEW w \in Workers, ClaimDigestJobs(w) PROVE Known'
  <2>1. PICK S \in SUBSET Jobs :
          /\ Queue!Grant(w, S)
          /\ batch' = [batch EXCEPT ![w] = S]
          /\ Goto(w, IF ForceOf(S) THEN "existing" ELSE "threshold")
    BY <1>3 DEF ClaimDigestJobs
  <2>2. pc[w] = "idle" /\ UNCHANGED <<memories, digests, asked, end, aborts>>
    BY <1>3 DEF ClaimDigestJobs
  <2>3. \A j \in Jobs : phase'[j] = "done" => phase[j] = "done"
    BY <2>1 DEF Queue!Grant, Queue!Move
  <2>4. WorkersKnow'
    BY <2>1, <2>2 DEF Goto, ForceOf
  <2>5. DoneIsDigested' /\ LongHasShort' /\ ForcedHasBoth'
    BY <2>2, <2>3
  <2>6. PairPending'
    BY <2>1, <2>2 DEF Goto
  <2> QED
    BY <2>4, <2>5, <2>6
\* Below the threshold there is a digest, and so a short one.
<1>4. ASSUME NEW w \in Workers, CheckThreshold(w) PROVE Known'
  <2>1. pc[w] = "threshold" /\ pc' = [pc EXCEPT ![w] = pc'[w]]
    BY <1>4 DEF CheckThreshold, Goto
  <2>2. pc'[w] \in {"existing", "succeed"}
    BY <1>4 DEF CheckThreshold, Goto
  <2>3. pc'[w] = "succeed" => digests["short"] # {}
    BY <1>4 DEF CheckThreshold, Goto, ShouldRunIncrementalDigest
  <2>4. UNCHANGED <<queue, memories, digests, asked, batch, end, aborts>>
    BY <1>4 DEF CheckThreshold
  <2> QED
    BY <2>1, <2>2, <2>3, <2>4 DEF queue
<1>5. ASSUME NEW w \in Workers, FindExisting(w) PROVE Known'
  BY <1>5 DEF FindExisting, Goto, queue
<1>6. ASSUME NEW w \in Workers, Gather(w) PROVE Known'
  BY <1>6 DEF Gather, Goto, queue
<1>7. ASSUME NEW w \in Workers, RegisterShort(w) PROVE Known'
  BY <1>7 DEF RegisterShort, Register, Goto, queue
<1>8. ASSUME NEW w \in Workers, RegisterLong(w) PROVE Known'
  BY <1>8 DEF RegisterLong, Register, Goto, queue
\* A job becomes done only where its worker succeeds.
<1>9. ASSUME NEW w \in Workers, SettleJob(w) PROVE Known'
  <2>1. PICK j \in batch[w] :
           /\ \A k \in Jobs : k # j => phase'[k] = phase[k]
           /\ phase'[j] = "done" => pc[w] = "succeed"
           /\ batch' = [batch EXCEPT ![w] = @ \ {j}]
           /\ pc' = [pc EXCEPT ![w] = IF batch[w] = {j} THEN "idle" ELSE pc[w]]
           /\ end' = [end EXCEPT ![w] = 0]
    BY <1>9, SettlesOnItsWord
  <2>2. UNCHANGED <<memories, digests, asked, aborts>>
    BY <1>9 DEF SettleJob
  <2>3. pc[w] \in {"succeed", "fail"}
    BY <1>9 DEF SettleJob, Outcome
  <2>4. WorkersKnow'
    BY <2>1, <2>2, <2>3
  <2>5. DoneIsDigested' /\ LongHasShort' /\ ForcedHasBoth'
    BY <2>1, <2>2
  <2>6. PairPending'
    BY <2>1, <2>2, <2>3
  <2> QED
    BY <2>4, <2>5, <2>6
<1>10. ASSUME NEW w \in Workers, LostLease(w) PROVE Known'
  BY <1>10 DEF LostLease, Leave, Queue!Lose, Goto
<1>11. ASSUME NEW w \in Workers, Abort(w) PROVE Known'
  BY <1>11 DEF Abort, Leave, Queue!Lose, Goto
<1>12. CASE LapseLeases
  BY <1>12 DEF LapseLeases, Queue!Lapse, Queue!Move, worker
<1>13. CASE UNCHANGED vars
  BY <1>13 DEF vars, queue, worker
<1> QED
  BY <1>1, <1>2, <1>3, <1>4, <1>5, <1>6, <1>7, <1>8, <1>9, <1>10, <1>11, <1>12, <1>13
     DEF Next, Proceed

\* The invariant holds in every state.
LEMMA IInvHolds == Spec => []IInv
<1>1. IInv /\ [Next]_vars => IInv'
  BY NextTypeOK, NextKnown DEF IInv, Known
<1> QED
  BY InitIInv, <1>1, PTL DEF Spec

-----------------------------------------------------------------------------

\* The types of the digests' model hold in every reachable state.
THEOREM TypeCorrect == Spec => []TypeOK
<1>1. IInv => TypeOK
  BY DEF IInv
<1> QED
  BY IInvHolds, <1>1, PTL

\* Whatever is cut short, overtaken or skipped as below the threshold, a job of
\* the session is completed (process_digest_jobs) only when the short digest is
\* registered.
THEOREM DoneIsDigestedHolds == Spec => []DoneIsDigested
<1>1. IInv => DoneIsDigested
  BY DEF IInv
<1> QED
  BY IInvHolds, <1>1, PTL

\* digest_session registers a long digest only beside the short one of the
\* same window, however its workers overlap.
THEOREM LongHasShortHolds == Spec => []LongHasShort
<1>1. IInv => LongHasShort
  BY DEF IInv
<1> QED
  BY IInvHolds, <1>1, PTL

\* OR-ing the force flag over the group keeps a forced job from being completed
\* before both digests are there.
THEOREM ForcedHasBothHolds == Spec => []ForcedHasBoth
<1>1. IInv => ForcedHasBoth
  BY DEF IInv
<1> QED
  BY IInvHolds, <1>1, PTL

\* Half a pair is left only by a run that was cut short: with none, digests come
\* in pairs once the session is quiet, although leases may be outlasted and
\* taken over.
THEOREM QuietHasPairsHolds ==
  ASSUME MaxAborts = 0 PROVE Spec => []QuietHasPairs
<1>1. IInv => QuietHasPairs
  BY DEF IInv, TypeOK, PairPending, LongHasShort, QuietHasPairs, Quiet
<1> QED
  BY IInvHolds, <1>1, PTL
=============================================================================
