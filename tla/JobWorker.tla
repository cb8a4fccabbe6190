---------------------------- MODULE JobWorker ----------------------------
(***************************************************************************)
(* The loop every process_*_jobs function of nexus-agent runs: claim a     *)
(* batch, work through it, complete or fail each job, and leave with the   *)
(* first error.  The jobs are those of JobLease; what the work is, the     *)
(* modules that instantiate this one say.  Jobs are numbered in the order  *)
(* they were enqueued.                                                     *)
(***************************************************************************)
EXTENDS Naturals, FiniteSets

CONSTANTS
  Jobs, Workers, Nobody,
  BatchSize,     \* max_job_batch
  MayOverrun     \* may a worker's batch outlast its lease?

VARIABLES
  phase, holder, \* the jobs, as JobLease sees them
  pc,            \* pc[w]: where worker w stands
  batch          \* batch[w]: claimed jobs w has not settled, lowest first

vars == <<phase, holder, pc, batch>>

Queue == INSTANCE JobLease

TypeOK(Point) ==
  /\ phase  \in [Jobs -> Queue!Phase]
  /\ holder \in [Jobs -> Workers \cup {Nobody}]
  /\ pc     \in [Workers -> Point \cup {"idle"}]
  /\ batch  \in [Workers -> SUBSET Jobs]

Init ==
  /\ Queue!Init
  /\ pc    = [w \in Workers |-> "idle"]
  /\ batch = [w \in Workers |-> {}]

Goto(w, p) == pc' = [pc EXCEPT ![w] = p]

\* The worker moves on; jobs and batches stay as they are.
Step(w, from, to) ==
  /\ pc[w] \in from
  /\ Goto(w, to)
  /\ UNCHANGED <<phase, holder, batch>>

Submit(j) == Queue!Submit(j) /\ UNCHANGED <<pc, batch>>

Ready == {j \in Jobs : phase[j] \in {"open", "lapsed"}}

\* claim_jobs: a prefix of what is ready, oldest first.
Claim(w, start) ==
  /\ pc[w] = "idle"
  /\ LET S == {j \in Ready : Cardinality({k \in Ready : k < j}) < BatchSize}
     IN  /\ S # {}
         /\ Queue!Grant(w, S)
         /\ batch' = [batch EXCEPT ![w] = S]
  /\ Goto(w, start)

First(w) == CHOOSE j \in batch[w] : \A k \in batch[w] : j <= k

\* complete_job or fail_job for the first job; then the next of the batch.
Settle(w, outcomes, next) ==
  /\ \E p \in outcomes : Queue!Settle(w, First(w), p)
  /\ batch' = [batch EXCEPT ![w] = @ \ {First(w)}]
  /\ Goto(w, IF batch[w] = {First(w)} THEN "idle" ELSE next)

\* The worker is gone, with what it held: the jobs stay leased until they lapse.
Leave(w) ==
  /\ pc[w] # "idle"
  /\ Queue!Lose({j \in Jobs : holder[j] = w})
  /\ batch' = [batch EXCEPT ![w] = {}]
  /\ Goto(w, "idle")

\* "lost lease ownership": the error ends the drain.
LostLease(w) ==
  /\ holder[First(w)] # w
  /\ Leave(w)

Lapse(S) ==
  /\ S # {} /\ \A j \in S : phase[j] = "leased"
  /\ MayOverrun \/ \A j \in S : holder[j] = Nobody
  /\ Queue!Lapse(S)
  /\ UNCHANGED <<pc, batch>>
=============================================================================
