---------------------------- MODULE JobQueue ----------------------------
(***************************************************************************)
(* The cognition job queue: the SQLite table memory_jobs and the workers   *)
(* that lease rows of it (nexus-storage/src/repository.rs,                 *)
(* nexus-agent/src/job_processor.rs).                                      *)
(*                                                                         *)
(* Every action is one SQL statement, the unit SQLite makes atomic, or the *)
(* end of a worker's run.  A worker is any task that drains the queue: a   *)
(* supervisor's poller, a session-end dream, a nap, a deep dream, a CLI    *)
(* command; several run at once, in one process or in several.             *)
(*                                                                         *)
(* Data abstraction.  A job's identity, queue (namespace_id, job_type) and *)
(* priority never change, so they are constants of the job; so is whether  *)
(* its JSON columns parse.  A claim token embeds its lease owner, a clock  *)
(* reading and the process id; only its freshness matters, so a fresh      *)
(* token is one that no row and no worker still refers to.  Time appears   *)
(* as the seconds that remain of each lease.                               *)
(***************************************************************************)
EXTENDS Integers, FiniteSets

CONSTANTS
  Jobs,          \* rowids; AUTOINCREMENT never hands one out twice
  NoJob,         \* "no row"
  QueueOf,       \* QueueOf[j]: the (namespace, job type) of job j
  Priority,      \* Priority[j]: larger is claimed first
  Corrupt,       \* the jobs whose perspective or payload JSON does not parse
  Workers,       \* the tasks that claim jobs
  Token,         \* claim tokens
  NoToken,       \* claim_token IS NULL
  MaxAttempts,   \* MAX_JOB_ATTEMPTS
  AttemptCap,    \* bound: the attempts column saturates here
  LeaseTtl,      \* lease_ttl_secs
  BatchLimit,    \* max_job_batch
  MayOverrun,    \* may a worker's batch outlast its lease?
  MaxAborts      \* bound: how many runs may be cut short

ASSUME IdsAssumption    == NoJob \notin Jobs /\ NoToken \notin Token
ASSUME JobsAssumption   == /\ Corrupt \subseteq Jobs
                           /\ Priority \in [Jobs -> Int]
ASSUME BoundsAssumption == /\ MaxAttempts \in Nat \ {0}
                           /\ AttemptCap \in Nat /\ AttemptCap > MaxAttempts
                           /\ LeaseTtl \in Nat \ {0}
                           /\ BatchLimit \in Nat \ {0}
                           /\ MayOverrun \in BOOLEAN
                           /\ MaxAborts \in Nat

VARIABLES
  status,        \* status column; "absent" before INSERT, "purged" after DELETE
  token,         \* claim_token (and, with it, lease_owner)
  lease,         \* lease_expires_at - now, in seconds; NoLease for NULL
  attempts,      \* attempts column
  held,          \* held[w]: the jobs of w's batch it has still to settle
  claim,         \* claim[w]: the token of w's batch
  failing,       \* failing[w]: the job w is inside fail_job with, or NoJob
  verdict,       \* verdict[w]: the status fail_job is about to write
  aborts         \* runs cut short so far

row    == <<status, token, lease, attempts>>
worker == <<held, claim, failing, verdict>>
vars   == <<row, worker, aborts>>

Status   == {"absent", "pending", "running", "completed", "failed", "purged"}
Terminal == {"completed", "failed", "purged"}
Expired  == -1
NoLease  == -2

TypeOK ==
  /\ status   \in [Jobs -> Status]
  /\ token    \in [Jobs -> Token \cup {NoToken}]
  /\ lease    \in [Jobs -> NoLease .. LeaseTtl]
  /\ attempts \in [Jobs -> 0 .. AttemptCap]
  /\ held     \in [Workers -> SUBSET Jobs]
  /\ claim    \in [Workers -> Token \cup {NoToken}]
  /\ failing  \in [Workers -> Jobs \cup {NoJob}]
  /\ verdict  \in [Workers -> {"pending", "failed"}]
  /\ aborts   \in 0 .. MaxAborts

Init ==
  /\ status   = [j \in Jobs |-> "absent"]
  /\ token    = [j \in Jobs |-> NoToken]
  /\ lease    = [j \in Jobs |-> NoLease]
  /\ attempts = [j \in Jobs |-> 0]
  /\ held     = [w \in Workers |-> {}]
  /\ claim    = [w \in Workers |-> NoToken]
  /\ failing  = [w \in Workers |-> NoJob]
  /\ verdict  = [w \in Workers |-> "pending"]
  /\ aborts   = 0

-----------------------------------------------------------------------------
(* Helpers *)

\* (bug) the settling UPDATEs match on the id alone.
BugOwnsById(w, j) == j \in held[w]

\* The guard of every settling UPDATE: id, lease_owner and claim_token match.
\* Neither the status nor the lease's expiry is part of it.
Owns(w, j) == j \in held[w] /\ claim[w] # NoToken /\ token[j] = claim[w]

\* (bug) a lease counts as lapsed in its last second already.
BugClaimableEarly(j) == \/ status[j] = "pending"
                        \/ status[j] = "running" /\ lease[j] # NoLease /\ lease[j] <= 0

\* (bug) rows left RUNNING by a run that was cut short are not recovered.
BugClaimablePendingOnly(j) == status[j] = "pending"

\* The WHERE clause of claim_jobs: pending, or running with a lapsed lease
\* (lease_expires_at < now, strictly).
Claimable(j) == \/ status[j] = "pending"
                \/ status[j] = "running" /\ lease[j] # NoLease /\ lease[j] < 0

Candidates(q) == {j \in Jobs : QueueOf[j] = q /\ Claimable(j)}

\* ORDER BY priority DESC, created_at ASC LIMIT: S is a prefix of that order.
\* Rows of equal priority may come in any order (created_at has one-second
\* granularity).
Prefix(S, C) ==
  /\ S \subseteq C
  /\ Cardinality(S) <= BatchLimit
  /\ \A j \in S, k \in C \ S : Priority[j] >= Priority[k]
  /\ S # C => Cardinality(S) = BatchLimit

\* (bug) the token is the lease owner's name alone and comes back.
BugFreshTokenReused(t) == t \in Token

FreshToken(t) == /\ \A j \in Jobs : token[j] # t
                 /\ \A w \in Workers : claim[w] # t

Idle(w) == held[w] = {} /\ failing[w] = NoJob

\* claim_jobs first screens the batch for corrupt rows; only then does the
\* caller see the jobs, which it works through from the highest priority.
Current(w, j) == /\ failing[w] = NoJob
                 /\ j \in held[w]
                 /\ held[w] \cap Corrupt = {}
                 /\ \A k \in held[w] : Priority[j] >= Priority[k]

\* UPDATE ... SET status = s, and NULL the three lease columns.
Settle(j, s) ==
  /\ status' = [status EXCEPT ![j] = s]
  /\ token'  = [token EXCEPT ![j] = NoToken]
  /\ lease'  = [lease EXCEPT ![j] = NoLease]
  /\ UNCHANGED attempts

\* The worker is done with j; the claim's token dies with its last job.
Forget(w, j) ==
  /\ held'    = [held EXCEPT ![w] = @ \ {j}]
  /\ claim'   = [claim EXCEPT ![w] = IF held[w] \ {j} = {} THEN NoToken ELSE @]
  /\ failing' = [failing EXCEPT ![w] = NoJob]
  /\ verdict' = [verdict EXCEPT ![w] = "pending"]

\* An error that `?` carries out of the drain, a timeout that drops its
\* future, a killed process: the batch is forgotten, its rows stay RUNNING.
DropBatch(w) ==
  /\ held'    = [held EXCEPT ![w] = {}]
  /\ claim'   = [claim EXCEPT ![w] = NoToken]
  /\ failing' = [failing EXCEPT ![w] = NoJob]
  /\ verdict' = [verdict EXCEPT ![w] = "pending"]

-----------------------------------------------------------------------------
(* Producers *)

EnqueueJob(j) ==
  /\ status[j] = "absent"
  /\ status' = [status EXCEPT ![j] = "pending"]
  /\ UNCHANGED <<token, lease, attempts, worker, aborts>>

-----------------------------------------------------------------------------
(* Workers *)

\* One UPDATE ... RETURNING takes the whole batch under one token.
ClaimJobs(w, q) ==
  /\ Idle(w)
  /\ \E S \in SUBSET Candidates(q), t \in Token :
       /\ S # {}
       /\ Prefix(S, Candidates(q))
       /\ FreshToken(t)
       /\ status'   = [j \in Jobs |-> IF j \in S THEN "running" ELSE status[j]]
       /\ token'    = [j \in Jobs |-> IF j \in S THEN t ELSE token[j]]
       /\ lease'    = [j \in Jobs |-> IF j \in S THEN LeaseTtl ELSE lease[j]]
       /\ attempts' = [j \in Jobs |-> IF j \in S /\ attempts[j] < AttemptCap
                                        THEN attempts[j] + 1 ELSE attempts[j]]
       /\ held'     = [held EXCEPT ![w] = S]
       /\ claim'    = [claim EXCEPT ![w] = t]
  /\ UNCHANGED <<failing, verdict, aborts>>

\* permanently_fail_job: guarded like the others, but a lost lease or a
\* storage error is ignored and the row is skipped either way.
ScreenCorrupt(w, j) ==
  /\ j \in held[w] \cap Corrupt
  /\ \/ Owns(w, j) /\ Settle(j, "failed") /\ UNCHANGED aborts
     \/ ~Owns(w, j) /\ UNCHANGED <<row, aborts>>
     \/ aborts < MaxAborts /\ aborts' = aborts + 1 /\ UNCHANGED row
  /\ Forget(w, j)

\* The work succeeded: complete_job.
CompleteJob(w, j) ==
  /\ Current(w, j)
  /\ Owns(w, j)
  /\ Settle(j, "completed")
  /\ Forget(w, j)
  /\ UNCHANGED aborts

\* (bug) one retry too many.
BugFailJobReadLate(w, j) ==
  /\ Current(w, j)
  /\ Owns(w, j)
  /\ failing' = [failing EXCEPT ![w] = j]
  /\ verdict' = [verdict EXCEPT ![w] =
                   IF attempts[j] > MaxAttempts THEN "failed" ELSE "pending"]
  /\ UNCHANGED <<row, held, claim, aborts>>

\* The work failed: the SELECT of fail_job reads the row and decides.
FailJobRead(w, j) ==
  /\ Current(w, j)
  /\ Owns(w, j)
  /\ failing' = [failing EXCEPT ![w] = j]
  /\ verdict' = [verdict EXCEPT ![w] =
                   IF attempts[j] >= MaxAttempts THEN "failed" ELSE "pending"]
  /\ UNCHANGED <<row, held, claim, aborts>>

\* ... and its UPDATE, a second statement, writes what was decided.
FailJobWrite(w) ==
  /\ failing[w] # NoJob
  /\ Owns(w, failing[w])
  /\ Settle(failing[w], verdict[w])
  /\ Forget(w, failing[w])
  /\ UNCHANGED aborts

\* complete_job or either half of fail_job finds another token (or no row):
\* "lost lease ownership" aborts the drain with the rest of the batch.
LostLease(w) ==
  /\ \/ failing[w] # NoJob /\ ~Owns(w, failing[w])
     \/ \E j \in Jobs : Current(w, j) /\ ~Owns(w, j)
  /\ DropBatch(w)
  /\ UNCHANGED <<row, aborts>>

\* The run is cut short between two statements.
Abort(w) ==
  /\ ~Idle(w)
  /\ aborts < MaxAborts
  /\ aborts' = aborts + 1
  /\ DropBatch(w)
  /\ UNCHANGED row

-----------------------------------------------------------------------------
(* Time and maintenance *)

\* (bug) lapsed and NULL leases are counted down as well.
BugTickBelowNull ==
  /\ \E j \in Jobs : lease[j] >= 0
  /\ lease' = [j \in Jobs |-> lease[j] - 1]
  /\ UNCHANGED <<status, token, attempts, worker, aborts>>

\* One second passes.  Without MayOverrun a worker settles its jobs before
\* their lease lapses, or has been cut short.
Tick ==
  /\ \E j \in Jobs : lease[j] >= 0
  /\ MayOverrun \/ \A w \in Workers, j \in Jobs : Owns(w, j) => lease[j] > 0
  /\ lease' = [j \in Jobs |-> IF lease[j] >= 0 THEN lease[j] - 1 ELSE lease[j]]
  /\ UNCHANGED <<status, token, attempts, worker, aborts>>

\* The DELETEs of old rows: completed ones, and failed ones that used up
\* their attempts.  "Old" is any row the cutoff happens to cover.
Delete(S) ==
  /\ status'   = [j \in Jobs |-> IF j \in S THEN "purged" ELSE status[j]]
  /\ UNCHANGED <<token, lease, attempts, worker, aborts>>

PurgeCompletedJobs ==
  \E S \in SUBSET {j \in Jobs : status[j] = "completed"} : S # {} /\ Delete(S)

PurgePermanentlyFailedJobs ==
  \E S \in SUBSET {j \in Jobs : status[j] = "failed" /\ attempts[j] >= MaxAttempts} :
    S # {} /\ Delete(S)

-----------------------------------------------------------------------------

Queues == {QueueOf[j] : j \in Jobs}

Settling(w) == \/ \E j \in Jobs : \/ ScreenCorrupt(w, j)
                                  \/ CompleteJob(w, j)
                                  \/ FailJobRead(w, j)
               \/ FailJobWrite(w)
               \/ LostLease(w)

Next ==
  \/ \E j \in Jobs : EnqueueJob(j)
  \/ \E w \in Workers, q \in Queues : ClaimJobs(w, q)
  \/ \E w \in Workers : Settling(w) \/ Abort(w)
  \/ Tick
  \/ PurgeCompletedJobs
  \/ PurgePermanentlyFailedJobs

Spec == Init /\ [][Next]_vars

\* Every drain pass visits each queue in turn, a worker carries its batch on
\* until something cuts it short, and clocks advance.
Fairness ==
  /\ \A q \in Queues : SF_vars(\E w \in Workers : ClaimJobs(w, q))
  /\ \A w \in Workers : WF_vars(Settling(w))
  /\ WF_vars(Tick)

FairSpec == Spec /\ Fairness

-----------------------------------------------------------------------------
(* Properties *)

\* However many workers still believe they lease a job, the table honours at
\* most one of them: only one claim matches the row's current token.
SingleHolder ==
  \A w1, w2 \in Workers, j \in Jobs : Owns(w1, j) /\ Owns(w2, j) => w1 = w2

\* fail_job reads the attempts in one statement and writes its decision in
\* another.  Whenever that UPDATE would still be accepted, the decision is the
\* one the row's present attempts call for.
RetryDecisionFresh ==
  \A w \in Workers :
    failing[w] # NoJob /\ Owns(w, failing[w]) =>
      (verdict[w] = "failed" <=> attempts[failing[w]] >= MaxAttempts)

\* A job that failed for good has used up its attempts, unless its JSON is
\* corrupt; a job that waits to be retried has some left, whichever worker
\* gave it back and however long ago that worker read the row.
RetryBudget ==
  \A j \in Jobs :
    /\ status[j] = "failed" /\ j \notin Corrupt => attempts[j] >= MaxAttempts
    /\ status[j] = "pending" => attempts[j] < MaxAttempts

\* When every batch is settled before its lease lapses, no job is ever in the
\* batches of two workers at once: its work is not done twice in parallel.
ExclusiveWork ==
  \A w1, w2 \in Workers, j \in Jobs :
    j \in held[w1] \cap held[w2] => w1 = w2

\* Under the fairness of the pollers, and with finitely many runs cut short,
\* every job put in the queue is completed or failed in the end, the jobs of
\* killed workers and the corrupt ones included.
EventuallySettled == \A j \in Jobs : status[j] = "pending" ~> status[j] \in Terminal

\* repository.rs:100, "Maximum number of retry attempts before a job is
\* permanently failed": no job is attempted more often than MAX_JOB_ATTEMPTS.
AttemptsLimited == \A j \in Jobs : attempts[j] <= MaxAttempts

\* The queue implements the abstract lease: a row's lease columns and the
\* workers' claims together give a job's phase and its one holder.
PhaseOf(j) == CASE status[j] = "absent"    -> "absent"
                [] status[j] = "pending"   -> "open"
                [] status[j] = "running"   -> IF lease[j] >= 0 THEN "leased" ELSE "lapsed"
                [] status[j] = "completed" -> "done"
                [] status[j] = "failed"    -> "dead"
                [] status[j] = "purged"    -> "removed"

HolderOf(j) == IF \E w \in Workers : Owns(w, j)
                 THEN CHOOSE w \in Workers : Owns(w, j) ELSE NoJob

Lease == INSTANCE JobLease WITH phase  <- [j \in Jobs |-> PhaseOf(j)],
                                holder <- [j \in Jobs |-> HolderOf(j)],
                                Nobody <- NoJob

\* A lease that has not lapsed is never taken from its holder, only the
\* present holder settles a job, and a settled job is never reopened.
ImplementsJobLease == Lease!Spec
=============================================================================
