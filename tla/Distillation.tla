-------------------------- MODULE Distillation --------------------------
(***************************************************************************)
(* Raw hook events of one session and their way into summaries.  A hook    *)
(* stores an event and then asks for an activity_distill job               *)
(* (nexus-cli/src/commands/ingest_hook_event.rs); workers claim the jobs   *)
(* and summarise the session (nexus-agent/src/distill.rs); `nexus distill` *)
(* does the same by hand, without a lease (nexus-cli/src/commands/         *)
(* distill.rs); `nexus clean` deletes what has been archived (clean.rs).   *)
(*                                                                         *)
(* Memories of the session are numbered in the order they were created.    *)
(* The job of event m is job m of JobWorker.  A storage error, a killed    *)
(* process or a dropped future is a fault; the answer of the language      *)
(* model never is one, since a failed call falls back to a summary made    *)
(* without it.  No foreign key ties memory_evidence to memories: evidence  *)
(* may name a memory that is gone.  Summaries are neither archived nor     *)
(* deleted, and no more memories are listed by `nexus distill` than its    *)
(* query's limit of twenty batches.                                        *)
(***************************************************************************)
EXTENDS Naturals, FiniteSets

CONSTANTS
  Workers, Nobody,
  MinEvents,     \* activity_distill_min_events
  MaxEvents,     \* activity_distill_max_events
  HandMin,       \* the threshold of `nexus distill`, 3
  BatchSize,     \* max_job_batch
  MaxMemories,   \* bound: memories of the session, summaries included
  MayOverrun,    \* may a worker's batch outlast its lease?
  MaxFaults      \* bound: how many faults happen

ASSUME DistillAssumption ==
  /\ Nobody \notin Workers /\ IsFiniteSet(Workers)
  /\ MinEvents \in Nat \ {0} /\ MaxEvents \in Nat \ {0}
  /\ HandMin \in Nat \ {0} /\ BatchSize \in Nat \ {0}
  /\ MaxMemories \in Nat /\ MaxFaults \in Nat /\ MayOverrun \in BOOLEAN

Ids == 1 .. MaxMemories

VARIABLES
  phase, holder, pc, batch, \* the activity_distill jobs and their workers
  kind,          \* kind[m]: what memory m is
  state,         \* state[m]: is_active, is_archived or deleted
  mark,          \* mark[m]: the summary_memory_id that archived m, 0 when none
  evidence,      \* evidence[s]: the sources memory_evidence records for summary s
  owed,          \* events stored by a hook that has not asked for the job yet
  lost,          \* history: events whose job was never asked for
  listed,        \* listed[w]: the events worker w has read
  picked,        \* the events `nexus distill` has read
  doomed,        \* what `nexus clean` has listed for deletion
  faults

queue    == <<phase, holder, pc, batch>>
memories == <<kind, state, mark, evidence>>
hooks    == <<owed, lost>>
vars     == <<queue, memories, hooks, listed, picked, doomed, faults>>

Worker == INSTANCE JobWorker WITH Jobs <- Ids

Kind  == {"none", "event", "other", "summary"}
State == {"absent", "active", "archived", "deleted"}
Point == {"list", "store", "done", "failed", "rest"}

TypeOK ==
  /\ Worker!TypeOK(Point)
  /\ kind     \in [Ids -> Kind]
  /\ state    \in [Ids -> State]
  /\ mark     \in [Ids -> Ids \cup {0}]
  /\ evidence \in [Ids -> SUBSET Ids]
  /\ owed \in SUBSET Ids /\ lost \in SUBSET Ids /\ doomed \in SUBSET Ids
  /\ listed   \in [Workers -> SUBSET Ids] /\ picked \in SUBSET Ids
  /\ faults   \in 0 .. MaxFaults

Init ==
  /\ Worker!Init
  /\ kind     = [m \in Ids |-> "none"]
  /\ state    = [m \in Ids |-> "absent"]
  /\ mark     = [m \in Ids |-> 0]
  /\ evidence = [m \in Ids |-> {}]
  /\ owed = {} /\ lost = {} /\ doomed = {}
  /\ listed   = [w \in Workers |-> {}] /\ picked = {}
  /\ faults   = 0

Fault == faults < MaxFaults /\ faults' = faults + 1

\* AUTOINCREMENT: m is the id the next INSERT INTO memories assigns.
IsNext(m) == /\ kind[m] = "none"
             /\ \A k \in Ids : k < m => kind[k] # "none"

Insert(m, k) == kind' = [kind EXCEPT ![m] = k]

-----------------------------------------------------------------------------
(* Hooks *)

\* store_raw_activity_memory stores the event ...
StoreEvent(m) ==
  /\ IsNext(m)
  /\ Insert(m, "event")
  /\ state' = [state EXCEPT ![m] = "active"]
  /\ owed' = owed \cup {m}
  /\ UNCHANGED <<queue, mark, evidence, lost, listed, picked, doomed, faults>>

\* ... and, in another transaction, enqueues its job.
EnqueueDistillJob(m) ==
  /\ m \in owed
  /\ Worker!Submit(m)
  /\ owed' = owed \ {m}
  /\ UNCHANGED <<memories, lost, listed, picked, doomed, faults>>

\* The hook's process dies, or the second statement fails.
HookDies(m) ==
  /\ m \in owed
  /\ Fault
  /\ owed' = owed \ {m}
  /\ lost' = lost \cup {m}
  /\ UNCHANGED <<queue, memories, listed, picked, doomed>>

\* Other memories of the session: enriched candidates, observations, digests.
StoreOther(m) ==
  /\ IsNext(m)
  /\ Insert(m, "other")
  /\ state' = [state EXCEPT ![m] = "active"]
  /\ UNCHANGED <<queue, mark, evidence, hooks, listed, picked, doomed, faults>>

-----------------------------------------------------------------------------
(* Listing and storing, which the workers and the command share *)

Active == {m \in Ids : state[m] = "active"}
Newest(S, n) == {m \in S : Cardinality({k \in S : k > m}) < n}
Events(S) == {m \in S : kind[m] = "event"}

\* (bug) the sources are archived, but only those still active become evidence.
BugStoreSummary(s, S) ==
  /\ IsNext(s)
  /\ Insert(s, "summary")
  /\ state' = [m \in Ids |-> IF m = s THEN "active"
                             ELSE IF m \in S /\ state[m] # "deleted" THEN "archived"
                             ELSE state[m]]
  /\ mark' = [m \in Ids |-> IF m \in S /\ state[m] # "deleted" THEN s ELSE mark[m]]
  /\ evidence' = [evidence EXCEPT ![s] = S \cap Active]

\* store_distilled_summary, one transaction: the summary, a row of evidence
\* for every source, and an UPDATE of the sources that still exist.
StoreSummary(s, S) ==
  /\ IsNext(s)
  /\ Insert(s, "summary")
  /\ state' = [m \in Ids |-> IF m = s THEN "active"
                             ELSE IF m \in S /\ state[m] # "deleted" THEN "archived"
                             ELSE state[m]]
  /\ mark' = [m \in Ids |-> IF m \in S /\ state[m] # "deleted" THEN s ELSE mark[m]]
  /\ evidence' = [evidence EXCEPT ![s] = S]

-----------------------------------------------------------------------------
(* process_activity_distill_jobs *)

ClaimDistillJobs(w) ==
  /\ Worker!Claim(w, "list")
  /\ UNCHANGED <<memories, hooks, listed, picked, doomed, faults>>

\* (bug) one event too many is asked for.
BugListEvents(w) ==
  LET found == Events(Newest(Active, MaxEvents))
  IN  /\ Worker!Step(w, {"list"}, IF Cardinality(found) <= MinEvents THEN "done" ELSE "store")
      /\ listed' = [listed EXCEPT ![w] = found]
      /\ UNCHANGED <<memories, hooks, picked, doomed, faults>>

\* The first job of the session in the batch: list_by_session_key takes the
\* newest active memories of any kind, and of those the pending events count.
ListEvents(w) ==
  LET found == Events(Newest(Active, MaxEvents))
  IN  /\ Worker!Step(w, {"list"}, IF Cardinality(found) < MinEvents THEN "done" ELSE "store")
      /\ listed' = [listed EXCEPT ![w] = found]
      /\ UNCHANGED <<memories, hooks, picked, doomed, faults>>

DistillSession(w) ==
  /\ Worker!Step(w, {"store"}, "done")
  /\ \E s \in Ids : StoreSummary(s, listed[w])
  /\ listed' = [listed EXCEPT ![w] = {}]
  /\ UNCHANGED <<hooks, picked, doomed, faults>>

\* distill_raw_activity_session returns a storage error.
DistillFails(w) ==
  /\ Worker!Step(w, {"list", "store"}, "failed")
  /\ listed' = [listed EXCEPT ![w] = {}]
  /\ Fault
  /\ UNCHANGED <<memories, hooks, picked, doomed>>

\* The first job is completed or failed, the others of the session completed.
Outcome(w) == CASE pc[w] \in {"done", "rest"} -> {"done"}
                [] pc[w] = "failed"           -> {"open", "dead"}
                [] OTHER                      -> {}

SettleJob(w) ==
  /\ Worker!Settle(w, Outcome(w), "rest")
  /\ listed' = [listed EXCEPT ![w] = {}]
  /\ UNCHANGED <<memories, hooks, picked, doomed, faults>>

LostLease(w) ==
  /\ pc[w] \in {"done", "failed", "rest"}
  /\ Worker!LostLease(w)
  /\ listed' = [listed EXCEPT ![w] = {}]
  /\ UNCHANGED <<memories, hooks, picked, doomed, faults>>

Abort(w) ==
  /\ Worker!Leave(w)
  /\ listed' = [listed EXCEPT ![w] = {}]
  /\ Fault
  /\ UNCHANGED <<memories, hooks, picked, doomed>>

LapseLeases ==
  /\ \E S \in SUBSET Ids : Worker!Lapse(S)
  /\ UNCHANGED <<memories, hooks, listed, picked, doomed, faults>>

-----------------------------------------------------------------------------
(* nexus distill *)

\* Every active event of the session is listed; too few are skipped.
ListByHand ==
  /\ picked = {}
  /\ Cardinality(Events(Active)) >= HandMin
  /\ picked' = Events(Active)
  /\ UNCHANGED <<queue, memories, hooks, listed, doomed, faults>>

\* All of them become sources, also those beyond the batch the model is shown.
DistillByHand ==
  /\ picked # {}
  /\ \E s \in Ids : StoreSummary(s, picked)
  /\ picked' = {}
  /\ UNCHANGED <<queue, hooks, listed, doomed, faults>>

\* The model does not answer, the store fails, or the command is interrupted.
HandGivesUp ==
  /\ picked # {}
  /\ picked' = {}
  /\ UNCHANGED <<queue, memories, hooks, listed, doomed, faults>>

-----------------------------------------------------------------------------
(* nexus clean *)

\* list_archived_raw_cleanup_candidates
Candidates == {m \in Ids : /\ kind[m] = "event"
                           /\ state[m] = "archived"
                           /\ mark[m] # 0}

\* Older than a cutoff and within a limit: a prefix of the candidates.
ListForCleaning ==
  /\ doomed = {}
  /\ \E last \in Candidates : doomed' = {m \in Candidates : m <= last}
  /\ UNCHANGED <<queue, memories, hooks, listed, picked, faults>>

DeleteBatch ==
  /\ doomed # {}
  /\ state' = [m \in Ids |-> IF m \in doomed THEN "deleted" ELSE state[m]]
  /\ doomed' = {}
  /\ UNCHANGED <<queue, kind, mark, evidence, hooks, listed, picked, faults>>

-----------------------------------------------------------------------------

Proceed(w) == ListEvents(w) \/ DistillSession(w) \/ SettleJob(w) \/ LostLease(w)

Next ==
  \/ \E m \in Ids : StoreEvent(m) \/ EnqueueDistillJob(m) \/ HookDies(m) \/ StoreOther(m)
  \/ \E w \in Workers : ClaimDistillJobs(w) \/ Proceed(w) \/ DistillFails(w) \/ Abort(w)
  \/ LapseLeases
  \/ ListByHand \/ DistillByHand \/ HandGivesUp
  \/ ListForCleaning \/ DeleteBatch

Spec == Init /\ [][Next]_vars

-----------------------------------------------------------------------------
(* Properties *)

\* Whoever raced whom, an event has left the active memories exactly when some
\* summary has it as evidence, and its mark names such a summary: what `nexus
\* clean` then deletes can still be traced (distill.rs, clean.rs,
\* store_distilled_summary).
RetiredWithEvidence ==
  \A m \in Ids :
    /\ kind[m] = "event" =>
         (state[m] \in {"archived", "deleted"} <=> \E s \in Ids : m \in evidence[s])
    /\ mark[m] # 0 => m \in evidence[mark[m]] /\ kind[mark[m]] = "summary"

\* The jobs that n workers complete beyond the runs they make, and those that
\* failures leave to other runs, are no more than a distillation takes.  True of
\* the defaults (config.rs:158, :164, :165) for one worker and no failure.
SmallBatches(B) ==
  \A n \in 1 .. Cardinality(Workers) :
    MinEvents + n <= MaxEvents => (n + MaxFaults) * (B - 1) <= MinEvents

\* Nothing is waiting, running or given up, and no job was lost on its way.
Quiet == /\ owed = {} /\ lost = {}
         /\ \A m \in Ids : phase[m] \in {"absent", "done"}
         /\ \A w \in Workers : pc[w] = "idle"
         /\ picked = {}

\* One job stands for one event, jobs of a batch share one distillation, and
\* several batches read the same window: still, when all jobs are done, the
\* newest memories of the session hold fewer events than a distillation takes --
\* as long as batches are small (SmallBatches): jobs of one claim are completed
\* together, also when the run that stands for them read a window whose newest
\* events another worker was about to retire, or failed for the first of them
\* (distill.rs:116).
QuietIsDistilled ==
  Quiet => Cardinality(Events(Newest(Active, MaxEvents))) < MinEvents
=============================================================================
