--------------------------- MODULE Derivation ---------------------------
(***************************************************************************)
(* derive_memory jobs (nexus-agent/src/derive.rs, job_processor.rs): a raw *)
(* memory becomes observations, stored one by one, and then two follow-up  *)
(* jobs are enqueued, to reflect on them and to digest the session.  A run *)
(* that finds observations of an earlier one leaves everything as it is.   *)
(*                                                                         *)
(* Job m derives source m.  A failed model call falls back to observations *)
(* made without it, so it is not a fault.  A source has a session key.     *)
(***************************************************************************)
EXTENDS Naturals, FiniteSets

CONSTANTS
  Sources, Workers, Nobody, BatchSize, MayOverrun,
  Derivable,     \* sources that are raw activity
  MaxObs,        \* bound: observations of one run
  MaxRuns,       \* bound: runs that get as far as deriving, per source
  MaxFaults      \* bound: how many faults happen

VARIABLES
  phase, holder, pc, batch, \* JobWorker
  observations,  \* observations[m]: <<run, number>> of each that is stored
  run,           \* run[w]: the run w is in, counted per source
  planned,       \* planned[w]: how many observations it is to store
  runs,          \* runs[m]: runs of source m so far
  followed,      \* followed[m]: the follow-up jobs that were enqueued
  cut,           \* history: sources one of whose runs stopped after it stored
  outlasted,     \* history: sources whose lease lapsed with its holder at work
  faults

work == <<observations, run, planned, runs, followed>>
past == <<cut, outlasted>>
vars == <<phase, holder, pc, batch, work, past, faults>>

W == INSTANCE JobWorker WITH Jobs <- Sources

Point == {"look", "store", "reflect", "digest", "done", "failed"}

TypeOK ==
  /\ W!TypeOK(Point)
  /\ observations \in [Sources -> SUBSET ((1 .. MaxRuns) \X (1 .. MaxObs))]
  /\ run \in [Workers -> 0 .. MaxRuns] /\ runs \in [Sources -> 0 .. MaxRuns]
  /\ planned \in [Workers -> 0 .. MaxObs]
  /\ followed \in [Sources -> SUBSET {"reflect", "digest"}]
  /\ cut \in SUBSET Sources /\ outlasted \in SUBSET Sources
  /\ faults \in 0 .. MaxFaults

Init ==
  /\ W!Init
  /\ observations = [m \in Sources |-> {}]
  /\ run = [w \in Workers |-> 0] /\ runs = [m \in Sources |-> 0]
  /\ planned  = [w \in Workers |-> 0]
  /\ followed = [m \in Sources |-> {}]
  /\ cut = {} /\ outlasted = {} /\ faults = 0

Source(w) == W!First(w)

Fault == faults < MaxFaults /\ faults' = faults + 1

SubmitDerive(m) ==
  /\ W!Submit(m)
  /\ UNCHANGED <<work, past, faults>>

ClaimDeriveJobs(w) ==
  /\ W!Claim(w, "look")
  /\ UNCHANGED <<work, past, faults>>

\* is_derivable_source does not hold: nothing is looked up.
SkipSource(w) ==
  /\ W!Step(w, {"look"}, "done")
  /\ Source(w) \notin Derivable
  /\ UNCHANGED <<work, past, faults>>

\* existing_derived_ids found some: they are returned, nothing else is done.
ReuseExisting(w) ==
  /\ W!Step(w, {"look"}, "done")
  /\ Source(w) \in Derivable /\ observations[Source(w)] # {}
  /\ UNCHANGED <<work, past, faults>>

\* (bug) the lookup is left out.
BugFindsNone(w) == TRUE

FindsNone(w) == observations[Source(w)] = {}

\* It found none: n observations are derived, and without any all is done.
Derive(w, n) ==
  /\ W!Step(w, {"look"}, IF n = 0 THEN "done" ELSE "store")
  /\ Source(w) \in Derivable /\ FindsNone(w)
  /\ runs[Source(w)] < MaxRuns
  /\ runs' = [runs EXCEPT ![Source(w)] = @ + 1]
  /\ run' = [run EXCEPT ![w] = runs[Source(w)] + 1]
  /\ planned' = [planned EXCEPT ![w] = n]
  /\ UNCHANGED <<observations, followed, past, faults>>

\* store_with_lineage, a transaction for each observation.
StoreObservation(w) ==
  /\ W!Step(w, {"store"}, IF planned[w] = 1 THEN "reflect" ELSE "store")
  /\ observations' = [observations EXCEPT ![Source(w)] = @ \cup {<<run[w], planned[w]>>}]
  /\ planned' = [planned EXCEPT ![w] = @ - 1]
  /\ UNCHANGED <<run, runs, followed, past, faults>>

\* (bug) a reflect job stands for both follow-ups.
BugAfterReflect == "done"

AfterReflect == "digest"

\* enqueue_follow_up_jobs: the two are enqueued whatever is queued already.
EnqueueReflect(w) ==
  /\ W!Step(w, {"reflect"}, AfterReflect)
  /\ followed' = [followed EXCEPT ![Source(w)] = @ \cup {"reflect"}]
  /\ UNCHANGED <<observations, run, planned, runs, past, faults>>

EnqueueDigest(w) ==
  /\ W!Step(w, {"digest"}, "done")
  /\ followed' = [followed EXCEPT ![Source(w)] = @ \cup {"digest"}]
  /\ UNCHANGED <<observations, run, planned, runs, past, faults>>

Busy(w) == pc[w] \in {"store", "reflect", "digest"}
Began(w) == Busy(w) /\ \E o \in observations[Source(w)] : o[1] = run[w]

\* A storage error in the lookup, a store or an enqueue.
DeriveFails(w) ==
  /\ W!Step(w, {"look", "store", "reflect", "digest"}, "failed")
  /\ Fault
  /\ cut' = IF Began(w) THEN cut \cup {Source(w)} ELSE cut
  /\ UNCHANGED <<work, outlasted>>

Outcome(w) == CASE pc[w] = "done"   -> {"done"}
                [] pc[w] = "failed" -> {"open", "dead"}
                [] OTHER            -> {}

SettleJob(w) ==
  /\ W!Settle(w, Outcome(w), "look")
  /\ UNCHANGED <<work, past, faults>>

LostLease(w) ==
  /\ pc[w] \in {"done", "failed"}
  /\ W!LostLease(w)
  /\ UNCHANGED <<work, past, faults>>

Abort(w) ==
  /\ W!Leave(w)
  /\ Fault
  /\ cut' = IF Began(w) THEN cut \cup {Source(w)} ELSE cut
  /\ UNCHANGED <<work, outlasted>>

LapseLeases ==
  /\ \E S \in SUBSET Sources :
       /\ W!Lapse(S)
       /\ outlasted' = outlasted \cup {m \in S : holder[m] # Nobody}
  /\ UNCHANGED <<work, cut, faults>>

Next ==
  \/ \E m \in Sources : SubmitDerive(m)
  \/ \E w \in Workers :
       \/ ClaimDeriveJobs(w) \/ SkipSource(w) \/ ReuseExisting(w) \/ StoreObservation(w)
       \/ EnqueueReflect(w) \/ EnqueueDigest(w) \/ DeriveFails(w)
       \/ SettleJob(w) \/ LostLease(w) \/ Abort(w)
       \/ \E n \in 0 .. MaxObs : Derive(w, n)
  \/ LapseLeases

Spec == Init /\ [][Next]_vars

-----------------------------------------------------------------------------
(* Properties *)

\* A source whose job is done and that has observations has both its follow-up
\* jobs, or the worker that stored them is still at it, whatever took over from
\* it meanwhile; or that run was cut short, and then nobody asks for them again
\* (derive.rs:85 returns before derive.rs:193).
DoneIsFollowed ==
  \A m \in Sources :
    phase[m] = "done" /\ observations[m] # {} /\ m \notin cut =>
      \/ followed[m] = {"reflect", "digest"}
      \/ \E w \in Workers : Busy(w) /\ Source(w) = m

\* Retries after errors, lapsed leases of dead workers and repeated claims never
\* derive a source twice: all its observations are of one run, unless a worker
\* outlasted its lease.
DerivedOnce ==
  \A m \in Sources \ outlasted :
    \A o, p \in observations[m] : o[1] = p[1]
=============================================================================
