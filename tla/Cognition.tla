---------------------------- MODULE Cognition ----------------------------
(***************************************************************************)
(* The cognition jobs' work, each kind by itself: a behaviour is one of    *)
(* Distillation (one job at a time, with leases that workers outlast, or   *)
(* several jobs at a time within their leases), of Derivation, of          *)
(* Reflection, of EnqueueIfAbsent or of Runtime, whose commands ask for    *)
(* them, and the variables of the other parts stay as they began.          *)
(***************************************************************************)
EXTENDS Distillation

CONSTANTS LargeBatch, Sources, Derivable, MaxObs, MaxRuns,
          Observations, Alike, Opposed, Near, MinCluster, Cyclers,
          MaxCandidates, MaxCycles, MaxCuts, Bursts, MaxOther,
          Producers, Requests, None, ListLimit, MaxJobs,
          Commands, Histories, Reasons, Learned, MaxCommands, MaxLearned, MaxErrors

VARIABLES
  part,          \* whose behaviour it is
  dPhase, dHolder, dPc, dBatch, observations, run, planned, runs, followed,
  cut, outlasted, dFaults,
  present, rows, born, records, count, cycle, started, cuts, overlapped,
  status, request, want, scan, gathered, unseen, excused, forsaken,
  file, sessionMemories, open, digested, rPc, reason, signals, plan, asked, warned,
  revived, begun, learned, errors

derivation == <<dPhase, dHolder, dPc, dBatch, observations, run, planned, runs, followed,
                cut, outlasted, dFaults>>
reflection == <<present, rows, born, records, count, cycle, started, cuts, overlapped>>
asking     == <<status, request, want, scan, gathered, unseen, excused, forsaken>>
commands   == <<file, sessionMemories, open, digested, rPc, reason, signals, plan, asked,
                warned, revived, begun, learned, errors>>

\* The constants of Distillation let a worker outlast its lease; here it may not,
\* but claims several jobs at once.
InBatches == INSTANCE Distillation WITH BatchSize <- LargeBatch, MayOverrun <- FALSE

Derive == INSTANCE Derivation
  WITH phase <- dPhase, holder <- dHolder, pc <- dPc, batch <- dBatch, faults <- dFaults,
       BatchSize <- LargeBatch
Reflect == INSTANCE Reflection
Ask == INSTANCE EnqueueIfAbsent WITH lost <- forsaken
Run == INSTANCE Runtime
  WITH pc <- rPc, memories <- sessionMemories

ASSUME CognitionAssumption == Reflect!ReflectAssumption

\* A claim takes one job at least.
ASSUME BatchAssumption == LargeBatch \in Nat \ {0}

\* No request is empty, and the bounds are numbers.
ASSUME AskAssumption == None \notin Requests /\ MaxJobs \in Nat

\* Jobs are numbered.
ASSUME DeriveAssumption == Sources \subseteq Nat /\ MaxObs \in Nat /\ MaxRuns \in Nat

\* A pair is no cluster: MIN_INSIGHT_COMPONENT_SIZE is 3.
ASSUME ReflectionAssumption ==
  /\ IsFiniteSet(Observations) /\ IsFiniteSet(Cyclers)
  /\ MinCluster \in Nat /\ MinCluster > 2
  /\ MaxCandidates \in Nat /\ Bursts \subseteq Nat
  /\ MaxCycles \in Nat /\ MaxCuts \in Nat /\ MaxOther \in Nat

\* RuntimeShutdownReason has these values, of which a session's end is one.
ASSUME RunAssumption ==
  /\ "SessionEnded" \in Reasons /\ Reasons \subseteq {"SessionEnded", "IdleTimeout", "Manual"}
  /\ Learned \subseteq Run!Class
  /\ Histories \subseteq [Run!Class -> Nat]
  /\ MaxCommands \in Nat /\ MaxLearned \in Nat /\ MaxErrors \in Nat

Parts == {"distill", "batches", "derive", "reflect", "ask", "runtime"}

CognitionInit ==
  /\ part \in Parts
  /\ Init /\ Derive!Init /\ Reflect!Init /\ Ask!Init /\ Run!Init
  /\ part # "runtime" => sessionMemories = CHOOSE h \in Histories : TRUE

CognitionNext ==
  \/ part = "distill" /\ Next
     /\ UNCHANGED <<part, derivation, reflection, asking, commands>>
  \/ part = "batches" /\ InBatches!Next
     /\ UNCHANGED <<part, derivation, reflection, asking, commands>>
  \/ part = "derive" /\ Derive!Next
     /\ UNCHANGED <<part, vars, reflection, asking, commands>>
  \/ part = "reflect" /\ Reflect!Next
     /\ UNCHANGED <<part, vars, derivation, asking, commands>>
  \/ part = "ask" /\ Ask!Next
     /\ UNCHANGED <<part, vars, derivation, reflection, commands>>
  \/ part = "runtime" /\ Run!Next
     /\ UNCHANGED <<part, vars, derivation, reflection, asking>>

CognitionSpec == CognitionInit /\ [][CognitionNext]_<<part, vars, derivation, reflection, asking, commands>>

-----------------------------------------------------------------------------
(* Properties *)

\* The variables of all the parts have their types.
CognitionTypeOK == TypeOK /\ Derive!TypeOK /\ Reflect!TypeOK /\ Ask!TypeOK
                   /\ Run!TypeOK

\* A source whose job is done and that has observations has both its follow-up
\* jobs, or the worker that stored them is still at it, whatever took over from
\* it meanwhile; or that run was cut short, and then nobody asks for them again
\* (derive.rs:85 returns before derive.rs:193).
DoneIsFollowed == Derive!DoneIsFollowed

\* Retries after errors, lapsed leases of dead workers and repeated claims never
\* derive a source twice: all its observations are of one run, unless a worker
\* outlasted its lease.
DerivedOnce == Derive!DerivedOnce

\* reflect.rs:120, "idempotent -- pairs that already have evidence links are
\* skipped": repeated cycles, cycles cut short among them, reflect on a pair
\* once, as long as no two of them ran at the same time.
ReflectedOnce == Reflect!ReflectedOnce

\* The counters in an observation's metadata are written back whole by cycles
\* that may overlap and stop: they may fall behind, but never claim more than
\* the records that can be shown for them.
CountsBacked == Reflect!CountsBacked

\* However the observations and the cycles that gathered them came, overlapping
\* or not: when no cycle runs and none was cut short, a large enough cluster that
\* is still within the window as a whole, each member of which agrees with
\* another, has an insight as soon as all its agreements are recorded, by
\* whichever cycles did so.  A cluster that is spread beyond the newest
\* MAX_CANDIDATES memories (reflect.rs:40) may never get one.
ClustersHaveInsights == Reflect!ClustersHaveInsights

\* job_processor.rs:356, "Enqueue a job only if no matching pending/running job
\* already exists": while jobs are claimed and finished between the two scans,
\* a request has one unfinished job -- unless two callers wanted it at the same
\* time, its job went back to pending after the first scan, or it was beyond
\* what a scan lists.
OneUnlessExcused == Ask!OneUnlessExcused

\* What is asked for is not forgotten, although the call adds no job for it: a
\* job that has yet to read it is there, or the caller still looks for one --
\* unless the call or that job ended without success, or the job the call found
\* was running and had read its input before (job_processor.rs:367).
NothingForgotten == Ask!NothingForgotten

\* "bounded session-end dream work" (ARCHITECTURE.md:363) is planned for every
\* end: whatever the session has in memory, whoever distills, digests or adds to
\* it between the marker, the two reads and the plan, an end that gets as far as
\* removing the state has found or put a digest job in the queue, and if it saw
\* contradictions a reflect job too -- unless its dream was cut short or, for
\* contradictions, it was a manual one.
EndIsFollowed == Run!EndIsFollowed

\* An end that completes clears the state file for good, also one that a killed
\* start left torn, which refuses every further start (runtime_state.rs:98), and
\* also when its dream failed or timed out: only a start that had yet to
\* write it then, or that runs later, brings it back.
EndClears == Run!EndClears
=============================================================================
