-------------------------- MODULE SessionDigest --------------------------
(***************************************************************************)
(* The digests of one session: memories accumulate, digest jobs ask for a  *)
(* short and a long digest of them, and workers run process_digest_jobs    *)
(* and digest_session (nexus-agent/src/job_processor.rs, digest.rs) over   *)
(* the tables session_digests and memories.                                *)
(*                                                                         *)
(* The queue itself is used through its contract, JobLease, which JobQueue *)
(* is shown to implement: Submit, Grant, Settle, Lose and Lapse are its    *)
(* steps.  Memories that can be digested are numbered in the order their   *)
(* rowids were assigned; a digest is known by the last memory it covers    *)
(* (end_memory_id).  The summary rows that digest_session writes to        *)
(* memories before it registers them are left out: the gathering query,    *)
(* the rollover query and the lookups of existing digests all skip or      *)
(* never reach an unregistered summary.  No memory of the session is       *)
(* deleted or archived meanwhile, and it has at most the 200 the gathering *)
(* query returns.                                                          *)
(***************************************************************************)
EXTENDS Naturals, FiniteSets

CONSTANTS
  Jobs,          \* digest jobs of this session
  Forced,        \* those whose reason forces a digest (digest_job_is_forced)
  Workers,
  Nobody,
  MinEvents,     \* activity_distill_min_events, the rollover threshold
  MaxMemories,   \* bound: memories the session collects
  MayOverrun,    \* may a worker's batch outlast its lease?
  MaxAborts      \* bound: how many runs may be cut short

ASSUME DigestAssumption == /\ Forced \subseteq Jobs
                           /\ Nobody \notin Workers
                           /\ MinEvents \in Nat \ {0}
                           /\ MaxMemories \in Nat
                           /\ MaxAborts \in Nat
                           /\ MayOverrun \in BOOLEAN

VARIABLES
  phase, holder, \* the digest jobs, as JobLease sees them
  memories,      \* how many digestible memories the session has
  digests,       \* digests[k]: end_memory_id of the registered digests of kind k
  asked,         \* history: memories when forced job j was put in the queue
  pc,            \* pc[w]: the next statement of worker w
  batch,         \* batch[w]: the jobs of the session w has still to settle
  end,           \* end[w]: the last memory of w's gathering
  aborts         \* runs cut short so far

queue  == <<phase, holder>>
worker == <<pc, batch, end>>
vars   == <<queue, memories, digests, asked, worker, aborts>>

Queue == INSTANCE JobLease

Kind  == {"short", "long"}
Point == {"idle", "threshold", "existing", "gather", "short", "long", "succeed", "fail"}

TypeOK ==
  /\ phase    \in [Jobs -> Queue!Phase]
  /\ holder   \in [Jobs -> Workers \cup {Nobody}]
  /\ memories \in 0 .. MaxMemories
  /\ digests  \in [Kind -> SUBSET (1 .. MaxMemories)]
  /\ asked    \in [Forced -> 0 .. MaxMemories]
  /\ pc       \in [Workers -> Point]
  /\ batch    \in [Workers -> SUBSET Jobs]
  /\ end      \in [Workers -> 0 .. MaxMemories]
  /\ aborts   \in 0 .. MaxAborts

Init ==
  /\ Queue!Init
  /\ memories = 0
  /\ digests  = [k \in Kind |-> {}]
  /\ asked    = [j \in Forced |-> 0]
  /\ pc       = [w \in Workers |-> "idle"]
  /\ batch    = [w \in Workers |-> {}]
  /\ end      = [w \in Workers |-> 0]
  /\ aborts   = 0

Goto(w, p) == pc' = [pc EXCEPT ![w] = p]

-----------------------------------------------------------------------------
(* Producers: derivation adds memories; its follow-up, the dream cycle, the *)
(* end of the session and manual commands add digest jobs.                  *)

AddMemory ==
  /\ memories < MaxMemories
  /\ memories' = memories + 1
  /\ UNCHANGED <<queue, digests, asked, worker, aborts>>

EnqueueDigestJob(j) ==
  /\ Queue!Submit(j)
  /\ asked' = [f \in Forced |-> IF f = j THEN memories ELSE asked[f]]
  /\ UNCHANGED <<memories, digests, worker, aborts>>

-----------------------------------------------------------------------------
(* process_digest_jobs *)

\* (bug) the first job of the group decides for all.
BugForceOf(B) == \A j \in B : j \in Forced

\* The forced flag is OR-ed across the jobs of the session's group.
ForceOf(B) == \E j \in B : j \in Forced

\* The jobs of the session in one claim form one group.
ClaimDigestJobs(w) ==
  /\ pc[w] = "idle"
  /\ \E S \in SUBSET {j \in Jobs : phase[j] \in {"open", "lapsed"}} :
       /\ S # {}
       /\ Queue!Grant(w, S)
       /\ batch' = [batch EXCEPT ![w] = S]
       /\ Goto(w, IF ForceOf(S) THEN "existing" ELSE "threshold")
  /\ UNCHANGED <<memories, digests, asked, end, aborts>>

LastCovered == LET ends == digests["short"] \cup digests["long"]
               IN  IF ends = {} THEN 0
                   ELSE CHOOSE e \in ends : \A f \in ends : f <= e

\* (bug) a session with no new memories counts as digested, registered or not.
BugShouldRunIncrementalDigest == memories - LastCovered >= MinEvents

\* session_digest_rollover: MAX(end_memory_id) over both kinds, and whether
\* enough came after it.  (Its token estimate can only cross the threshold
\* when there are new memories; it is a second way to say "enough".)
ShouldRunIncrementalDigest ==
  \/ digests["short"] \cup digests["long"] = {}
  \/ memories - LastCovered >= MinEvents

CheckThreshold(w) ==
  /\ pc[w] = "threshold"
  /\ \/ ShouldRunIncrementalDigest /\ Goto(w, "existing")
     \/ ~ShouldRunIncrementalDigest /\ Goto(w, "succeed")
  /\ UNCHANGED <<queue, memories, digests, asked, batch, end, aborts>>

-----------------------------------------------------------------------------
(* digest_session *)

\* existing_digest_ids looks the kinds up one after the other; registered
\* digests are never deleted, so the two lookups answer like one.
FindExisting(w) ==
  /\ pc[w] = "existing"
  /\ \/ (\A k \in Kind : digests[k] # {}) /\ Goto(w, "succeed")
     \/ (\E k \in Kind : digests[k] = {}) /\ Goto(w, "gather")
  /\ UNCHANGED <<queue, memories, digests, asked, batch, end, aborts>>

\* gather_session_memories; an empty session is an error.
Gather(w) ==
  /\ pc[w] = "gather"
  /\ end' = [end EXCEPT ![w] = memories]
  /\ Goto(w, IF memories = 0 THEN "fail" ELSE "short")
  /\ UNCHANGED <<queue, memories, digests, asked, batch, aborts>>

\* (bug) the window's end is stored exclusive.
BugRegister(k, e) == digests' = [digests EXCEPT ![k] = @ \cup {e + 1}]

Register(k, e) == digests' = [digests EXCEPT ![k] = @ \cup {e}]

\* (bug) the long digest is registered first.
BugRegisterShort(w) ==
  /\ pc[w] = "short"
  /\ Register("long", end[w])
  /\ Goto(w, "long")
  /\ UNCHANGED <<queue, memories, asked, batch, end, aborts>>

\* The model has answered and both summaries are stored: store_digest, first
\* for the short digest, an upsert on (session, kind, end_memory_id) ...
RegisterShort(w) ==
  /\ pc[w] = "short"
  /\ Register("short", end[w])
  /\ Goto(w, "long")
  /\ UNCHANGED <<queue, memories, asked, batch, end, aborts>>

\* (bug) the long digest is forgotten.
BugRegisterLong(w) ==
  /\ pc[w] = "long"
  /\ Goto(w, "succeed")
  /\ UNCHANGED <<queue, digests, memories, asked, batch, end, aborts>>

\* ... then, in a transaction of its own, for the long one.
RegisterLong(w) ==
  /\ pc[w] = "long"
  /\ Register("long", end[w])
  /\ Goto(w, "succeed")
  /\ UNCHANGED <<queue, memories, asked, batch, end, aborts>>

-----------------------------------------------------------------------------
(* Settling the group, one statement per job *)

\* (bug) the error branch leaves the jobs of the group unsettled.
BugOutcome(w) == IF pc[w] = "succeed" THEN {"done"} ELSE {}

Outcome(w) == CASE pc[w] = "succeed" -> {"done"}
                [] pc[w] = "fail"    -> {"open", "dead"}   \* retried, or given up
                [] OTHER             -> {}

SettleJob(w) ==
  /\ \E j \in batch[w], p \in Outcome(w) :
       /\ Queue!Settle(w, j, p)
       /\ batch' = [batch EXCEPT ![w] = @ \ {j}]
       /\ Goto(w, IF batch[w] = {j} THEN "idle" ELSE pc[w])
       /\ end' = [end EXCEPT ![w] = 0]
  /\ UNCHANGED <<memories, digests, asked, aborts>>

\* The run ends early: the jobs w still holds stay leased.
Leave(w) ==
  /\ Queue!Lose({j \in Jobs : holder[j] = w})
  /\ batch' = [batch EXCEPT ![w] = {}]
  /\ end' = [end EXCEPT ![w] = 0]
  /\ Goto(w, "idle")
  /\ UNCHANGED <<memories, digests, asked>>

\* "lost lease ownership" when a job of the group turns out to be taken over.
LostLease(w) ==
  /\ pc[w] \in {"succeed", "fail"}
  /\ \E j \in batch[w] : holder[j] # w
  /\ Leave(w)
  /\ UNCHANGED aborts

Abort(w) ==
  /\ pc[w] # "idle"
  /\ aborts < MaxAborts
  /\ aborts' = aborts + 1
  /\ Leave(w)

LapseLeases ==
  /\ \E S \in SUBSET {j \in Jobs : phase[j] = "leased"} :
       /\ S # {}
       /\ MayOverrun \/ \A j \in S : holder[j] = Nobody
       /\ Queue!Lapse(S)
  /\ UNCHANGED <<memories, digests, asked, worker, aborts>>

-----------------------------------------------------------------------------

Proceed(w) ==
  \/ CheckThreshold(w) \/ FindExisting(w) \/ Gather(w)
  \/ RegisterShort(w) \/ RegisterLong(w)
  \/ SettleJob(w) \/ LostLease(w)

Next ==
  \/ AddMemory
  \/ \E j \in Jobs : EnqueueDigestJob(j)
  \/ \E w \in Workers : ClaimDigestJobs(w) \/ Proceed(w) \/ Abort(w)
  \/ LapseLeases

Spec == Init /\ [][Next]_vars

Fairness ==
  /\ SF_vars(\E w \in Workers : ClaimDigestJobs(w))
  /\ \A w \in Workers : WF_vars(Proceed(w))
  /\ WF_vars(LapseLeases)

FairSpec == Spec /\ Fairness

-----------------------------------------------------------------------------
(* Properties *)

\* A finished digest job is never a lie: by the time any job of the session is
\* done, at least the short digest is registered, whatever was cut short,
\* overtaken by another worker, or skipped as below the threshold.
DoneIsDigested ==
  (\E j \in Jobs : phase[j] = "done") => digests["short"] # {}

\* The long digest of a window is only ever registered beside the short one,
\* so readers that find a long digest find the short digest of its window.
LongHasShort == digests["long"] \subseteq digests["short"]

\* A forced job is done only when both digests are there: OR-ing the flag over
\* the group keeps a forced job from going through the threshold's shortcut.
ForcedHasBoth ==
  (\E j \in Forced : phase[j] = "done") => \A k \in Kind : digests[k] # {}

\* When nothing is queued and nothing runs, digests come in pairs.
Quiet == /\ \A w \in Workers : pc[w] = "idle"
         /\ \A j \in Jobs : phase[j] \in {"absent", "done"}

QuietHasPairs == Quiet => (digests["short"] # {} <=> digests["long"] # {})

\* digest.rs:71, "if digests already exist for the session and `force` is
\* false": with force, a digest job covers every memory there was when it was
\* asked for.
ForcedIsFresh ==
  \A j \in Forced : phase[j] = "done" =>
    \E e \in digests["long"] : e >= asked[j]

\* A digest job waiting in a session that has memories is settled in the end,
\* and unless it is given up the session then has its short digest.
EventuallyDigested ==
  \A j \in Jobs : (phase[j] = "open" /\ memories > 0) ~>
                    (phase[j] = "dead" \/ (phase[j] = "done" /\ digests["short"] # {}))
=============================================================================
