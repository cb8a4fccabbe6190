------------------------- MODULE EnqueueIfAbsent -------------------------
(***************************************************************************)
(* enqueue_job_if_absent (nexus-agent/src/job_processor.rs), which dreams  *)
(* and shutdowns use for reflect and digest jobs: look through the pending *)
(* jobs of the type, then through the running ones, and insert.  Workers   *)
(* claim, finish and retry jobs meanwhile.  Jobs are numbered as they are  *)
(* created; two match when their requests (perspective, payload) are equal.*)
(***************************************************************************)
EXTENDS Naturals, FiniteSets, Sequences

CONSTANTS
  Producers, Requests, None,
  ListLimit,     \* a scan returns the newest 64
  MaxJobs        \* bound: jobs ever enqueued

VARIABLES
  status,        \* status[j]: absent, pending, running or settled
  request,       \* request[j]: what j is for
  want,          \* want[p]: the request p is enqueuing, or None
  scan,          \* scan[p]: which scan is next; after the last, the insert
  gathered,      \* running jobs that have read what they work on
  unseen,        \* requests for something that no job has read yet
  excused,       \* history: requests the scans could not see a job of
  lost           \* history: requests given up, failed for good or come too late

history == <<excused, lost>>
vars    == <<status, request, want, scan, gathered, unseen, history>>

Jobs == 1 .. MaxJobs

TypeOK ==
  /\ status  \in [Jobs -> {"absent", "pending", "running", "settled"}]
  /\ request \in [Jobs -> Requests \cup {None}]
  /\ want    \in [Producers -> Requests \cup {None}]
  /\ scan    \in [Producers -> 1 .. 3]
  /\ gathered \in SUBSET Jobs /\ unseen \in SUBSET Requests
  /\ excused \in SUBSET Requests /\ lost \in SUBSET Requests

\* (bug) the running jobs are looked through first.
BugScans == <<"running", "pending">>

Scans == <<"pending", "running">>

Init ==
  /\ status  = [j \in Jobs |-> "absent"]
  /\ request = [j \in Jobs |-> None]
  /\ want    = [p \in Producers |-> None]
  /\ scan    = [p \in Producers |-> 1]
  /\ gathered = {} /\ unseen = {}
  /\ excused = {} /\ lost = {}

Excuse(r, condition) == excused' = IF condition THEN excused \cup {r} ELSE excused
Lose(r, condition)   == lost'    = IF condition THEN lost \cup {r} ELSE lost

\* Something new is there to reflect on or to digest, and the caller asks for it.
Call(p, r) ==
  /\ want[p] = None
  /\ want' = [want EXCEPT ![p] = r]
  /\ scan' = [scan EXCEPT ![p] = 1]
  /\ unseen' = unseen \cup {r}
  /\ Excuse(r, \E q \in Producers : want[q] = r)
  /\ UNCHANGED <<status, request, gathered, lost>>

With(s) == {j \in Jobs : status[j] = s}

\* list_jobs: the newest of them.
Listed(s) == {j \in With(s) : Cardinality({k \in With(s) : k > j}) < ListLimit}

Wanted(p, S) == {j \in S : request[j] = want[p]}

\* (bug) any job of the type is taken for a match.
BugMatching(p) == Listed(Scans[scan[p]])

\* queued_job_matches
Matching(p) == Wanted(p, Listed(Scans[scan[p]]))

Missed(p) == Matching(p) = {} /\ Wanted(p, With(Scans[scan[p]])) # {}

Scanning(p) == want[p] # None /\ scan[p] \in DOMAIN Scans

\* A match ends the call: the job is there already.  It comes too late for what
\* is new if that is a running job that has gathered.
Suppress(p) ==
  /\ Scanning(p)
  /\ Matching(p) # {}
  /\ Lose(want[p], Wanted(p, Matching(p)) # {} /\ Wanted(p, Matching(p)) \subseteq gathered)
  /\ want' = [want EXCEPT ![p] = None]
  /\ UNCHANGED <<status, request, scan, gathered, unseen, excused>>

Scan(p) ==
  /\ Scanning(p)
  /\ Matching(p) = {}
  /\ scan' = [scan EXCEPT ![p] = @ + 1]
  /\ Excuse(want[p], Missed(p))
  /\ UNCHANGED <<status, request, want, gathered, unseen, lost>>

Enqueue(p) ==
  /\ want[p] # None /\ scan[p] \notin DOMAIN Scans
  /\ \E j \in With("absent") :
       /\ \A k \in With("absent") : j <= k
       /\ status'  = [status EXCEPT ![j] = "pending"]
       /\ request' = [request EXCEPT ![j] = want[p]]
  /\ want' = [want EXCEPT ![p] = None]
  /\ UNCHANGED <<scan, gathered, unseen, history>>

\* The caller is cut short between two statements.
GiveUp(p) ==
  /\ want[p] # None
  /\ Lose(want[p], TRUE)
  /\ want' = [want EXCEPT ![p] = None]
  /\ UNCHANGED <<status, request, scan, gathered, unseen, excused>>

\* claim_jobs
Start(j) ==
  /\ status[j] = "pending"
  /\ status' = [status EXCEPT ![j] = "running"]
  /\ UNCHANGED <<request, want, scan, gathered, unseen, history>>

\* claim_jobs of a job whose lease ran out: its worker starts over.
StartOver(j) ==
  /\ j \in gathered
  /\ gathered' = gathered \ {j}
  /\ UNCHANGED <<status, request, want, scan, unseen, history>>

\* The worker reads what the job is about: observations, a session's memories.
Gather(j) ==
  /\ status[j] = "running" /\ j \notin gathered
  /\ gathered' = gathered \cup {j}
  /\ unseen' = unseen \ {request[j]}
  /\ UNCHANGED <<status, request, want, scan, history>>

\* complete_job
Complete(j) ==
  /\ j \in gathered
  /\ status' = [status EXCEPT ![j] = "settled"]
  /\ gathered' = gathered \ {j}
  /\ UNCHANGED <<request, want, scan, unseen, history>>

\* fail_job for the last time.
FailForGood(j) ==
  /\ status[j] = "running"
  /\ status' = [status EXCEPT ![j] = "settled"]
  /\ gathered' = gathered \ {j}
  /\ Lose(request[j], TRUE)
  /\ UNCHANGED <<request, want, scan, unseen, excused>>

\* fail_job with attempts left.
Retry(j) ==
  /\ status[j] = "running"
  /\ status' = [status EXCEPT ![j] = "pending"]
  /\ gathered' = gathered \ {j}
  /\ Excuse(request[j], \E p \in Producers : want[p] = request[j] /\ scan[p] > 1)
  /\ UNCHANGED <<request, want, scan, unseen, lost>>

Next ==
  \/ \E p \in Producers :
       \/ \E r \in Requests : Call(p, r)
       \/ Suppress(p) \/ Scan(p) \/ Enqueue(p) \/ GiveUp(p)
  \/ \E j \in Jobs : Start(j) \/ StartOver(j) \/ Gather(j) \/ Complete(j) \/ FailForGood(j) \/ Retry(j)

Spec == Init /\ [][Next]_vars

-----------------------------------------------------------------------------
(* Properties *)

\* job_processor.rs:356, "Enqueue a job only if no matching pending/running job
\* already exists": while jobs are claimed and finished between the two scans,
\* a request has one unfinished job -- unless two callers wanted it at the same
\* time, its job went back to pending after the first scan, or it was beyond
\* what a scan lists.
OneUnlessExcused ==
  \A r \in Requests \ excused :
    Cardinality({j \in Jobs : status[j] \in {"pending", "running"} /\ request[j] = r}) <= 1

\* What is asked for is not forgotten, although the call adds no job for it: a
\* job that has yet to read it is there, or the caller still looks for one --
\* unless the call or that job ended without success, or the job the call found
\* was running and had read its input before (job_processor.rs:367).
NothingForgotten ==
  \A r \in unseen \ lost :
    \/ \E p \in Producers : want[p] = r
    \/ \E j \in Jobs \ gathered : status[j] \in {"pending", "running"} /\ request[j] = r
=============================================================================
