------------------------------ MODULE Inbox ------------------------------
(***************************************************************************)
(* The inbox scanner (nexus-agent/src/inbox.rs) over processed_files       *)
(* (ProcessedFileRepository) and the ingestion of one file (ingest.rs).    *)
(* The supervisor of every web server runs a scanner, and runs scans one   *)
(* after the other; two servers share the database.  What a file holds is  *)
(* nothing here: it is too large, or it can be ingested.                   *)
(*                                                                         *)
(* A fault is a storage error, a read error, an answer of the language     *)
(* model that cannot be used, or the end of the process.                   *)
(***************************************************************************)
EXTENDS Naturals, FiniteSets

CONSTANTS
  Files,
  TooLarge,      \* files above MAX_INBOX_FILE_SIZE
  Scanners,
  None,
  MaxFaults      \* bound: how many faults happen

VARIABLES
  present,       \* files in the inbox directory
  row,           \* row[f]: the status of f in processed_files
  copies,        \* copies[f]: memories stored of f, 2 standing for more than one
  derived,       \* files with a derive_memory job
  pc,            \* pc[s]: where scanner s stands
  todo,          \* todo[s]: files the walk of s has yet to come to
  at,            \* at[s]: the file it is at
  faults,
  overlapped,    \* history: two scans ran at the same time
  blind,         \* history: a scan did not learn which files are completed
  cut            \* history: files stored by an attempt that did not complete them

scan    == <<pc, todo, at>>
history == <<faults, overlapped, blind, cut>>
vars    == <<present, row, copies, derived, scan, history>>

Status == {"none", "processing", "completed", "failed"}
Point  == {"idle", "next", "read", "store", "enqueue", "complete"}

TypeOK ==
  /\ present \in SUBSET Files
  /\ row     \in [Files -> Status]
  /\ copies  \in [Files -> 0 .. 2]
  /\ derived \in SUBSET Files
  /\ pc      \in [Scanners -> Point]
  /\ todo    \in [Scanners -> SUBSET Files]
  /\ at      \in [Scanners -> Files \cup {None}]
  /\ faults  \in 0 .. MaxFaults
  /\ overlapped \in BOOLEAN /\ blind \in BOOLEAN
  /\ cut     \in SUBSET Files

Init ==
  /\ present = {} /\ derived = {} /\ cut = {}
  /\ row     = [f \in Files |-> "none"]
  /\ copies  = [f \in Files |-> 0]
  /\ pc      = [s \in Scanners |-> "idle"]
  /\ todo    = [s \in Scanners |-> {}]
  /\ at      = [s \in Scanners |-> None]
  /\ faults  = 0 /\ overlapped = FALSE /\ blind = FALSE

Fault == faults < MaxFaults /\ faults' = faults + 1

Goto(s, p) == pc' = [pc EXCEPT ![s] = p]

\* Done with the file; the walk goes on to the next.
Advance(s) ==
  /\ pc' = [pc EXCEPT ![s] = IF todo[s] = {} THEN "idle" ELSE "next"]
  /\ at' = [at EXCEPT ![s] = None]
  /\ UNCHANGED todo

SetRow(s, status) == row' = [row EXCEPT ![at[s]] = status]

Drop(f) ==
  /\ f \notin present
  /\ present' = present \cup {f}
  /\ UNCHANGED <<row, copies, derived, scan, history>>

\* (bug) whatever has a row is skipped.
BugSeenPaths == {f \in Files : row[f] # "none"}

\* (bug) what a scanner is busy with is skipped, and only that.
BugBusyPaths == {f \in Files : row[f] = "processing"}

\* get_completed_paths
CompletedPaths == {f \in Files : row[f] = "completed"}

Walk(s, skip) ==
  /\ pc[s] = "idle" /\ present \ skip # {}
  /\ todo' = [todo EXCEPT ![s] = present \ skip]
  /\ Goto(s, "next")
  /\ overlapped' = (overlapped \/ \E t \in Scanners : pc[t] # "idle")
  /\ UNCHANGED <<present, row, copies, derived, at, cut>>

StartScan(s) == Walk(s, CompletedPaths) /\ UNCHANGED <<faults, blind>>

\* The query fails: the set of completed files is taken to be empty.
StartScanBlindly(s) == Walk(s, {}) /\ Fault /\ blind' = TRUE

\* mark_processing: an upsert, whatever the row said.
MarkProcessing(s) ==
  /\ pc[s] = "next"
  /\ \E f \in todo[s] :
       /\ row'  = [row EXCEPT ![f] = "processing"]
       /\ todo' = [todo EXCEPT ![s] = @ \ {f}]
       /\ at'   = [at EXCEPT ![s] = f]
  /\ Goto(s, "read")
  /\ UNCHANGED <<present, copies, derived, history>>

MarkProcessingFails(s) ==
  /\ pc[s] = "next"
  /\ \E f \in todo[s] :
       /\ todo' = [todo EXCEPT ![s] = @ \ {f}]
       /\ Goto(s, IF todo[s] = {f} THEN "idle" ELSE "next")
  /\ Fault
  /\ UNCHANGED <<present, row, copies, derived, at, overlapped, blind, cut>>

Reject(s) ==
  /\ pc[s] = "read" /\ at[s] \in TooLarge
  /\ SetRow(s, "failed")
  /\ Advance(s)
  /\ UNCHANGED <<present, copies, derived, history>>

\* Metadata cannot be read, or mark_failed fails: the row stays as it is.
LeaveProcessing(s) ==
  /\ pc[s] = "read"
  /\ Advance(s)
  /\ Fault
  /\ UNCHANGED <<present, row, copies, derived, overlapped, blind, cut>>

\* The file is read, and the model extracts what is in it.
Extract(s) ==
  /\ pc[s] = "read" /\ at[s] \notin TooLarge
  /\ Goto(s, "store")
  /\ UNCHANGED <<present, row, copies, derived, todo, at, history>>

StoreMemory(s) ==
  /\ pc[s] = "store"
  /\ copies' = [copies EXCEPT ![at[s]] = IF @ = 0 THEN 1 ELSE 2]
  /\ Goto(s, "enqueue")
  /\ UNCHANGED <<present, row, derived, todo, at, history>>

EnqueueDerive(s) ==
  /\ pc[s] = "enqueue"
  /\ derived' = derived \cup {at[s]}
  /\ Goto(s, "complete")
  /\ UNCHANGED <<present, row, copies, todo, at, history>>

Stored(s) == pc[s] \in {"enqueue", "complete"}

CutShort(s) == cut' = IF Stored(s) THEN cut \cup {at[s]} ELSE cut

\* Reading, extracting, storing or enqueuing fails: mark_failed.
IngestFails(s) ==
  /\ pc[s] \in {"read", "store", "enqueue"}
  /\ SetRow(s, "failed")
  /\ CutShort(s)
  /\ Advance(s)
  /\ Fault
  /\ UNCHANGED <<present, copies, derived, overlapped, blind>>

MarkProcessed(s) ==
  /\ pc[s] = "complete"
  /\ SetRow(s, "completed")
  /\ Advance(s)
  /\ UNCHANGED <<present, copies, derived, history>>

\* Only a warning: the file counts as processed and is not marked.
MarkProcessedFails(s) ==
  /\ pc[s] = "complete"
  /\ CutShort(s)
  /\ Advance(s)
  /\ Fault
  /\ UNCHANGED <<present, row, copies, derived, overlapped, blind>>

Kill(s) ==
  /\ pc[s] # "idle"
  /\ CutShort(s)
  /\ Goto(s, "idle")
  /\ todo' = [todo EXCEPT ![s] = {}]
  /\ at'   = [at EXCEPT ![s] = None]
  /\ Fault
  /\ UNCHANGED <<present, row, copies, derived, overlapped, blind>>

Proceed(s) ==
  \/ StartScan(s) \/ MarkProcessing(s) \/ Reject(s) \/ Extract(s)
  \/ StoreMemory(s) \/ EnqueueDerive(s) \/ MarkProcessed(s)

Next ==
  \/ \E f \in Files : Drop(f)
  \/ \E s \in Scanners :
       \/ Proceed(s) \/ StartScanBlindly(s) \/ MarkProcessingFails(s)
       \/ LeaveProcessing(s) \/ IngestFails(s) \/ MarkProcessedFails(s) \/ Kill(s)

\* scan_interval_secs: every scanner goes on scanning.
Fairness == \A s \in Scanners : WF_vars(Proceed(s))

Spec == Init /\ [][Next]_vars /\ Fairness

-----------------------------------------------------------------------------
(* Properties *)

\* Files that are rejected, that fail or whose row stays "processing" are tried
\* again by every scan: still no file is ingested twice, as long as two scans do
\* not overlap and a scan learns what is completed, except one that was stored
\* by an attempt that ended before mark_processed (inbox.rs:136).
IngestedOnce ==
  ~overlapped /\ ~blind => \A f \in Files \ cut : copies[f] <= 1

\* A file that can be ingested ends up completed, whichever attempts fail, and
\* although a row is left "processing" by an attempt nobody will finish.
EventuallyCompleted ==
  \A f \in Files \ TooLarge : f \in present ~> row[f] = "completed"
=============================================================================
