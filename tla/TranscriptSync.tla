-------------------------- MODULE TranscriptSync --------------------------
(***************************************************************************)
(* How far a session's transcript has been ingested: last_processed_index  *)
(* in the session's sync state (nexus-hooks/src/sync_state.rs).  The hooks *)
(* of an agent run as processes of their own (nexus-cli's subconscious.rs) *)
(* that share no lock: `ingest-transcript` reads the lines after the index *)
(* and moves it, `recall` and `sync-check` load the whole state and save   *)
(* it later.                                                               *)
(*                                                                         *)
(* The agent writes a line in two pieces, and the transcript is read line  *)
(* by line meanwhile.  At the end of the file lines() takes what there is  *)
(* of a line for an entry; if there is more when it reads on, the rest is  *)
(* an entry too, and every later line has a number too high.  Every line   *)
(* is a message; a piece is one if only the end of the line is missing.    *)
(*                                                                         *)
(* A message is ingested when a child that was given it has succeeded.     *)
(* What the child keeps of a payload is not modelled: of a text that tells *)
(* of decisions, its first 12,000 characters (candidate.rs:297).           *)
(***************************************************************************)
EXTENDS Naturals

CONSTANTS
  Ingests,       \* ingest-transcript processes
  Readers,       \* recall and sync-check processes
  MaxLines       \* bound: the length of the transcript

Lines == 1 .. MaxLines
Index == 0 .. 2 * MaxLines   \* of entries, a line being two at most; 0 is None

VARIABLES
  complete,      \* lines that are written to their end
  torn,          \* what there is of another one: "none", "part" or "whole",
                 \* when it lacks its end only
  index,         \* last_processed_index on disk
  pc,            \* idle; loaded, sent (ingests) or loaded (readers)
  start,         \* start[p]: the index p loaded
  place,         \* place[p]: how far p has read: lines, is a piece of the
                 \* next one read, and entries
  sent,          \* sent[p]: the lines of p's payload
  upTo,          \* upTo[p]: the index p is to save
  ingested,      \* ingested[l]: payloads ingested with line l, 2 for more
  cut,           \* history: an ingest did not get to save its index
  overlapped,    \* history: two ingests ran at the same time
  broken,        \* history: the first line that was read as two entries
  stale          \* history: a save took the index back

process == <<pc, start, place, sent, upTo>>
history == <<cut, overlapped, broken, stale>>
vars == <<complete, torn, index, process, ingested, history>>

Process == Ingests \cup Readers

Beginning == [at |-> 0, mid |-> FALSE, entry |-> 0]

TypeOK ==
  /\ complete \in 0 .. MaxLines /\ torn \in {"none", "part", "whole"} /\ index \in Index
  /\ pc \in [Process -> {"idle", "loaded", "sent"}]
  /\ start \in [Process -> Index] /\ upTo \in [Process -> Index]
  /\ place \in [Process -> [at : 0 .. MaxLines, mid : BOOLEAN, entry : Index]]
  /\ sent \in [Process -> SUBSET Lines]
  /\ ingested \in [Lines -> 0 .. 2]
  /\ cut \in BOOLEAN /\ overlapped \in BOOLEAN /\ stale \in BOOLEAN
  /\ broken \in 1 .. MaxLines + 1

Init ==
  /\ complete = 0 /\ torn = "none" /\ index = 0
  /\ pc = [p \in Process |-> "idle"]
  /\ start = [p \in Process |-> 0] /\ upTo = [p \in Process |-> 0]
  /\ sent = [p \in Process |-> {}] /\ place = [p \in Process |-> Beginning]
  /\ ingested = [l \in Lines |-> 0]
  /\ cut = FALSE /\ overlapped = FALSE /\ stale = FALSE /\ broken = MaxLines + 1

\* The agent appends to the transcript, in more than one write.
BeginLine ==
  /\ torn = "none" /\ complete < MaxLines
  /\ torn' \in {"part", "whole"}
  /\ UNCHANGED <<complete, index, process, ingested, history>>

EndLine ==
  /\ torn # "none"
  /\ torn' = "none" /\ complete' = complete + 1
  /\ UNCHANGED <<index, process, ingested, history>>

-----------------------------------------------------------------------------
(* execute_ingest_transcript *)

LoadIndex(p) ==
  /\ p \in Ingests /\ pc[p] = "idle"
  /\ start' = [start EXCEPT ![p] = index]
  /\ pc' = [pc EXCEPT ![p] = "loaded"]
  /\ overlapped' = (overlapped \/ \E q \in Ingests : pc[q] # "idle")
  /\ UNCHANGED <<complete, torn, index, place, sent, upTo, ingested, cut, broken, stale>>

\* (bug) the index is that of the last entry, a message or not.
BugTake(p, next, message) ==
  LET entry == place[p].entry + 1
      new   == message /\ start[p] < entry
  IN  /\ pc[p] = "loaded" /\ p \in Ingests
      /\ place' = [place EXCEPT ![p] = [at |-> next.at, mid |-> next.mid, entry |-> entry]]
      /\ sent' = [sent EXCEPT ![p] = IF new THEN @ \cup {place[p].at + 1} ELSE @]
      /\ upTo' = [upTo EXCEPT ![p] = entry]

\* read_transcript_from: one more entry, kept if it is a message after the index.
Take(p, next, message) ==
  LET entry == place[p].entry + 1
      new   == message /\ start[p] < entry
  IN  /\ pc[p] = "loaded" /\ p \in Ingests
      /\ place' = [place EXCEPT ![p] = [at |-> next.at, mid |-> next.mid, entry |-> entry]]
      /\ sent' = [sent EXCEPT ![p] = IF new THEN @ \cup {place[p].at + 1} ELSE @]
      /\ upTo' = [upTo EXCEPT ![p] = IF new THEN entry ELSE @]

\* A line that is complete, ...
ReadLine(p) ==
  /\ ~place[p].mid /\ place[p].at < complete
  /\ Take(p, [at |-> place[p].at + 1, mid |-> FALSE], TRUE)
  /\ UNCHANGED <<complete, torn, index, pc, start, ingested, history>>

\* ... what there is of one at the end of the file, ...
ReadPiece(p) ==
  /\ ~place[p].mid /\ place[p].at = complete /\ torn # "none"
  /\ Take(p, [at |-> place[p].at, mid |-> TRUE], torn = "whole")
  /\ UNCHANGED <<complete, torn, index, pc, start, ingested, history>>

\* ... or the rest of it, if it is there by now.
ReadRest(p) ==
  /\ place[p].mid /\ place[p].at < complete
  /\ Take(p, [at |-> place[p].at + 1, mid |-> FALSE], FALSE)
  /\ broken' = IF place[p].at < broken THEN place[p].at + 1 ELSE broken
  /\ UNCHANGED <<complete, torn, index, pc, start, ingested, cut, overlapped, stale>>

AtEnd(p) == place[p].at = complete /\ (place[p].mid \/ torn = "none")

\* The child is given the messages.
Send(p) ==
  /\ p \in Ingests /\ pc[p] = "loaded" /\ AtEnd(p) /\ sent[p] # {}
  /\ pc' = [pc EXCEPT ![p] = "sent"]
  /\ UNCHANGED <<complete, torn, index, start, place, sent, upTo, ingested, history>>

Leave(p) ==
  /\ pc' = [pc EXCEPT ![p] = "idle"]
  /\ start' = [start EXCEPT ![p] = 0] /\ upTo' = [upTo EXCEPT ![p] = 0]
  /\ sent' = [sent EXCEPT ![p] = {}] /\ place' = [place EXCEPT ![p] = Beginning]

\* Nothing new, the process ends, or the child cannot be started or exits with an
\* error.
NothingIngested(p) ==
  /\ p \in Ingests
  /\ pc[p] = "loaded" \/ sent[p] # {}
  /\ Leave(p)
  /\ UNCHANGED <<complete, torn, index, ingested, history>>

Ingest(p) ==
  /\ pc[p] = "sent" /\ sent[p] # {}
  /\ ingested' = [l \in Lines |->
       IF l \in sent[p] THEN (IF ingested[l] = 0 THEN 1 ELSE 2) ELSE ingested[l]]
  /\ sent' = [sent EXCEPT ![p] = {}]
  /\ UNCHANGED <<complete, torn, index, pc, start, place, upTo, history>>

SaveIndex(i) == index' = i /\ stale' = (stale \/ i < index)

ChildSucceeded(p) == sent[p] = {}

\* The state is loaded again, advanced to the new index and saved.
Advance(p) ==
  /\ pc[p] = "sent" /\ ChildSucceeded(p)
  /\ SaveIndex(upTo[p])
  /\ Leave(p)
  /\ UNCHANGED <<complete, torn, ingested, cut, overlapped, broken>>

\* The process ends, the child stores the messages and exits with an error, or
\* the state cannot be loaded or saved.
AdvanceFails(p) ==
  /\ pc[p] = "sent" /\ sent[p] = {}
  /\ cut' = TRUE
  /\ Leave(p)
  /\ UNCHANGED <<complete, torn, index, ingested, overlapped, broken, stale>>

-----------------------------------------------------------------------------
(* execute_recall and execute_sync_check *)

LoadState(p) ==
  /\ p \in Readers /\ pc[p] = "idle"
  /\ start' = [start EXCEPT ![p] = index]
  /\ pc' = [pc EXCEPT ![p] = "loaded"]
  /\ UNCHANGED <<complete, torn, index, place, sent, upTo, ingested, history>>

\* advance(.., None): the index is saved as it was loaded.
SaveState(p) ==
  /\ p \in Readers /\ pc[p] = "loaded"
  /\ SaveIndex(start[p])
  /\ Leave(p)
  /\ UNCHANGED <<complete, torn, ingested, cut, overlapped, broken>>

\* The process ends, or a sync-check has nothing to show.
NothingSaved(p) ==
  /\ p \in Readers /\ pc[p] = "loaded"
  /\ Leave(p)
  /\ UNCHANGED <<complete, torn, index, ingested, history>>

Next ==
  \/ BeginLine \/ EndLine
  \/ \E p \in Process :
       \/ LoadIndex(p) \/ ReadLine(p) \/ ReadPiece(p) \/ ReadRest(p) \/ Send(p)
       \/ NothingIngested(p) \/ Ingest(p) \/ Advance(p) \/ AdvanceFails(p)
       \/ LoadState(p) \/ SaveState(p) \/ NothingSaved(p)

Spec == Init /\ [][Next]_vars

-----------------------------------------------------------------------------
(* Properties *)

\* No message is skipped: what the index has passed has been ingested, up to the
\* first line that some process has read as two entries, although the agent is
\* writing its last line, children fail and other hooks save states they loaded
\* before (subconscious.rs:348).
NothingSkipped == \A l \in Lines : l <= index /\ l < broken => ingested[l] > 0

\* Nor is a message ingested twice, unless two ingests overlap, one ends before
\* it has saved its index, or a save of an older state takes the index back.
NothingRepeated ==
  ~overlapped /\ ~cut /\ ~stale => \A l \in Lines : ingested[l] <= 1
=============================================================================
