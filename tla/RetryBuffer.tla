--------------------------- MODULE RetryBuffer ---------------------------
(***************************************************************************)
(* The retry buffer (nexus-hooks/src/retry_buffer.rs): a hook event whose  *)
(* enrichment fails is written to a file, and the session commands of      *)
(* nexus-cli (session.rs) ingest such files of their session again, when   *)
(* a session is compacted, checkpointed or ended.  Commands of one session *)
(* may run at the same time.  An event stands for its file; its candidates *)
(* are stored one by one; one that the model rejects counts as stored.     *)
(*                                                                         *)
(* A fault is a storage error or the end of the process.                   *)
(***************************************************************************)
EXTENDS Naturals, FiniteSets

CONSTANTS
  Events,        \* numbered by time: list_pending sorts by it
  Candidates,    \* what is derived from an event
  Drains,        \* commands that drain
  Session(_),    \* the session of an event
  DrainLimit,    \* max_artifacts
  MaxFaults      \* bound: how many faults happen

Sessions == {Session(e) : e \in Events}
NoEvent  == 0    \* not one of Events

VARIABLES
  artifact,      \* artifact[e]: unseen, none, torn or ready
  stored,        \* stored[e][c]: memories of candidate c, 2 for more than one
  pc,            \* pc[d]: idle, next, store or remove
  session,       \* session[d]: whose artifacts d drains
  pending,       \* pending[d]: its list of files, those it has not come to
  at,            \* at[d]: the file it is at
  left,          \* left[d]: candidates of it that are still to be stored
  processed,     \* processed[d]: files it has drained
  faults,
  swallowed,     \* history: candidates whose store failed with a warning
  cut,           \* history: events stored by a drain that did not remove them
  overlapped     \* history: two drains of one session ran at the same time

drain == <<pc, session, pending, at, left, processed>>
history == <<faults, swallowed, cut, overlapped>>
vars == <<artifact, stored, drain, history>>

TypeOK ==
  /\ artifact \in [Events -> {"unseen", "none", "torn", "ready"}]
  /\ stored \in [Events -> [Candidates -> 0 .. 2]]
  /\ pc \in [Drains -> {"idle", "next", "store", "remove"}]
  /\ session \in [Drains -> Sessions]
  /\ pending \in [Drains -> SUBSET Events]
  /\ at \in [Drains -> Events \cup {NoEvent}]
  /\ left \in [Drains -> SUBSET Candidates]
  /\ processed \in [Drains -> 0 .. DrainLimit]
  /\ faults \in 0 .. MaxFaults
  /\ swallowed \in SUBSET (Events \X Candidates)
  /\ cut \in SUBSET Events /\ overlapped \in BOOLEAN

Init ==
  /\ artifact = [e \in Events |-> "unseen"]
  /\ stored = [e \in Events |-> [c \in Candidates |-> 0]]
  /\ pc = [d \in Drains |-> "idle"]
  /\ session = [d \in Drains |-> CHOOSE s \in Sessions : TRUE]
  /\ pending = [d \in Drains |-> {}] /\ left = [d \in Drains |-> {}]
  /\ at = [d \in Drains |-> NoEvent]
  /\ processed = [d \in Drains |-> 0]
  /\ faults = 0 /\ swallowed = {} /\ cut = {} /\ overlapped = FALSE

Fault == faults < MaxFaults /\ faults' = faults + 1

-----------------------------------------------------------------------------
(* Hooks *)

\* Enrichment fails: write_failed.
Defer(e) ==
  /\ artifact[e] = "unseen"
  /\ artifact' = [artifact EXCEPT ![e] = "ready"]
  /\ UNCHANGED <<stored, drain, history>>

\* The hook ends in the middle of fs::write.
DeferIsCut(e) ==
  /\ artifact[e] = "unseen"
  /\ artifact' = [artifact EXCEPT ![e] = "torn"]
  /\ Fault
  /\ UNCHANGED <<stored, drain, swallowed, cut, overlapped>>

-----------------------------------------------------------------------------
(* drain_retry_buffer_for_session *)

OnDisk == {e \in Events : artifact[e] \in {"torn", "ready"}}

ListPending(d, s) ==
  /\ pc[d] = "idle" /\ OnDisk # {}
  /\ pending' = [pending EXCEPT ![d] = OnDisk]
  /\ session' = [session EXCEPT ![d] = s]
  /\ processed' = [processed EXCEPT ![d] = 0]
  /\ pc' = [pc EXCEPT ![d] = "next"]
  /\ overlapped' = (overlapped \/ \E o \in Drains : pc[o] # "idle" /\ session[o] = s)
  /\ UNCHANGED <<artifact, stored, at, left, faults, swallowed, cut>>

Oldest(d) == CHOOSE e \in pending[d] : \A o \in pending[d] : e <= o

Leave(d) ==
  /\ pc' = [pc EXCEPT ![d] = "idle"]
  /\ pending' = [pending EXCEPT ![d] = {}]
  /\ left' = [left EXCEPT ![d] = {}]
  /\ at' = [at EXCEPT ![d] = NoEvent]
  /\ UNCHANGED <<session, processed>>

Drained(d) ==
  /\ pc[d] = "next"
  /\ pending[d] = {} \/ processed[d] = DrainLimit
  /\ Leave(d)
  /\ UNCHANGED <<artifact, stored, history>>

Take(d) ==
  /\ pc[d] = "next" /\ pending[d] # {} /\ processed[d] < DrainLimit
  /\ pending' = [pending EXCEPT ![d] = @ \ {Oldest(d)}]

\* A file that is gone, that cannot be read or that is another session's.
Skip(d) ==
  /\ Take(d)
  /\ artifact[Oldest(d)] # "ready" \/ Session(Oldest(d)) # session[d]
  /\ UNCHANGED <<artifact, stored, pc, session, at, left, processed, history>>

\* (bug) the file is removed as soon as it is read.
BugTaken(e) == artifact' = [artifact EXCEPT ![e] = "none"]

\* The file stays where it is until its candidates have been ingested.
Taken(e) == UNCHANGED artifact

Read(d) ==
  /\ Take(d)
  /\ artifact[Oldest(d)] = "ready" /\ Session(Oldest(d)) = session[d]
  /\ Taken(Oldest(d))
  /\ at' = [at EXCEPT ![d] = Oldest(d)]
  /\ left' = [left EXCEPT ![d] = Candidates]
  /\ pc' = [pc EXCEPT ![d] = "store"]
  /\ UNCHANGED <<stored, session, processed, history>>

\* process_normalized_event without buffering: persist_enriched_memories, or
\* store_candidates_directly when the language model still does not answer.
Store(d, c) ==
  /\ pc[d] = "store" /\ c \in left[d]
  /\ left' = [left EXCEPT ![d] = @ \ {c}]
  /\ pc' = [pc EXCEPT ![d] = IF left[d] = {c} THEN "remove" ELSE "store"]
  /\ UNCHANGED <<artifact, session, pending, at, processed, cut, overlapped>>

StoreSucceeds(d, c) ==
  /\ Store(d, c)
  /\ stored' = [stored EXCEPT ![at[d]][c] = IF @ = 0 THEN 1 ELSE 2]
  /\ UNCHANGED <<faults, swallowed>>

\* "Failed to store candidate directly", and on with the next one.
StoreFails(d, c) ==
  /\ Store(d, c)
  /\ Fault
  /\ swallowed' = swallowed \cup {<<at[d], c>>}
  /\ UNCHANGED stored

\* (bug) the file is left for the next drain.
BugRemovePending(e) == UNCHANGED artifact

RemovePending(e) == artifact' = [artifact EXCEPT ![e] = "none"]

Remove(d) ==
  /\ pc[d] = "remove" /\ artifact[at[d]] = "ready"
  /\ RemovePending(at[d])
  /\ processed' = [processed EXCEPT ![d] = @ + 1]
  /\ pc' = [pc EXCEPT ![d] = "next"]
  /\ at' = [at EXCEPT ![d] = NoEvent]
  /\ UNCHANGED <<stored, session, pending, left, history>>

\* Another drain has removed it: the error ends the command.
RemoveFails(d) ==
  /\ pc[d] = "remove" /\ artifact[at[d]] = "none"
  /\ Leave(d)
  /\ UNCHANGED <<artifact, stored, history>>

\* The process ends, or the cognition jobs cannot be enqueued.
Interrupt(d) ==
  /\ pc[d] # "idle"
  /\ cut' = IF left[d] # Candidates /\ at[d] # NoEvent THEN cut \cup {at[d]} ELSE cut
  /\ Leave(d)
  /\ Fault
  /\ UNCHANGED <<artifact, stored, swallowed, overlapped>>

Next ==
  \/ \E e \in Events : Defer(e) \/ DeferIsCut(e)
  \/ \E d \in Drains :
       \/ \E s \in Sessions : ListPending(d, s)
       \/ Drained(d) \/ Skip(d) \/ Read(d)
       \/ \E c \in Candidates : StoreSucceeds(d, c) \/ StoreFails(d, c)
       \/ Remove(d) \/ RemoveFails(d) \/ Interrupt(d)

Spec == Init /\ [][Next]_vars

-----------------------------------------------------------------------------
(* Properties *)

\* A deferred candidate is in a readable file or in the store, wherever a drain
\* ends and however many run at the same time, unless storing it failed: the
\* warning counts as success and the file goes (ingest_hook_event.rs:327).
DeferredIsKept ==
  \A e \in Events, c \in Candidates :
    artifact[e] = "none" => stored[e][c] > 0 \/ <<e, c>> \in swallowed

\* A candidate is stored once, although commands drain again and again, as long
\* as no two drains of a session run at the same time, except those of a file
\* whose drain ended before it removed the file (session.rs:305).
DrainedOnce ==
  ~overlapped => \A e \in Events \ cut, c \in Candidates : stored[e][c] <= 1
=============================================================================
