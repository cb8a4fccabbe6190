---------------------------- MODULE Services ----------------------------
(***************************************************************************)
(* What works beside the cognition jobs, each part by itself: a behaviour  *)
(* is one of the module that `part` names, and the variables of the others *)
(* stay as they began.                                                     *)
(***************************************************************************)
EXTENDS Naturals, Sequences, FiniteSets

CONSTANTS
  Files, TooLarge, Scanners, None, MaxFaults, Hooks, Cooldown, Thresholds,
  Retention, Failures, MaxTime, Events, Candidates, Drains, DrainLimit, Ingests, Readers,
  MaxLines, Processes, Tables, Healed, MaxCrashes, Total, Requests, Callers,
  Entries, Flushers, NoFile, Torn, MaxRestarts, DirectSize, EventSize, MaxPings,
  Memories, NoDatabase, MaxRuns, Aliases, MaxNear, Qualities, MaxChanges,
  LastPhase, MaxSize, MaxChars, Session(_), Statements, Table, Questions, Score(_, _)

\* Numbers of things and bounds.
ASSUME CountsAssumption ==
  /\ MaxLines \in Nat /\ MaxRestarts \in Nat /\ DrainLimit \in Nat /\ MaxFaults \in Nat
  /\ Cooldown \in Nat /\ MaxTime \in Nat /\ MaxCrashes \in Nat /\ MaxRuns \in Nat
  /\ Total \in Nat \ {0} /\ DirectSize \in Nat /\ EventSize \in Nat /\ MaxPings \in Nat
  /\ Aliases \in Nat /\ MaxNear \in Nat /\ MaxChanges \in Nat
  /\ LastPhase \in Nat \ {0} /\ MaxSize \in Nat /\ MaxChars \in Nat

\* No file is at hand.
ASSUME NoneAssumption == None \notin Files

\* Events are numbered by time, which their files are sorted by, from 1 on.
ASSUME EventsAssumption ==
  /\ \A S \in SUBSET Events : S # {} => \E e \in S : \A o \in S : e <= o
  /\ Events # {} /\ 0 \notin Events

\* A hook either ingests or reads; it is neither the supervisor nor the command.
ASSUME HooksAssumption == Ingests \cap Readers = {} /\ Hooks \cap {"supervisor", "rebuild"} = {}

\* A file that is not there, or torn, has no entries.
ASSUME FilesAssumption ==
  NoFile # Torn /\ \A S \in SUBSET Entries : S # NoFile /\ S # Torn

\* A migration has statements; the first, if it makes a table, makes no more
\* (migrations.rs:253), and a healed column is one of a table that is probed for.
ASSUME StatementsAssumption ==
  /\ Statements \in Seq(Nat \ {0}) /\ Statements # <<>>
  /\ Healed \subseteq Tables /\ Tables \subseteq DOMAIN Statements
  /\ 1 \in Tables => Statements[1] = 1

\* The memories of a database are finitely many, and numbered.
ASSUME MemoriesAssumption ==
  /\ IsFiniteSet(Memories)
  /\ \A S \in SUBSET Memories : S # {} => \E m \in S : \A n \in S : m <= n

\* A database that is not there has no contents.
ASSUME NoDatabaseAssumption ==
  \A db \in [rows : [Memories -> 0 .. MaxRuns], own : 0 .. 1,
             spaces : {"none", "some", "all"}, tainted : BOOLEAN] : db # NoDatabase

VARIABLES
  part,
  present, row, copies, derived, inboxPc, inboxTodo, inboxAt, inboxFaults,
  inboxOverlapped, blind, inboxCut,
  now, disk, copy, monitorPc, during, latest, early, raced,
  artifact, stored, retryPc, session, pending, retryAt, left, processed,
  retryFaults, swallowed, retryCut, retryOverlapped,
  complete, torn, index, syncPc, syncStart, place, sent, upTo, ingested, syncCut,
  syncOverlapped, broken, stale,
  done, recorded, migrationsPc, version, next, crashes, migrationsOverlapped,
  current, fallbackPc, fallbackStart, offset, refused,
  cacheTodo, holds,
  fresh, memory, file, tmp, bufferPc, fd, clearing, restarts, owed, restarted,
  excused,
  pinged, read, direct, events, answered, sender, open,
  orphans, target, backup, dataPc, dataTodo, passed, dataFaults, runs,
  active, request, queryPc, rep, included, phase, shown, answer, changes

inboxVars == <<present, row, copies, derived, inboxPc, inboxTodo, inboxAt,
               inboxFaults, inboxOverlapped, blind, inboxCut>>
monitorVars == <<now, disk, copy, monitorPc, during, latest, early, raced>>
retryVars == <<artifact, stored, retryPc, session, pending, retryAt, left,
               processed, retryFaults, swallowed, retryCut, retryOverlapped>>
syncVars == <<complete, torn, index, syncPc, syncStart, place, sent, upTo, ingested,
              syncCut, syncOverlapped, broken, stale>>
migrationsVars == <<done, recorded, migrationsPc, version, next, crashes,
                    migrationsOverlapped>>
fallbackVars == <<current, fallbackPc, fallbackStart, offset, refused>>
cacheVars == <<cacheTodo, holds>>
bufferVars == <<fresh, memory, file, tmp, bufferPc, fd, clearing, restarts, owed,
                restarted, excused>>
socketVars == <<pinged, read, direct, events, answered, sender, open>>
dataVars == <<orphans, target, backup, dataPc, dataTodo, passed, dataFaults, runs>>
queryVars == <<active, request, queryPc, rep, included, phase, shown, answer, changes>>
all == <<part, inboxVars, monitorVars, retryVars, syncVars, migrationsVars, fallbackVars,
         cacheVars, bufferVars, socketVars, dataVars, queryVars>>

Scan == INSTANCE Inbox
  WITH pc <- inboxPc, todo <- inboxTodo, at <- inboxAt, faults <- inboxFaults,
       overlapped <- inboxOverlapped, cut <- inboxCut
Monitor == INSTANCE ActivityMonitor
  WITH pc <- monitorPc
Retry == INSTANCE RetryBuffer
  WITH pc <- retryPc, at <- retryAt, faults <- retryFaults, cut <- retryCut,
       overlapped <- retryOverlapped
Sync == INSTANCE TranscriptSync
  WITH pc <- syncPc, start <- syncStart, cut <- syncCut,
       overlapped <- syncOverlapped
Schema == INSTANCE Migrations
  WITH pc <- migrationsPc, overlapped <- migrationsOverlapped
Fallback == INSTANCE FallbackClient
  WITH pc <- fallbackPc, start <- fallbackStart
Cache == INSTANCE EmbeddingCache
  WITH todo <- cacheTodo
Buffer == INSTANCE PersistentBuffer
  WITH pc <- bufferPc
Socket == INSTANCE WebSocket
Copy == INSTANCE DataMigration
  WITH pc <- dataPc, todo <- dataTodo, faults <- dataFaults
Ask == INSTANCE Query
  WITH pc <- queryPc

\* The store has finitely many memories, numbered by age, and is asked questions.
ASSUME QuestionsAssumption ==
  /\ IsFiniteSet(DOMAIN Table) /\ DOMAIN Table \subseteq Nat
  /\ Table \in [DOMAIN Table -> Ask!Row]
  /\ Questions \subseteq Ask!Request

Parts == {"inbox", "monitor", "retry", "sync", "migrations", "fallback", "cache",
          "buffer", "socket", "data", "query"}

ServicesInit ==
  /\ part \in Parts
  /\ Scan!Init /\ Monitor!Init /\ Retry!Init /\ Sync!Init /\ Schema!Init /\ Fallback!Init /\
     Cache!Init /\ Buffer!Init /\ Socket!Init /\ Copy!Init /\ Ask!Init
  /\ part # "migrations" => done = {}
  /\ part # "data" => target = NoDatabase /\ orphans = {}
  /\ part # "query" => request = CHOOSE r \in Questions : TRUE

\* What the other parts have is left alone.
Only(p) ==
  /\ part = p /\ UNCHANGED part
  /\ p # "inbox" => UNCHANGED inboxVars
  /\ p # "monitor" => UNCHANGED monitorVars
  /\ p # "retry" => UNCHANGED retryVars
  /\ p # "sync" => UNCHANGED syncVars
  /\ p # "migrations" => UNCHANGED migrationsVars
  /\ p # "fallback" => UNCHANGED fallbackVars
  /\ p # "cache" => UNCHANGED cacheVars
  /\ p # "buffer" => UNCHANGED bufferVars
  /\ p # "socket" => UNCHANGED socketVars
  /\ p # "data" => UNCHANGED dataVars
  /\ p # "query" => UNCHANGED queryVars

ServicesNext ==
  \/ Only("inbox") /\ Scan!Next
  \/ Only("monitor") /\ Monitor!Next
  \/ Only("retry") /\ Retry!Next
  \/ Only("sync") /\ Sync!Next
  \/ Only("migrations") /\ Schema!Next
  \/ Only("fallback") /\ Fallback!Next
  \/ Only("cache") /\ Cache!Next
  \/ Only("buffer") /\ Buffer!Next
  \/ Only("socket") /\ Socket!Next
  \/ Only("data") /\ Copy!Next
  \/ Only("query") /\ Ask!Next

\* Every scanner goes on scanning; the runtime runs both tasks of a connection.
ServicesFairness ==
  /\ \A s \in Scanners : WF_all(Only("inbox") /\ Scan!Proceed(s))
  /\ WF_all(Only("socket") /\ Socket!Receive)
  /\ WF_all(Only("socket") /\ Socket!Send)

ServicesSpec == ServicesInit /\ [][ServicesNext]_all /\ ServicesFairness

-----------------------------------------------------------------------------
(* Properties *)

\* The variables of all the parts have their types.
ServicesTypeOK ==
  /\ Scan!TypeOK
  /\ Monitor!TypeOK
  /\ Retry!TypeOK
  /\ Sync!TypeOK
  /\ Schema!TypeOK
  /\ Fallback!TypeOK
  /\ Cache!TypeOK
  /\ Buffer!TypeOK
  /\ Socket!TypeOK
  /\ Copy!TypeOK
  /\ Ask!TypeOK

\* Files that are rejected, that fail or whose row stays "processing" are tried
\* again by every scan: still no file is ingested twice, as long as two scans do
\* not overlap and a scan learns what is completed, except one that was stored
\* by an attempt that ended before mark_processed (inbox.rs:136).
IngestedOnce == Scan!IngestedOnce

\* A file that can be ingested ends up completed, whichever attempts fail, and
\* although a row is left "processing" by an attempt nobody will finish.
EventuallyCompleted == Scan!EventuallyCompleted

\* Whoever dreams by the monitor's leave, the supervisor or the command, does not
\* begin within the cooldown of a dream completed before, although hooks save over
\* its record: the supervisor saves it again after it has merged their samples
\* (supervisor.rs:339).  Excepted is what comes after the command ran during an
\* iteration of the supervisor's, after a hook saved what it had loaded before a
\* dream was completed and nobody was left to save the record again, and after a
\* record was not saved because the process ended or could not save.
CooldownKept == Monitor!CooldownKept

\* A deferred candidate is in a readable file or in the store, wherever a drain
\* ends and however many run at the same time, unless storing it failed: the
\* warning counts as success and the file goes (ingest_hook_event.rs:327).
DeferredIsKept == Retry!DeferredIsKept

\* A candidate is stored once, although commands drain again and again, as long
\* as no two drains of a session run at the same time, except those of a file
\* whose drain ended before it removed the file (session.rs:305).
DrainedOnce == Retry!DrainedOnce

\* No message is skipped: what the index has passed has been ingested, up to the
\* first line that some process has read as two entries, although the agent is
\* writing its last line, children fail and other hooks save states they loaded
\* before (subconscious.rs:348).
NothingSkipped == Sync!NothingSkipped

\* Whoever has opened the database finds all of the schema, from whichever
\* statement an earlier start was interrupted at and whichever release made the
\* database, unless two processes were migrating it at the same time: then one
\* may record, by its table, a migration the other is in the middle of
\* (migrations.rs:176).
ReadyIsComplete == Schema!ReadyIsComplete

\* A request fails with a quota error only if every client has refused it,
\* while other requests move the preferred client under it (fallback.rs:68).
QuotaMeansAll == Fallback!QuotaMeansAll

\* The operations never wait for each other in a circle: get takes the lock of
\* the misses inside the map's (cache.rs:60), stats and clear take both
\* counters' inside it, and some caller can always go on.
NeverStuck == Cache!NeverStuck

\* What a flush has put on disk is there, to be recovered, until it is recovered
\* or cleared, whenever no flush is under way and wherever the process ends --
\* unless a restarted process flushes before it has recovered the file, a flush
\* overlaps a clear, or the process ends in two overlapping flushes, one of which
\* had renamed the file the other was writing (buffer.rs:212).
FlushedIsKept == Buffer!FlushedIsKept

\* Every ping is answered, unless the connection ends: neither a flood of events
\* nor a full channel of pongs keeps a pong back for ever (websocket.rs:72).
PingsAnswered == Socket!PingsAnswered

\* A target that passes validation and has no memories of others has every memory
\* of the source once: no run that skipped memories or read none passes by its
\* counts, whatever others stored and deleted meanwhile.  Excepted is a target on
\* which a run was begun when it had copies, or failed, and one that is restored
\* from, or was saved to, a file copied without its -wal file (migrate.rs:1820).
ValidatedMeansMigrated == Copy!ValidatedMeansMigrated

\* What the buckets gather is not cut by the ranking: their limits add up to the
\* budget whatever it is, wherever they overlap and whatever is archived between
\* their statements (representation.rs:79, ranking.rs:94).  Only of a budget of
\* nothing, query_context_limit = 0, are they given one place, and what is read for
\* it is cut.  Of what is ranked a memory is kept from the model only if, beside all
\* that is shown, it and what its section lists before it do not fit
\* (integration.rs:467); fewer than three are always shown.
NothingGatheredIsCut == Ask!NothingGatheredIsCut
=============================================================================
