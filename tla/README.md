# A TLA+ verification of the Nexus Memory System

Nexus captures what coding agents do, turns it into memories, digests them and brings them
back into later sessions. Its background cognition is a set of small jobs in SQLite, drained
by whichever task gets there first; its hooks are short-lived processes that share files; its
working memory is a file that several processes rewrite. This directory models that machinery
in TLA+, checks it with TLC on small instances and proves its central guarantees with TLAPS
for instances of any size.

Paths below are relative to `src/crates/` unless they start with `src/`.

## 1. The system and its parts

| Part | State | Operations | Talks to |
|---|---|---|---|
| Job queue (`nexus-storage/src/repository.rs`) | table `memory_jobs`: status, claim token, lease expiry, attempts | enqueue, claim a batch, complete, fail or retry, fail corrupt rows, purge | every producer and every worker below |
| Job processors (`nexus-agent/src/job_processor.rs`) | a claimed batch in memory | claim, work, settle or leave by the first error; `enqueue_job_if_absent` | the queue, all of the following |
| Distillation (`nexus-agent/src/distill.rs`, `nexus-cli/src/commands/distill.rs`, `clean.rs`, `ingest_hook_event.rs`) | raw events, their summaries and evidence | store an event, then ask for its job; list, summarise, archive; the same by hand; delete what is archived | queue, `memories`, `memory_evidence` |
| Derivation (`nexus-agent/src/derive.rs`) | observations of a memory | store them one by one, then ask for a reflection and a digest | queue, `memories` |
| Reflection (`nexus-agent/src/reflect.rs`) | records of pairs, counters in metadata, insights | gather, compare, record, count, cluster | `memories`, `memory_evidence` |
| Session digests (`nexus-agent/src/digest.rs`) | table `session_digests` | roll-over threshold, look up, gather, register short and long | job processors, `memories` |
| Working memory (`nexus-agent/src/cognitive_cache.rs`, `session_manager.rs`, `dream_cycle.rs`) | `.nexus/cache/hot.json`, `.nexus/sessions/*.md` | load, promote, save; start, append, merge, retire a scratch file; nap, dream | hooks at session start and end, the web interface, the rescorer, the deep dream |
| Inbox (`nexus-agent/src/inbox.rs`, `ingest.rs`) | rows of `processed_files`, stored memories | scan, mark, ingest, mark again | supervisor, queue |
| Activity monitor (`nexus-agent/src/activity_monitor.rs`, `supervisor.rs`) | a JSON log of activity per project | record, ask whether to dream, merge, save | hooks, supervisor, `nexus soul rebuild` |
| Supervisor (`nexus-agent/src/supervisor.rs`) | three tasks, a cancel token | start, stop with a timeout | queue, inbox, monitor |
| Runtime (`nexus-agent/src/runtime.rs`, `runtime_state.rs`, `nexus-cli/src/commands/session.rs`) | a state file per session; it adds memories and jobs | ensure started; mark, drain, plan and dream, remove the state | hooks, queue, memories |
| Retry buffer (`nexus-hooks/src/retry_buffer.rs`, `nexus-cli/src/commands/session.rs`) | one file per deferred hook event | defer, list, ingest again, remove | ingestion |
| Persistent buffer (`nexus-hooks/src/buffer.rs`) | entries in memory and their file | buffer, flush, recover, clear | session hooks |
| Transcript synchronisation (`nexus-hooks/src/sync_state.rs`, `nexus-cli/src/commands/subconscious.rs`) | the index of the last processed message | read what is new, ingest, advance | hooks of the agent |
| Schema migrations (`nexus-storage/src/migrations.rs`) | table `schema_migrations`, the schema | count, probe an old database, apply, record | every process that opens the database |
| Data migration (`nexus-cli/src/commands/migrate.rs`) | source, target, backup | run, validate, roll back | users |
| Language model clients (`nexus-llm/src/fallback.rs`) | index of the preferred client | call, move to the next client | all processors |
| Embedding cache (`nexus-embeddings/src/cache.rs`) | a map and two counters, each with its lock | get, put, clear, stats | embedding services |
| WebSocket (`nexus-web/src/websocket.rs`) | a connection's two tasks and their channels | read pings, send pongs and events | dashboard |
| Query (`nexus-agent/src/query.rs`, `representation.rs`, `ranking.rs`, `nexus-lephase/src/integration.rs`) | none of its own | gather five buckets, rank, write the context, answer, refine, fall back; explain | repository, language model |
| Hooks' agents and payloads, recall, context, deep dream and soul, Le-phase, event bus, CLI, MCP, web API | connections, text | parsing, prompts, facades | users, agents |

What is hard here:

* **Overlapping workers.** The supervisor's poller, session-end naps, dreams, deep dreams and
  manual commands all drain the same queue, in one process or several. Only the lease keeps
  them apart, and one lease covers a batch of language-model calls.
* **Interruption anywhere.** A nap runs under a timeout that drops its future; processes of
  hooks are short-lived; an error leaves a drain by `?`. Rows stay RUNNING, files half retired,
  pairs half registered, and the next run has to make sense of them.
* **Two stores, two transactions.** A memory and its job, a file and its row, an ingested
  transcript and its index, a migration and its record are written one after the other.
* **Read, then write.** `fail_job`, the roll-over threshold, `enqueue_job_if_absent`, the
  counters of reflection, every user of `hot.json`, of the activity log and of the sync state
  decide on something read earlier.
* **Bounds.** Attempts, batch size, list limits, the window of a reflection cycle, the budget of a
  query and the length of its context, cache capacity with pins.

`PROJECT.json` lists these hazards at their lines, with the properties that watch over them or
the reason none does.

## 2. The modules

    JobLease               the abstract lease: what the queue promises
      ^ refined by
    JobQueue               the memory_jobs table and its workers     MCJobQueue
      JobQueueProofs, JobLeaseProofs
    JobWorker              the loop of a worker, over JobLease
      ^ used by
    Distillation           raw events and summaries                  \
      DistillationProofs                                              |
    Derivation             observations and follow-ups                | Cognition        MCCognition
    Reflection             pairs, counters, insights                  |   CognitionProofs
    EnqueueIfAbsent        two scans and an insert                    |
    Runtime                start, events and end of a session        /
    SessionDigest          digests of one session, over JobLease     MCSessionDigest
      SessionDigestProofs
    WorkingMemory          hot cache, scratch files, naps, writers   MCWorkingMemory
      WorkingMemoryProofs
    RetryBuffer, TranscriptSync, PersistentBuffer,                   \
    Inbox, ActivityMonitor, Migrations, FallbackClient,               | Services         MCServices
    EmbeddingCache, WebSocket, DataMigration, Query                  /    HooksProofs, ServicesProofs
    ActivityMonitor by itself, for finding 5                         MCActivityMonitor

`JobLease` is the hinge: `JobQueue` is proved to implement it, and the modules of the workers
(`SessionDigest` directly, `Distillation` and `Derivation` through `JobWorker`) use its actions as
the queue they work against, so that what they show rests on the proved contract and not on the
table's columns.

### JobQueue and JobLease

A row of the table is `status`, `token`, `lease` and `attempts`; a worker is its batch (`held`),
the batch's token (`claim`) and, inside `fail_job`, the job and the decision it read (`failing`,
`verdict`). Each action is one SQL statement:

| Action | Code |
|---|---|
| `EnqueueJob` | `enqueue_job` |
| `ClaimJobs` | the UPDATE ... RETURNING of `claim_jobs`; queues are pairs (namespace, job type) |
| `ScreenCorrupt` | `permanently_fail_job` for rows of the batch whose JSON does not parse |
| `CompleteJob` | `complete_job` |
| `FailJobRead`, `FailJobWrite` | the SELECT and the UPDATE of `fail_job` |
| `LostLease` | "lost lease ownership": the error leaves the drain with the rest of the batch |
| `Abort` | a dropped future, a killed process, a storage error |
| `Tick` | a second passes; leases count down to `Expired` |
| `PurgeCompletedJobs`, `PurgePermanentlyFailedJobs` | the two DELETEs |

`MayOverrun = TRUE` lets a batch outlast its lease, which the code permits (eight jobs share one
lease of 120 s). `MayOverrun = FALSE` is the operating assumption under which work is exclusive.
Token text, perspectives, payloads, error texts and the wall clock are abstracted; a token is
fresh when neither a row nor a worker refers to it.

The contract is `Submit`, `Grant` (open or lapsed jobs only), `Settle` (the holder only), `Lose`,
`Lapse`, `Remove`. The refinement mapping in `JobQueue` (`PhaseOf`, `HolderOf`) makes a job's
holder the one worker whose claim matches the row's token.

### JobWorker, Distillation, Derivation

`JobWorker` is the loop that every `process_*_jobs` function runs: `Claim` a batch, go from step
to step for the `First` of its jobs, `Settle` it by the outcome, and `Leave` with the first error.
Its state is the lease's and, per worker, the batch and the step (`pc`).

`Distillation` numbers the memories of a session in the order they were created (`kind`, `state`,
`mark`, `evidence`). The hook's two transactions are `StoreEvent` and `EnqueueDistillJob`, with
`HookDies` and errors between them; a worker goes `ClaimDistillJobs`, `ListEvents`,
`DistillSession` (one transaction: the summary, its evidence, the archived sources, see
`StoreSummary`), `SettleJob`; the command is `ListByHand`, `DistillByHand`, `HandGivesUp`, without
a lease and without looking again; `nexus clean` is `ListForCleaning`, `DeleteBatch`. Nothing
ties evidence to memories by a foreign key, and the model has none either.

`Derivation` has a source per job: `ReuseExisting` is the early return of `derive.rs:85`,
`StoreObservation` one transaction each, `EnqueueReflect` and `EnqueueDigest` the follow-ups, and
`DeriveFails`, `LostLease`, `Abort` end a run at any of these.

### Reflection, EnqueueIfAbsent

A cycle of `Reflection` is `Gather`, `LoadPairEvidence`, then for each pair `StoreReflection` and
for both members `ReadCounter` and `WriteCounter` (the whole metadata is read, changed and
written), and at the end `FormClusters`, `FindExisting`, `StoreInsight`. `Cut` ends it anywhere.
A cycle sees the observations among the newest `MAX_CANDIDATES` = 100 memories of the namespace
(`Candidates`; `rows` counts memories, and `StoreOthers` stores such as are no observations), so
that a cluster that is spread over more than these gets no insight: `ClustersHaveInsights` speaks
of clusters inside the window. Memories that are archived or deleted leave the window in the code;
the model has neither. Which contents agree (`Alike`), contradict (`Opposed`) or are near each
other is given;
`ReflectAssumption` says how these relations are related, and follows from the order of the
code's thresholds.

`EnqueueIfAbsent` has callers that `Scan` the pending jobs, then the running ones, each up to the
list limit, and `Enqueue`, `Suppress` or `GiveUp`; meanwhile workers `Start`, `StartOver`,
`Gather`, `Complete`, `Retry` and `FailForGood` the jobs.

### Runtime

The commands of one session's hooks, each a process: `BeginStart` (a start or an event) goes
through `ReadState`, `Truncate` and `WriteState` of the state file and a drain; `BeginEnd` through
`Record`, `Mark`, `Drain`, `ListMemories`, `CountDigests` with the plan (`DreamSchedule`),
`EnqueueReflect`, `EnqueueDigest`, `Finalize` and `RemoveState`. `DreamCut` is an error or a
timeout where the code only logs it, `Leave` any other error, or a kill. `Learn`, `Distill` and
`Work` are what others do to the session's memories and jobs meanwhile. A memory is a member of
the classes the plan's signals count; they are counted over the newest 512 memories of the session
(`dream_cycle.rs:451`), and the model takes a session to have no more.

### SessionDigest

The digest jobs of one session, each a job of `JobLease`. A worker's `pc` walks through
`process_digest_jobs` and `digest_session`: threshold (unless a job of the group is forced),
existing, gather, short, long, then one settling statement per job of the group. Memories are
counted in rowid order and a digest is the last memory it covers, which is how the code relates
them (`end_memory_id`).

### WorkingMemory

`hot` is hot.json, `copy[t]` what task `t` has loaded, `scratch` and `files` the session files.
`Promoted` is the set of caches a series of `promote` calls may leave: refresh what is there,
evict an unpinned entry when full, refuse when everything is pinned. A session goes through
`LoadForRecall`, `MorningRecall`, `StartSession`, `AppendLearning`, `EndSession`, `NapLoad`,
`MergeSession`, `NapSave`, `MarkSessionMerged`; `Writers` load and `Boost` or `SaveUnchanged`;
`Cut` ends a task at any step. The session start drops entries that are session lifecycle
markers (`Lifecycle`), which the properties allow for. `append_learning` has callers only in
tests of this repository: agents are expected to use it while their session is open, and the
code asks no more than that the file exists.

### The services

| Module | State | Actions and the code they stand for |
|---|---|---|
| `Inbox` | `present`, `row` (status of a processed file), `copies`, `derived`, scanners' `pc` | `StartScan` (or `StartScanBlindly`, when the list of completed files cannot be read), `MarkProcessing`, `Reject`, `Extract`, `StoreMemory`, `EnqueueDerive`, `MarkProcessed`, an error of each, `Kill` |
| `ActivityMonitor` | `disk` (the log and the last dream), `copy` of every task | `HookLoads`, `HookSaves`; `SupervisorLoads`, `DeepDream`, `DeepDreamEnds`, `MergeLog`, `SupervisorSaves`, `SupervisorStops`; `RebuildBegins`, or `ForcedRebuild`, to `RebuildSaves`; failures; `Tick` |
| `RetryBuffer` | `artifact` (a file is absent, torn or whole), `stored`, drains' lists | `Defer`, `DeferIsCut`, `ListPending`, `Take` or `Skip`, `Read`, `StoreSucceeds`, `StoreFails`, `Remove`, `Interrupt` |
| `TranscriptSync` | `complete` lines and a `torn` one, `index`; per process the `place` it has read to | `BeginLine`, `EndLine`; `LoadIndex`, `ReadLine`, `ReadPiece`, `ReadRest`, `Send`, `Ingest`, `Advance`; `LoadState`, `SaveState` of the other hooks; errors |
| `Migrations` | statements `done`, versions `recorded`, per process the version and the statement | `CountApplied`, `Probe`, `Heal`, `RecordFound`, `SkipApplied`, `Apply`, `Record`, `Finish`, `Crash` |
| `FallbackClient` | `current`, per request where it `start`ed and its `offset` | `Generate`, `Answer`, `Refuse` (a quota error), `Fail` |
| `EmbeddingCache` | what each caller has still `todo`, what it `holds` | `Call` (of an operation, a sequence of takes and releases), `Go` |
| `PersistentBuffer` | `memory`, `file`, `tmp`, flushers | `BufferContext`, `Truncate`, `Write`, `Rename`, `RecoverBuffer`, `ClearMemory`, `ClearFile`, `Discard`, `Restart` |
| `WebSocket` | pings, pongs in `direct`, `events` | `Ping`, `Publish`, `ReadPing`, `SendPong`, `SendEvent`, `Lag`, `Close`; which goes first is the `biased` select (`PongFirst`) |
| `DataMigration` | `target`, `backup`, a command's step | `Run`, `PrepareTarget`, `MigrateNamespaces`, `InsertMemory`, `SkipMemory`, `Complete`, failures, `Rollback`, `Validate`; `Store` and `Delete` of others, to whom the target belongs as well |
| `Query` | the request, the five buckets (`rep`), what is ranked first (`included`) and what of it the context shows (`shown`), `answer` | `GatherDigests`, `GatherRecent`, `GatherSemantic`, `GatherDerived`, `GatherContradictions`, `Rank`, `LightweightContext` or a `PhaseContext` for each section, `GenerateAnswer`, `RefineAnswer`, `Fail`, `QueryLegacy`; `Archive` by other tasks |

*TranscriptSync* reads line by line, as `lines()` does over a file the agent is appending to: a
piece at the end of the file is an entry, and when the agent has written on, the rest of the line
is another one. *DataMigration* does not trust a copied file: the target is opened in WAL mode, and
a backup or a rollback copies the one file (`migrate.rs:1820`, `:1886`), so what it then holds is
any of `Uncertain`. *Query* writes a context of three or more memories section by section, a
section for each phase: a memory that does not fit into `MaxChars` ends its section, and the next
one is tried. Sizes are in units; a heading, with the mark of a cut, counts as one.

These parts share no state with each other, so `Services` composes them, and `Cognition` the
cognition jobs' work, as a sum: a variable `part` says which module a behaviour is one of, and the
others stay as they began. One run then has all of them, with as many states as they have together
and not their product; `MCServices` and `MCCognition` only give the constants. The composition is
also where the proofs are about: a theorem on `ServicesSpec` or `CognitionSpec` speaks of the same
specification as the run does, and the assumptions on the constants are `ASSUME`s of these two
modules, which TLC evaluates. What does interact is composed for real: workers with the lease,
events with jobs and summaries, hooks with the supervisor over one log.

## 3. The runs

| Run | Instance | What it shows |
|---|---|---|
| `queue_safety` | 3 jobs (priorities 120, 110, 110; one corrupt), 2 workers, batches of 2, 2 attempts, leases of 1 s, overrun allowed, 1 abort; about 215,000 states | `SingleHolder`; `RetryDecisionFresh`; `RetryBudget`; `ImplementsJobLease` |
| `queue_prompt` | the same without overrun, fair | `ExclusiveWork`; `EventuallySettled` |
| `queue_attempts` | no corrupt job, 2 aborts | `AttemptsLimited` fails: finding 1 |
| `digest_crash` | 2 follow-up jobs and 1 forced, 2 workers, 2 memories, overrun allowed, 1 abort; about 1,060,000 states | `DoneIsDigested`; `ForcedHasBoth` |
| `digest_steady` | the same without overrun or abort, fair | `QuietHasPairs`; `EventuallyDigested` |
| `digest_pair` | 1 abort, no overrun | `QuietHasPairs` fails: finding 2 |
| `digest_forced` | no abort, no overrun | `ForcedIsFresh` fails: finding 3 |
| `working_memory` | 2 sessions, 2 learnings, 2 memories (one a lifecycle marker), 1 writer, capacity 2, 2 tasks cut short; about 16,000 states | types and capacity; `MergedIsSaved`; `LeavesOnlyWhenFull`; `PinsStay` |
| `working_memory_race` | the same, tasks overlap | `MergedIsSaved` fails: finding 4 |
| `cognition` | 2 workers and 6 parts, see below; about 2,170,000 states | types; `RetiredWithEvidence`; `QuietIsDistilled`; `DoneIsFollowed`; `DerivedOnce`; `ReflectedOnce`; `CountsBacked`; `ClustersHaveInsights`; `OneUnlessExcused`; `NothingForgotten`; `EndIsFollowed`; `EndClears` |
| `services` | 11 parts, see below; about 804,000 states | types; `IngestedOnce`; `EventuallyCompleted`; `CooldownKept`; `DeferredIsKept`; `DrainedOnce`; `NothingSkipped`; `FlushedIsKept`; `ReadyIsComplete`; `QuotaMeansAll`; `NeverStuck`; `ValidatedMeansMigrated`; `PingsAnswered`; `NothingGatheredIsCut` |
| `activity_samples` | 1 hook, the supervisor, the command; no failures | `DreamKeepsSamples` fails: finding 5 |

**Bounds of the queue, the digests and the working memory.** Two workers are enough for every
conflict the code can have over a row: all guards compare one claim with one row. Three jobs of
which two fit a batch give the prefix order of a claim, a full and a partial batch, and a corrupt
row in either. `MaxAttempts = 2` gives a first try, a retry and a final failure; `AttemptCap` lets
the counter pass the limit by one and then saturates it. Leases of one second have all three
phases of the comparison with now: running, expiring this second, lapsed. Five tokens are more
than three rows and one other worker can refer to, four. Two memories give a digest that covers
everything, one that is stale and an empty session; two follow-up jobs and a forced one give every
kind of group. Capacity 2 with four items gives room, a full cache, a full cache of pins and an
evicted newcomer.

**Bounds of `cognition`.** *Distillation*: four memories, of which two make a distillation and
three fill its window, so that a session has too few events, just enough and more than one batch
reads; batches of one with overrun (two workers over the same events) and, as a part of its own,
batches of two without; one fault. These satisfy `SmallBatches`, without which `QuietIsDistilled`
may fail (section 4): with the same window, claims of five jobs and no fault, five events are claimed
at once, the newest three are summarised, and two are left without a job. *Derivation*: one source that can be derived and one that is
skipped, two observations, so that a run can end between them, and two runs. *Reflection*: three
observations that agree in a chain and one contradiction, clusters of three, two workers with two
cycles each and one cut: the smallest instance where cycles see different parts of a cluster. A
window of seven memories, into which others store five at once: a cluster may fall inside it or
be divided by it.
*EnqueueIfAbsent*: two callers, two requests, three jobs and a list limit of one, which a second
job of the same status exceeds. *Runtime*: two processes and two commands in all, so that two ends,
or a start and an end, meet at every step; one error or kill, one contradiction that comes late;
sessions with one raw event, and with a contradiction in ten memories, which is the density
between the thresholds. Every plan but `Skip` comes up.

**Bounds of `services`.** *Inbox*: a file that can be ingested and one that is too large, two
scanners, one fault. *ActivityMonitor*: times 0 to 2, a cooldown of 2, both thresholds, a hook,
failing saves and killed processes: two dreams fit into a cooldown. *Retry*:
two events with two candidates, in two sessions, two drains with a limit of one. *Sync*: two
lines, two ingests and another hook: a line can be whole, torn, or written while it is read.
*Migrations*: five (three make tables, one of them with columns to heal; up to three statements each), two processes, two
crashes. *Fallback*: three clients, two requests. *Cache*: three callers, since a waiting writer
between two readers is what blocks a lock. *Buffer*: two entries, two flushers, two restarts.
*WebSocket*: three pings, a channel of one for the pongs and of two for the events. *Data*: two memories, two
runs, of the source's memories any without a namespace, one memory that others store. *Query*: budgets of 0, 1, 2, 4, 7, 10, 16 and 20, which are all the cases of the shares
(`n < 10`, `n >= 10`, `n >= 16`, places left for recent memories or not), with and without a
perspective, and thirty memories that fill every bucket at every budget and overlap between two
of them; one memory archived meanwhile. Memories of two phases and two lengths, and a context of
14 units: with budgets up to 7 it holds all that is ranked, with 10 sometimes, with 16 and 20
never.

**Deadlock** is not checked: jobs, memories and tasks are finite in number, and a system that
has settled everything stops. Where waiting is the question, `NeverStuck` states it.

**Fairness.** `queue_prompt` and `digest_steady`: the cognition worker ticks every
`scan_interval_secs` and drains every queue in each pass (`supervisor.rs`,
`drain_cognition_jobs`), whatever other workers do meanwhile: strong fairness for claiming a
queue, by some worker. A worker that holds a batch goes on until an error, a timeout or its
process's death, of which there are at most `MaxAborts`: weak fairness for each worker's next
step. Clocks advance: weak fairness for `Tick` and `LapseLeases`. `services`: the supervisor scans
the inbox every interval, so each scanner's next step is weakly fair; the runtime runs both tasks
of a connection, so `Receive` and `Send` are. No fairness is assumed of producers, users, hooks,
aborts, faults or purges.

**Symmetry** is used where it is sound: never with a liveness property; in `queue_safety` for
tokens only, because the abstract lease's holders are workers; in `cognition` for workers.

**Exceptions in the properties** are the code's, not the model's: each was put in when TLC showed
the property failing without it, is recorded by a history variable (`overlapped`, `cut`, `stale`,
`excused`, ...) and is named in the property's comment. They say under which conditions the code
keeps its promise, which is what a reader wants to know of code without a lock.

**Mutants.** Every property is shown to fail for a plausible bug: the `Bug...` operators sit
beside the definition they replace, and `PROJECT.json` pairs them.

## 4. Findings

1. **The retry limit does not limit attempts.** `repository.rs:100` calls it the "Maximum number
   of retry attempts before a job is permanently failed"; only `fail_job` looks at it. A job whose
   runs die before `fail_job` is claimed again each time its lease lapses.
2. **Half a pair of digests can stay.** A run cut short between the two registrations leaves the
   short digest; the retried job is then skipped as below the threshold, which is computed over
   both kinds.
3. **`force` is ignored** (`digest.rs:71` against `_force`): a forced digest may be older than the
   memories it was asked for. The comment inside the function (line 82) says the code means it.
4. **Retiring a scratch file can lose a learning** although the cache was saved first: between the
   merge's read and the rename the file can grow, and another task's stale save can undo the nap's.
5. **Samples recorded during a deep dream are lost.** `supervisor.rs:334` reloads the log "to merge
   any samples recorded by hooks during the deep-dream run", but `run_deep_dream` has by then
   saved the supervisor's older log over them (`dream_cycle.rs:719`).

Other disagreements were met on the way, are followed by the models where they are modelled, and
have no run of their own:

* `activity_monitor.rs:19` calls the cooldown "Minimum time between deep dreams". The supervisor asks
  the copy it loaded at the beginning of the iteration, before a threshold dream, and does not see
  what `nexus soul rebuild` recorded since: two deep dreams within the cooldown. This is what
  `raced` excepts from `CooldownKept`.
* `sync_state.rs:18` calls the index that of the "last-processed transcript entry". A line that is
  read in two pieces while the agent writes it makes two entries, neither of which parses, and all
  later ones have a number too high: the index that is saved has passed messages that no process
  ingests (`transcript.rs:139`, `subconscious.rs:348`). `NothingSkipped` speaks of the lines before
  the first such line, `broken`.
* "Validate migration integrity" (`migrate.rs:1776`) compares two numbers. It passes with a memory
  missing that was skipped for its namespace, when another process has stored one of its own in the
  target, which is by default the live database. Hence `own = 0` in `ValidatedMeansMigrated`.
* `types.rs:60` says that a lineage "Explains why a memory appeared in query context"; `query.rs:233`
  gives the answer lineages of all that was ranked, also of what `format_for_model` left out
  (`integration.rs:476`). `NothingGatheredIsCut` tells the two apart, `included` and `shown`.
* `start_session`'s comment says an existing scratch file is overwritten; the code appends to it.
  The comment on the supervisor's stop timeout speaks of force-aborting; the tasks are detached.
* `inbox.rs:56` announces "falling back to per-file checks" and goes on with an empty set, so that
  completed files are ingested again (`StartScanBlindly`).
* `nexus distill` shows the model the newest batch and archives the whole window, although
  `repository.rs:1833` calls what is archived safe to prune.
* `ingest_hook_event.rs:236` and `:327` log a failed store and count the event as persisted.
* `migrations.rs:5` calls repeated runs safe; two processes that migrate an old database at the
  same time are an exception of `ReadyIsComplete`.
* `reflect.rs:120` calls a cycle idempotent; two overlapping ones are the exception of
  `ReflectedOnce`.
* ARCHITECTURE.md:366 promises "adaptive dream scheduling rather than naive always-maximal
  processing". The end of a session never adapts: `flush_and_shutdown` stores its marker as an
  explicit memory before it collects the signals, and an explicit memory makes
  `choose_dream_schedule` choose `ImmediateBounded` for `SessionEnded`, the only reason a command
  passes. The other plans are for callers with another reason; `Skip`, and the drain after a
  digest-only plan (`runtime.rs:283`), cannot come up. `EndIsFollowed` rests on the same chain.
* `ensure_started` drains the namespace of the canonical agent name, the other commands work in
  that of the name as given: for a session under an alias (`claude`) the start drains nothing of
  its own. The hooks that are installed pass canonical names, which is what Runtime assumes.
* `build_phase_aware_context` annotates lines that begin with "[Memory #"; `format_for_model` writes
  none, so that the model is told neither the buckets nor the numbers it is to cite.
* `migrate.rs` says it skips relations and inserts rows that relate memory 1 to itself; the
  backup of a run without a path is not where the rollback looks; the validation compares counts,
  and two counts that could not be read are equal.
* A claim's jobs of one session are completed together, on the strength of the first one's run
  (`distill.rs:116`). When that run read a window whose newest events another worker was about to
  retire, or failed, the others' events have no job left: with batches that are not small against
  the number of events a distillation takes, all jobs can be done and a distillation's worth of
  events remain. `SmallBatches` is the condition under which this cannot happen; the defaults
  (batches of 8, 8 events) satisfy it for one worker and no failure, not for two.
* `query_context_limit` has no lower clamp (`config.rs:57`). With a budget of 0 the limits of the
  buckets still leave one place, and what was gathered for it is cut: the exception of
  `NothingGatheredIsCut`.
* Introspection gathers up to three times the budget before it cuts to it (`query.rs:474`), the
  query gathers just its budget (`NothingGatheredIsCut`): the explanation includes and excludes
  other memories than the query does. A draft answer whose refinement fails is dropped for a
  plain text search (`query.rs:214`). With a perspective, the statement for derived memories
  counts all levels towards its limit, so that newer memories of other levels may crowd them out
  (`repository.rs:982`).

## 5. What is proved

All theorems are checked by TLAPS and hold for every value of the constants under the assumptions
named. `IInv`, or `...Inv`, stands for a component's inductive invariant.

| Module | Theorem | Statement |
|---|---|---|
| `JobQueueProofs` | `TypeCorrect`, `SingleHolderHolds`, `RetryDecisionFreshHolds`, `RetryBudgetHolds` | `Spec => []...` |
| | `ExclusiveWorkHolds` | `MayOverrun = FALSE` gives `Spec => []ExclusiveWork` |
| `JobLeaseProofs` | `QueueImplementsLease` | `Spec => ImplementsJobLease` |
| `SessionDigestProofs` | `TypeCorrect`, `DoneIsDigestedHolds`, `LongHasShortHolds`, `ForcedHasBothHolds` | `Spec => []...` |
| | `QuietHasPairsHolds` | `MaxAborts = 0` gives `Spec => []QuietHasPairs` |
| `WorkingMemoryProofs` | `TypeCorrect` | `Spec => []TypeOK`, the capacity included |
| | `MergedIsSavedHolds`, `LeavesOnlyWhenFullHolds`, `PinsStayHolds` | `Overlap = FALSE` gives the action properties |
| `DistillationProofs` | `TypeCorrect`, `RetiredWithEvidenceHolds` | `Spec => []...` |
| | `QuietIsDistilledHolds` | `SmallBatches(BatchSize)` gives `Spec => []QuietIsDistilled` |
| `HooksProofs` | `NothingSkippedHolds`, `NothingRepeatedHolds` | the transcript: `ServicesSpec => []...` |
| | `DeferredIsKeptHolds`, `DrainedOnceHolds` | the retry buffer |
| | `FlushedIsKeptHolds` | the persistent buffer |
| `ServicesProofs` | `QuotaMeansAllHolds`, `IngestedOnceHolds`, `CooldownKeptHolds`, `ReadyIsCompleteHolds`, `ValidatedMeansMigratedHolds`, `NeverStuckHolds`, `NothingGatheredIsCutHolds` | `ServicesSpec => []...` |
| | `ServicesTypeCorrect` | the types of all eleven parts, from a theorem for each |
| `CognitionProofs` | `OneUnlessExcusedHolds`, `NothingForgottenHolds` | the two scans: `CognitionSpec => []...` |
| | `EndIsFollowedHolds`, `EndClearsHolds` | the runtime |
| | `DerivedOnceHolds`, `DoneIsFollowedHolds` | derivation |
| | `ReflectedOnceHolds`, `CountsBackedHolds`, `ClustersHaveInsightsHolds` | reflection |
| | `BatchesRetireWithEvidence`, `SmallBatchesAreDistilled` | distillation with claims of one job and of several |
| | `CognitionTypeCorrect` | the types of all the parts |

So every invariant and every action property that a run checks and finds to hold is a theorem:
without further hypotheses but for the exclusive lease, digests without aborts, tasks that take
turns on the hot cache and small batches, which the runs assume as well.

The assumptions on constants are named `ASSUME`s, which TLC evaluates in the runs: in `JobQueue`
(`NoJob` and `NoToken` are not identifiers, priorities are integers, corrupt jobs are jobs, limits
are positive, the saturation bound is above the attempts limit), in `Distillation`, and in
`Services` and `Cognition` for the modules they compose, since an instantiated module may not
assume anything of its own. They say that bounds are numbers, that markers (`None`, `NoFile`, ...)
are not things, that sets a program enumerates are finite, and a few facts the code rests on: the
first migration, if it is probed for by its table, makes no more than that; an insight takes more
than two observations; what agrees is near. Histories, tables, questions, cooldowns, rings of
clients, migrations and numbers of processes are otherwise any.

How the arguments go:

* **Queue.** `RowsConsistent` (token and lease are set exactly while a row is running, an absent
  row has no attempts) and `ClaimsConsistent` (a worker has a token exactly while it has a batch,
  no two workers have the same token, `fail_job` works inside the batch) make the properties
  inductive. `SingleHolder` follows because a row has one token. `RetryDecisionFresh` holds because
  a row's attempts change only with its token: a claim that overtakes a worker inside `fail_job`
  also makes its UPDATE miss. `RetryBudget` needs that in turn. For `ExclusiveWork`, `BatchKept`
  says that a held job still carries the worker's token and an unexpired lease, so that no other
  claim finds it.
* **Refinement.** A lemma for each abstract step and one case for each action of the queue.
* **Digests.** What a worker's step knows is an invariant of its own (`WorkersKnow`, `Known`): past
  "short" the short digest is there, a verdict of a group with a forced job was not reached through
  the threshold, and so on; digests are never removed, so that another worker cannot take the
  ground from under it. Without aborts, a short digest without its long one has a worker on the way
  to register it.
* **Working memory.** `PromotedFacts` says what any series of promotions preserves: the capacity,
  the pins, and an entry lost only when the cache is full. When tasks do not overlap, the copy that
  is saved is the one that was loaded from what is on disk now (`InTurn`).
* **Distillation.** The summary, its evidence and the marks are one transaction: whichever list a
  worker or the command works from, it names events (`SourcesAreEvents`), and the transaction
  makes both sides of the equivalence true together.
* **Distillation comes to an end.** `QuietInv` looks at the memories as they will be when some of the
  workers that have listed a window have stored their summary, for every set of such workers:
  from any event that is left on, there are fewer events than a distillation takes and *pending*
  jobs make up for, or else so many other memories have come later that the event is out of every
  window. A pending job is one whose run has yet to look: `Pending`. A claim, a settled job, a lost
  lease takes none of them away; a new event brings its own; a worker that finds too few events
  proves the bound afresh, from what its window shows (`WindowIsFull`, `BeyondWindow`). The one step
  that needs batches to be small is a listing that finds enough while others are about to retire
  the same events (`HeldByFew`, `SmallEnough`), and a failure leaves one pending job in place of its
  batch (`FailPending`). The same invariant is inductive for claims of one and of several jobs
  (`StepsOf`), which is how it carries over to `Cognition`.
* **Derivation.** A job that did not lapse under its worker is leased to it (`Leased`), so only one
  run stores at a time (`OneRun`); who has begun to store has both follow-ups ahead of it, or has
  enqueued them (`Follows`).
* **Reflection.** Cycles that do not overlap have only pairs to do that nobody has recorded (`Alone`).
  For the counters, what is still to be counted for a record is kept free for it (`Backed`, for the
  value on disk and for the value each cycle has loaded). For the insights, the youngest member of
  a cluster is the key: the cycle that recorded its agreement had gathered everything older that
  is still in the window (`Witnessed`; what a cycle has seen is `Whole`, since the window only ever
  moves on by age, `Ages`), and pursued every large component to the end (`Pursues`).
* **The two scans.** What a scan has not found is not there later, unless it is excused
  (`ScannedFor`), so that nobody inserts a second job.
* **Runtime.** From its marker on, an end sees an observation (`EndPlans`), by which
  `choose_dream_schedule` never skips it; what it has asked for by each step is `EndAsks`.
* **Transcript.** A process that has read up to a line has numbered it right, unless a line before
  it was two entries to someone (`PlacesRight`), and has in its payload all lines up to there that
  its index had not passed; whatever index it may save has been ingested up to the first line that
  is `broken` (`IndexesPassed`). For once only, ingests that do not overlap take turns
  (`OneAtATime`, `SentByIngests`).
* **Retry buffer.** A drain that has stored, failed or rejected all candidates of a file is the only
  one that removes it (`DrainsKnow`); while drains of a session are apart, what a drain has yet to
  store is not stored (`Apart`, `Stored`).
* **Persistent buffer.** Whatever is owed is in memory (`OwedIsHeld`), and the file and the temporary
  one are each whole unless a flush that has them open is about to write them (`FileIsKept`,
  `TmpIsGood`): overlapping flushes share the temporary file's name.
* **Fallback.** A request has been refused by the clients from where it started up to its offset
  (`RefusedInOrder`), and these close the ring, wherever the shared index has moved.
* **Inbox.** A stored memory has a completed row, or the scanner that stored it is still at the file
  (`StoredOnce`).
* **Activity monitor.** `early` is measured against the latest dream whoever completed it. As long
  as nothing that `raced` names has happened, that dream is what the file says, or somebody who
  knows of it is to save again (`DreamIsRecorded`), the supervisor's copy holds it from its load
  to its save, and the command does not run in between: so the guard that a dream passes, on a
  copy, is the guard on the latest dream.
* **Migrations.** What is recorded is complete, and while nothing is recorded every table that is
  there is whole but for the column that is healed (`IsWhole`, `ProgressOf`).
* **Data migration.** A database on which no run began when it had copies, none failed, and which
  was not copied as a file alone, has no memory of the source twice (`Clean`). With no
  memories of others the number of rows is then the number of different memories of the source that
  are there, so that equal counts mean all of them: `own = 0` is what a count cannot tell.
* **Embedding cache.** The locks have an order; who holds one goes on with a release or a later
  lock (`Leads`), for each of the operations, hence some caller can always go.
* **Query.** The five limits are computed for every budget and add up to it; the first `n` of any
  strict order are at most `n`; the buckets are unions of such. A memory that a section left out
  did not fit beside what was shown then, and what is shown and the headings only grow
  (`LeftOutDidNotFit`, `LengthGrows`, `HeadingsGrow`).

Facts about numbers that need induction (the least of some numbers, the greatest of finitely many)
come from the well-foundedness of `<` and a least counterexample (`LeastNat`); so does `HeldByFew`,
which is an induction over the size of a set.

Only model-checked: the liveness properties (`EventuallySettled`, `EventuallyDigested`,
`EventuallyCompleted`, `PingsAnswered`), which need fairness and ENABLED, out of the prover's
reach; and the runs of section 4 that show a property violated.

## 6. What would come next

1. Breadth: the repository's backfill of cognition, relations and specifications in the data
   migration (`migrate.rs`), namespaces, the cold index and the clean-up of merged files in
   `WorkingMemory`, and the revision of beliefs in `Reflection`.
2. The steps of `list_by_session_key` and of vector search that the query and the digests take as
   given, as operators with a reference definition.
3. Safety theorems under which the liveness properties follow by hand: that a claim or a tick is
   possible in every state that is not settled.
4. A weaker condition than `SmallBatches` for sessions whose hooks go on to store events.

## 7. Not modelled

* **Text.** Prompts, answers and their parsing, context files, soul files and deep dreams, labels,
  payload extraction, Le-phase but for the cut of a context. The models have what is decided by text as a choice or a constant.
* **Floating point.** Relevance, blended scores, vector search, decay: orders that are given.
* **Facades.** The CLI's output, MCP, the web API but for what changes shared state. Most of the
  code by lines is of these three kinds, or is tests inside the source files, which is why the map
  covers the part of the code that has state to be got wrong and not most of its lines.
* **The supervisor as such.** Its tasks are modelled, their start and stop only by letting every
  task be cut short and overlap with its successor; `stop` has no caller in the program.
* **Event bus of the orchestrator.** A broadcast channel of tokio with no state of its own.
* **Storage below a statement.** A SQL statement is atomic, and so is a transaction; so is
  `atomic_write`, except where a module is about the write itself (`PersistentBuffer`,
  `RetryBuffer`). An unreadable `hot.json` is left out.
* **Branches that cannot run.** `store` merges a duplicate when the insert was ignored, which the
  present schema never does (a migration drops the trigger).
* **Several sessions in one claim of digest jobs**, which share nothing but the batch; the revision
  of beliefs but for its counter; observations that are archived or deleted before a reflection
  cycle gathers them; what a child of `ingest-transcript` keeps of a payload (of a text that tells
  of decisions, the first 12,000 characters, `candidate.rs:297`), a sync state that cannot be
  loaded, and lines that are empty or too long; two data migrations at a time; the age limit of retry files, which no command uses.
