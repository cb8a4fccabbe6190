SPECIFICATION ServicesSpec
CONSTANTS
  Files = {f1, f2}  TooLarge = {f2}  Scanners = {s1, s2}  None = none  MaxFaults = 1
  Hooks = {h1}  Cooldown = 2  Thresholds = {1, 2}  Retention = 2  Failures = TRUE  MaxTime = 2
  Events = {1, 2}  Candidates = {c1, c2}  Drains = {d1, d2}  DrainLimit = 1
  Ingests = {i1, i2}  Readers = {r1}  MaxLines = 2
  Processes = {p1, p2}  Tables = {1, 2, 3}  Healed = {3}  MaxCrashes = 2
  Total = 3  Requests = {q1, q2}
  Callers = {t1, t2, t3}
  Entries = {e1, e2}  Flushers = {a1, a2}  NoFile = noFile  Torn = torn  MaxRestarts = 2
  DirectSize = 1  EventSize = 2  MaxPings = 3
  Memories = {1, 2}  NoDatabase = noDatabase  MaxRuns = 2
  Session <- SessionOf  Statements <- MCStatements
  Table <- MCTable  Questions <- MCQuestions  Score <- MCScore  Aliases = 1  MaxNear = 3  Qualities = {1, 2}  MaxChanges = 1
  LastPhase = 2  MaxSize = 2  MaxChars = 14
INVARIANTS ServicesTypeOK IngestedOnce CooldownKept DeferredIsKept DrainedOnce
  NothingSkipped FlushedIsKept ReadyIsComplete QuotaMeansAll NeverStuck ValidatedMeansMigrated
  NothingGatheredIsCut
PROPERTIES EventuallyCompleted PingsAnswered
CHECK_DEADLOCK FALSE
