SPECIFICATION FairSpec
CONSTANTS
  j1 = j1  j2 = j2  j3 = j3  w1 = w1  w2 = w2
  t1 = t1  t2 = t2  t3 = t3  t4 = t4  t5 = t5
  noJob = noJob  noToken = noToken  queue = queue
  Jobs <- MCJobs
  NoJob = noJob
  QueueOf <- MCQueueOf
  Priority <- MCPriority
  Corrupt <- MCCorrupt
  Workers <- MCWorkers
  Token <- MCFewTokens
  NoToken = noToken
  MaxAttempts = 2
  AttemptCap = 3
  LeaseTtl = 1
  BatchLimit = 2
  MayOverrun = FALSE
  MaxAborts = 1
INVARIANT ExclusiveWork
PROPERTY EventuallySettled
CHECK_DEADLOCK FALSE
