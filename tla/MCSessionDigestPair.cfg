SPECIFICATION Spec
CONSTANTS
  follow1 = follow1  follow2 = follow2  endOfSession = endOfSession
  w1 = w1  w2 = w2  nobody = nobody
  Jobs <- MCJobs
  Forced <- MCForced
  Workers <- MCWorkers
  Nobody = nobody
  MinEvents = 1
  MaxMemories = 2
  MayOverrun = FALSE
  MaxAborts = 1
INVARIANT QuietHasPairs
CHECK_DEADLOCK FALSE
