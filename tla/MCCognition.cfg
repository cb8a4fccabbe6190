SPECIFICATION CognitionSpec
CONSTANTS
  w1 = w1  w2 = w2  nobody = nobody
  Workers <- MCWorkers
  Nobody = nobody
  MinEvents = 2  MaxEvents = 3  HandMin = 3
  BatchSize = 1  LargeBatch = 2
  MaxMemories = 4
  MayOverrun = TRUE
  MaxFaults = 1
  Sources = {1, 2}  Derivable = {1}  MaxObs = 2  MaxRuns = 2
  Observations = {1, 2, 3}  Alike <- MCAlike  Opposed <- MCOpposed  Near <- MCAlike
  MinCluster = 3  MaxCandidates = 7  Bursts = {5}  MaxOther = 2
  Cyclers <- MCWorkers  MaxCycles = 2  MaxCuts = 1
  Producers <- MCWorkers  Requests = {r1, r2}  None = none  ListLimit = 1  MaxJobs = 3
  Commands <- MCWorkers  Histories <- MCHistories
  Reasons = {"SessionEnded", "IdleTimeout", "Manual"}
  Learned = {"contradiction"}  MaxCommands = 2  MaxLearned = 1  MaxErrors = 1
SYMMETRY Symmetric
INVARIANTS CognitionTypeOK RetiredWithEvidence QuietIsDistilled
  DoneIsFollowed DerivedOnce ReflectedOnce CountsBacked ClustersHaveInsights
  OneUnlessExcused NothingForgotten EndIsFollowed EndClears
CHECK_DEADLOCK FALSE
