SPECIFICATION Spec
CONSTANTS
  l1 = l1  l2 = l2  m1 = m1  m2 = m2  s1 = s1  s2 = s2  w1 = w1
  Learnings <- MCLearnings
  Memories <- MCMemories
  Lifecycle <- MCLifecycle
  Sessions <- MCSessions
  Writers <- MCWriters
  MaxEntries = 2
  Overlap = TRUE
  MaxCrashes = 2
CHECK_DEADLOCK FALSE
SYMMETRY Symmetric
PROPERTY MergedIsSaved
