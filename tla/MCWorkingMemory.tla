------------------------- MODULE MCWorkingMemory -------------------------
(* Small instances of WorkingMemory for TLC. *)
EXTENDS WorkingMemory, TLC

CONSTANTS l1, l2, m1, m2, s1, s2, w1

MCLearnings == {l1, l2}
MCMemories  == {m1, m2}
MCLifecycle == {m2}
MCSessions  == {s1, s2}
MCWriters   == {w1}
\* Sessions, and learnings, are interchangeable.
Symmetric == Permutations(MCLearnings) \cup Permutations(MCSessions)
=============================================================================
