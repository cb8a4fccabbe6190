------------------------- MODULE MCSessionDigest -------------------------
(* Small instances of SessionDigest for TLC. *)
EXTENDS SessionDigest, TLC

CONSTANTS follow1, follow2, endOfSession, w1, w2, nobody

\* Two follow-ups of derivations and the digest of a session's end.
MCJobs    == {follow1, follow2, endOfSession}
MCForced  == {endOfSession}
MCWorkers == {w1, w2}
Symmetric == Permutations(MCWorkers) \cup Permutations({follow1, follow2})
=============================================================================
