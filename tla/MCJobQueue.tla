--------------------------- MODULE MCJobQueue ---------------------------
(* Small instances of JobQueue for TLC. *)
EXTENDS JobQueue, TLC

CONSTANTS j1, j2, j3, w1, w2, t1, t2, t3, t4, t5, noJob, noToken, queue

MCJobs     == {j1, j2, j3}
MCWorkers  == {w1, w2}
\* Three rows and the other worker's batch can refer to four tokens at most.
MCTokens   == {t1, t2, t3, t4, t5}
\* With one run cut short, one token outlives its claim.
MCFewTokens == {t1, t2, t3}
MCQueueOf  == [j \in MCJobs |-> queue]
\* A follow-up digest job (120) beside digest jobs asked for at a session's end (110).
MCPriority == [j \in MCJobs |-> IF j = j1 THEN 120 ELSE 110]
MCCorrupt  == {j2}


\* The abstract lease has holders but no tokens.
TokenSymmetric == Permutations(MCTokens)
=============================================================================
