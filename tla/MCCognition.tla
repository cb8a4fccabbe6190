--------------------------- MODULE MCCognition ---------------------------
(* Cognition with two workers, which run the other parts too. *)
EXTENDS Cognition, TLC

CONSTANTS w1, w2, nobody

MCWorkers == {w1, w2}
MCAlike   == {{1, 2}, {2, 3}}
MCOpposed == {{1, 3}}

\* A session with a raw event, and one with a contradiction in ten memories besides.
MCHistories ==
  {[raw |-> 1, observed |-> 0, contested |-> c, contradiction |-> 0, other |-> 9 * c] :
    c \in {0, 1}}

Symmetric == Permutations(MCWorkers)
==========================================================================
