---------------------------- MODULE JobLease ----------------------------
(***************************************************************************)
(* What the job queue promises its users, without tables, tokens, clocks   *)
(* or statements: a job is handed to at most one holder at a time, only    *)
(* that holder can settle it, a hand-over needs the previous lease to have *)
(* lapsed, and a settled job is never reopened.                            *)
(***************************************************************************)
CONSTANTS Jobs, Workers, Nobody

VARIABLES phase, holder

vars == <<phase, holder>>

Phase == {"absent", "open", "leased", "lapsed", "done", "dead", "removed"}

Init ==
  /\ phase  = [j \in Jobs |-> "absent"]
  /\ holder = [j \in Jobs |-> Nobody]

\* The phase and the holder of every job of S; the rest keep theirs.
Move(S, p) == phase' = [j \in Jobs |-> IF j \in S THEN p ELSE phase[j]]
Give(S, h) == holder' = [j \in Jobs |-> IF j \in S THEN h ELSE holder[j]]

Submit(j) ==
  /\ phase[j] = "absent"
  /\ Move({j}, "open")
  /\ UNCHANGED holder

\* A batch goes to one worker.  Its jobs are open, or their lease lapsed.
Grant(w, S) ==
  /\ \A j \in S : phase[j] \in {"open", "lapsed"}
  /\ Move(S, "leased")
  /\ Give(S, w)

\* Only the holder settles; a lapsed lease nobody has taken over still counts.
Settle(w, j, p) ==
  /\ holder[j] = w
  /\ phase[j] \in {"leased", "lapsed"}
  /\ p \in {"open", "done", "dead"}
  /\ Move({j}, p)
  /\ Give({j}, Nobody)

\* The holder of the jobs of S is gone.  They stay leased until they lapse.
Lose(S) ==
  /\ Give(S, Nobody)
  /\ UNCHANGED phase

Lapse(S) ==
  /\ \A j \in S : phase[j] = "leased"
  /\ Move(S, "lapsed")
  /\ UNCHANGED holder

Remove(S) ==
  /\ \A j \in S : phase[j] \in {"done", "dead"}
  /\ Move(S, "removed")
  /\ UNCHANGED holder

Next ==
  \/ \E j \in Jobs : Submit(j)
  \/ \E w \in Workers, S \in SUBSET Jobs : Grant(w, S)
  \/ \E w \in Workers, j \in Jobs, p \in Phase : Settle(w, j, p)
  \/ \E S \in SUBSET Jobs : Lose(S) \/ Lapse(S) \/ Remove(S)

Spec == Init /\ [][Next]_vars
=============================================================================
