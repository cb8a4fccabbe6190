-------------------------- MODULE FallbackClient --------------------------
(***************************************************************************)
(* FallbackClient::generate (nexus-llm/src/fallback.rs): a request asks    *)
(* the preferred client and, while the answer is a quota error, the next   *)
(* ones in the ring.  Requests share the preferred client, an atomic.      *)
(***************************************************************************)
EXTENDS Naturals

CONSTANTS
  Total,         \* how many clients there are
  Requests

Clients == 0 .. Total - 1

VARIABLES
  current,       \* the preferred client
  pc,            \* pc[r]: idle, asking, answered, quota or error
  start,         \* start[r]: what r took for the preferred client
  offset,        \* offset[r]: how many clients have refused r
  refused        \* history: refused[r], the clients that refused r

vars == <<current, pc, start, offset, refused>>

TypeOK ==
  /\ current \in Clients
  /\ pc \in [Requests -> {"idle", "asking", "answered", "quota", "error"}]
  /\ start \in [Requests -> Clients]
  /\ offset \in [Requests -> 0 .. Total]
  /\ refused \in [Requests -> SUBSET Clients]

Init ==
  /\ current = 0
  /\ pc = [r \in Requests |-> "idle"]
  /\ start = [r \in Requests |-> 0] /\ offset = [r \in Requests |-> 0]
  /\ refused = [r \in Requests |-> {}]

Generate(r) ==
  /\ pc[r] # "asking"
  /\ pc' = [pc EXCEPT ![r] = "asking"]
  /\ start' = [start EXCEPT ![r] = current]
  /\ offset' = [offset EXCEPT ![r] = 0]
  /\ refused' = [refused EXCEPT ![r] = {}]
  /\ UNCHANGED current

\* (bug) the ring is entered anew where the preferred client is by now.
BugIdx(r) == (current + offset[r]) % Total

\* (bug) the ring is not closed.
BugUnclosed(r) == start[r] + offset[r]

Idx(r) == (start[r] + offset[r]) % Total

Answer(r) ==
  /\ pc[r] = "asking"
  /\ pc' = [pc EXCEPT ![r] = "answered"]
  /\ current' = IF offset[r] > 0 THEN Idx(r) ELSE current
  /\ UNCHANGED <<start, offset, refused>>

\* On to the next client; the error of the last one is the request's.
Refuse(r) ==
  /\ pc[r] = "asking"
  /\ refused' = [refused EXCEPT ![r] = @ \cup {Idx(r)}]
  /\ offset' = [offset EXCEPT ![r] = @ + 1]
  /\ pc' = [pc EXCEPT ![r] = IF offset[r] + 1 < Total THEN "asking" ELSE "quota"]
  /\ UNCHANGED <<current, start>>

\* Any other error is returned at once.
Fail(r) ==
  /\ pc[r] = "asking"
  /\ pc' = [pc EXCEPT ![r] = "error"]
  /\ UNCHANGED <<current, start, offset, refused>>

Next == \E r \in Requests : Generate(r) \/ Answer(r) \/ Refuse(r) \/ Fail(r)

Spec == Init /\ [][Next]_vars

-----------------------------------------------------------------------------
(* Properties *)

\* A request fails with a quota error only if every client has refused it,
\* while other requests move the preferred client under it (fallback.rs:68).
QuotaMeansAll == \A r \in Requests : pc[r] = "quota" => refused[r] = Clients
=============================================================================
