--------------------------- MODULE Reflection ---------------------------
(***************************************************************************)
(* Reflection cycles (nexus-agent/src/reflect.rs) over the observations of *)
(* one perspective.  A cycle gathers them, loads which pairs have been     *)
(* reflected on, stores a record for every other pair that agrees or       *)
(* contradicts, counts it in the metadata of both members, and finally     *)
(* stores an insight for each large enough cluster.  A cycle for the       *)
(* perspective and one for the whole namespace are different jobs, which   *)
(* different workers may run at the same time.                             *)
(*                                                                         *)
(* Which contents agree, contradict or are near each other is given; the   *)
(* threshold for an agreement is above the one for a cluster.              *)
(*                                                                         *)
(* A cycle sees a window: the newest MAX_CANDIDATES memories of the        *)
(* namespace, in which records, insights and whatever else is stored take  *)
(* places too.  Memories that users archive or delete are not modelled.    *)
(***************************************************************************)
EXTENDS Naturals, FiniteSets

CONSTANTS
  Observations,  \* numbered in the order they are created
  Alike,         \* pairs {a, b} that reinforce each other
  Opposed,       \* pairs that contradict each other
  Near,          \* pairs similar enough for one cluster
  MinCluster,    \* MIN_INSIGHT_COMPONENT_SIZE
  MaxCandidates, \* MAX_CANDIDATES
  Cyclers,       \* workers that run reflection cycles
  MaxCycles,     \* bound: cycles that are started
  MaxCuts,       \* bound: cycles cut short
  Bursts,        \* bound: how many memories others store in between
  MaxOther       \* bound: the row up to which they do

ReflectAssumption ==
  /\ Observations \subseteq Nat
  /\ Alike \cap Opposed = {} /\ Alike \subseteq Near
  /\ Near \cup Opposed \subseteq {p \in SUBSET Observations : Cardinality(p) = 2}

VARIABLES
  present,       \* observations stored so far
  rows,          \* memories stored so far, of whatever kind but raw activity
  born,          \* born[a]: which of them observation a was
  records,       \* reflection memories: [role, sources, cycle]
  count,         \* count[a][role]: the counters in a's metadata
  cycle,         \* cycle[c]: the cycle cycler c runs, a record of what it knows
  started,       \* cycles started
  cuts,          \* cycles cut short
  overlapped     \* history: two cycles ran at the same time

vars == <<present, rows, born, records, count, cycle, started, cuts, overlapped>>

Role  == {"reinforces", "contradicts"}
Pairs == Alike \cup Opposed
RoleOf(p) == IF p \in Alike THEN "reinforces" ELSE "contradicts"
Zero  == [r \in Role |-> 0]
Point == {"idle", "evidence", "pairs", "read", "write", "clusters", "insight"}
Idle  == [pc |-> "idle", number |-> 0, seen |-> {}, todo |-> {}, mine |-> {},
          pair |-> {}, bump |-> {}, loaded |-> Zero, clusters |-> {}]

TypeOK ==
  /\ present \in SUBSET Observations
  /\ rows \in Nat /\ born \in [Observations -> Nat]
  /\ \A r \in records : /\ r.role \in Role \cup {"insight_support"}
                        /\ r.sources \subseteq Observations
                        /\ r.cycle \in 1 .. MaxCycles
  /\ count \in [Observations -> [Role -> Nat]]
  /\ \A c \in Cyclers : /\ cycle[c].pc \in Point
                        /\ cycle[c].bump \subseteq cycle[c].pair
                        /\ cycle[c].mine \subseteq Alike
  /\ started \in 0 .. MaxCycles /\ cuts \in 0 .. MaxCuts /\ overlapped \in BOOLEAN

Init ==
  /\ present = {} /\ records = {}
  /\ rows = 0 /\ born = [a \in Observations |-> 0]
  /\ count = [a \in Observations |-> Zero]
  /\ cycle = [c \in Cyclers |-> Idle]
  /\ started = 0 /\ cuts = 0 /\ overlapped = FALSE

AddObservation(a) ==
  /\ a \notin present /\ \A b \in Observations : b < a => b \in present
  /\ present' = present \cup {a}
  /\ rows' = rows + 1 /\ born' = [born EXCEPT ![a] = rows']
  /\ UNCHANGED <<records, count, cycle, started, cuts, overlapped>>

\* Observations of other perspectives, digests, memories of a user.
StoreOthers ==
  /\ rows < MaxOther
  /\ \E n \in Bursts : rows' = rows + n
  /\ UNCHANGED <<present, born, records, count, cycle, started, cuts, overlapped>>

\* The observations among the newest MAX_CANDIDATES memories.
Candidates == {a \in present : rows < born[a] + MaxCandidates}

\* gather_candidates; with fewer than two there is nothing to do.
Gather(c) ==
  /\ cycle[c].pc = "idle" /\ started < MaxCycles
  /\ Cardinality(Candidates) >= 2
  /\ started' = started + 1
  /\ cycle' = [cycle EXCEPT ![c].pc = "evidence", ![c].seen = Candidates, ![c].number = started']
  /\ overlapped' = (overlapped \/ \E d \in Cyclers : cycle[d].pc # "idle")
  /\ UNCHANGED <<present, rows, born, records, count, cuts>>

\* (bug) contradictions do not count as reflected on.
BugReflected(p) == \E r \in records : r.role = "reinforces" /\ r.sources = p

\* Some record has both members of the pair for sources.
Reflected(p) == \E r \in records : r.role \in Role /\ r.sources = p

\* load_pair_evidence, before the first comparison.
LoadPairEvidence(c) ==
  /\ cycle[c].pc = "evidence"
  /\ cycle' = [cycle EXCEPT ![c].pc = "pairs",
                 ![c].todo = {p \in Pairs : p \subseteq cycle[c].seen /\ ~Reflected(p)}]
  /\ UNCHANGED <<present, rows, born, records, count, started, cuts, overlapped>>

\* handle_reinforcement, handle_contradiction: first the record, with its evidence.
StoreReflection(c) ==
  /\ cycle[c].pc = "pairs"
  /\ \E p \in cycle[c].todo :
       /\ records' = records \cup
            {[role |-> RoleOf(p), sources |-> p, cycle |-> cycle[c].number]}
       /\ cycle' = [cycle EXCEPT ![c].pc = "read", ![c].todo = @ \ {p},
                      ![c].pair = p, ![c].bump = p,
                      ![c].mine = IF p \in Alike THEN @ \cup {p} ELSE @]
  /\ rows' = rows + 1
  /\ UNCHANGED <<present, born, count, started, cuts, overlapped>>

\* The newer member of the pair is counted first.
Member(c) == CHOOSE a \in cycle[c].bump : \A b \in cycle[c].bump : b <= a

\* increment_cognitive_counter loads the memory ...
ReadCounter(c) ==
  /\ cycle[c].pc = "read"
  /\ cycle' = [cycle EXCEPT ![c].pc = "write", ![c].loaded = count[Member(c)]]
  /\ UNCHANGED <<present, rows, born, records, count, started, cuts, overlapped>>

\* (bug) the counter is lowered.
BugLowered(n) == n - 1

\* (bug) the counter is raised by what the record says, two.
BugRaised(n) == n + 2

Raised(n) == n + 1

\* ... and writes its whole metadata back.
WriteCounter(c) ==
  /\ cycle[c].pc = "write"
  /\ count' = [count EXCEPT ![Member(c)] =
                 [cycle[c].loaded EXCEPT ![RoleOf(cycle[c].pair)] = Raised(@)]]
  /\ cycle' = [cycle EXCEPT ![c].bump = @ \ {Member(c)},
                 ![c].pc = IF cycle[c].bump = {Member(c)} THEN "pairs" ELSE "read"]
  /\ UNCHANGED <<present, rows, born, records, started, cuts, overlapped>>

-----------------------------------------------------------------------------
(* synthesize_reinforcement_insights *)

\* Two candidates are joined by a reinforcement of this cycle, or by nearness
\* unless they contradict each other.
Joined(c, a, b) == {a, b} \in cycle[c].mine \cup (Near \ Opposed)

Closed(c, C) == \A a \in C, b \in cycle[c].seen \ C : ~Joined(c, a, b)

\* (bug) only what this cycle has found to reinforce each other is joined.
BugComponents(c) ==
  {C \in SUBSET cycle[c].seen :
     /\ Cardinality(C) >= MinCluster
     /\ C = UNION cycle[c].mine}

\* build_reinforcement_components: the connected components that are large enough.
Components(c) ==
  {C \in SUBSET cycle[c].seen :
     /\ Cardinality(C) >= MinCluster
     /\ Closed(c, C)
     /\ \A D \in (SUBSET C) \ {{}, C} : ~Closed(c, D)}

Finish(c) == cycle' = [cycle EXCEPT ![c] = Idle]

\* After the last pair; without a new reinforcement the cycle ends here.
FormClusters(c) ==
  /\ cycle[c].pc = "pairs" /\ cycle[c].todo = {}
  /\ IF cycle[c].mine = {} \/ Components(c) = {} THEN Finish(c)
     ELSE cycle' = [cycle EXCEPT ![c].pc = "clusters", ![c].clusters = Components(c)]
  /\ UNCHANGED <<present, rows, born, records, count, started, cuts, overlapped>>

Covered(C) == \E r \in records : r.role = "insight_support" /\ C \subseteq r.sources

Drop(c, C) ==
  IF cycle[c].clusters = {C} THEN Finish(c)
  ELSE cycle' = [cycle EXCEPT ![c].pc = "clusters", ![c].clusters = @ \ {C}, ![c].pair = {}]

\* find_existing_component_memory
FindExisting(c) ==
  /\ cycle[c].pc = "clusters"
  /\ \E C \in cycle[c].clusters :
       IF Covered(C) THEN Drop(c, C)
       ELSE cycle' = [cycle EXCEPT ![c].pc = "insight", ![c].pair = C, ![c].bump = {}]
  /\ UNCHANGED <<present, rows, born, records, count, started, cuts, overlapped>>

StoreInsight(c) ==
  /\ cycle[c].pc = "insight"
  /\ records' = records \cup
       {[role |-> "insight_support", sources |-> cycle[c].pair, cycle |-> cycle[c].number]}
  /\ Drop(c, cycle[c].pair)
  /\ rows' = rows + 1
  /\ UNCHANGED <<present, born, count, started, cuts, overlapped>>

\* A storage error, a timeout or the process's death.
Cut(c) ==
  /\ cycle[c].pc # "idle"
  /\ cuts < MaxCuts
  /\ cuts' = cuts + 1
  /\ Finish(c)
  /\ UNCHANGED <<present, rows, born, records, count, started, overlapped>>

Next ==
  \/ \E a \in Observations : AddObservation(a)
  \/ StoreOthers
  \/ \E c \in Cyclers :
       \/ Gather(c) \/ LoadPairEvidence(c) \/ StoreReflection(c)
       \/ ReadCounter(c) \/ WriteCounter(c) \/ FormClusters(c)
       \/ FindExisting(c) \/ StoreInsight(c) \/ Cut(c)

Spec == Init /\ [][Next]_vars

-----------------------------------------------------------------------------
(* Properties *)

\* reflect.rs:120, "idempotent -- pairs that already have evidence links are
\* skipped": repeated cycles, cycles cut short among them, reflect on a pair
\* once, as long as no two of them ran at the same time.
ReflectedOnce ==
  ~overlapped =>
    \A r, s \in records : r.role \in Role /\ r.sources = s.sources => r = s

\* The counters in an observation's metadata are written back whole by cycles
\* that may overlap and stop: they may fall behind, but never claim more than
\* the records that can be shown for them.
CountsBacked ==
  \A a \in Observations, role \in Role :
    count[a][role] <= Cardinality({r \in records : r.role = role /\ a \in r.sources})

Reach(S) == LET joined(a, b) == {a, b} \in Near \ Opposed
            IN  {C \in SUBSET S : /\ \A a \in C, b \in S \ C : ~joined(a, b)
                                  /\ \A D \in (SUBSET C) \ {{}, C} :
                                       \E a \in D, b \in C \ D : joined(a, b)}

\* However the observations and the cycles that gathered them came, overlapping
\* or not: when no cycle runs and none was cut short, a large enough cluster that
\* is still within the window as a whole, each member of which agrees with
\* another, has an insight as soon as all its agreements are recorded, by
\* whichever cycles did so.  A cluster that is spread beyond the newest
\* MAX_CANDIDATES memories (reflect.rs:40) may never get one.
ClustersHaveInsights ==
  (\A c \in Cyclers : cycle[c].pc = "idle") /\ cuts = 0 =>
    \A C \in Reach(present) :
      /\ Cardinality(C) >= MinCluster /\ C \subseteq Candidates
      /\ \A a \in C : \E p \in Alike : a \in p /\ p \subseteq C
      /\ \A p \in Alike : p \subseteq C => Reflected(p)
      => Covered(C)
=============================================================================
