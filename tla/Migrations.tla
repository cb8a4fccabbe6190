---------------------------- MODULE Migrations ----------------------------
(***************************************************************************)
(* The schema migrations (nexus-storage/src/migrations.rs), which every    *)
(* process of the system runs when it opens the database.  A migration is  *)
(* a sequence of statements that may be run again; each statement, and     *)
(* the row that records the migration, is a transaction of its own.  The   *)
(* first statement of a migration creates its table, if it has one.        *)
(***************************************************************************)
EXTENDS Naturals, Sequences

CONSTANTS
  Processes,
  Statements,    \* Statements[v]: how many statements migration v has
  Tables,        \* migrations that are probed for by their table
  Healed,        \* of these, those whose missing column is added when probed
  MaxCrashes     \* bound: how often a process ends in its migrations

Versions == DOMAIN Statements

VARIABLES
  done,          \* <<v, i>>: what statement i of migration v makes is there
  recorded,      \* the rows of schema_migrations
  pc,            \* pc[p]: idle, check, probe, heal, found, apply, record, ready
  version,       \* version[p]: the migration p is at
  next,          \* next[p]: the statement of it that p runs next
  crashes,
  overlapped     \* history: two processes were migrating at the same time

process == <<pc, version, next>>
vars == <<done, recorded, process, crashes, overlapped>>

Parts(v) == {<<v, i>> : i \in 1 .. Statements[v]}
Schema   == UNION {Parts(v) : v \in Versions}

TypeOK ==
  /\ done \subseteq Schema /\ recorded \subseteq Versions
  /\ pc \in [Processes -> {"idle", "check", "probe", "heal", "found",
                           "apply", "record", "ready"}]
  /\ version \in [Processes -> Versions \cup {0, Len(Statements) + 1}]
  /\ next \in [Processes -> Nat]
  /\ crashes \in 0 .. MaxCrashes /\ overlapped \in BOOLEAN

\* A new database, or one of a release without schema_migrations: some of the
\* tables with all that was theirs then.
Legacy == {{}} \cup
  {UNION {Parts(v) \ {<<h, Statements[h]>> : h \in Healed} : v \in Tables \cap (1 .. k)} :
     k \in Versions}

Init ==
  /\ done \in Legacy /\ recorded = {}
  /\ pc = [p \in Processes |-> "idle"]
  /\ version = [p \in Processes |-> 0] /\ next = [p \in Processes |-> 1]
  /\ crashes = 0 /\ overlapped = FALSE

Resting == {"idle", "ready"}

Move(p, point, v, i) ==
  /\ pc' = [pc EXCEPT ![p] = point]
  /\ version' = [version EXCEPT ![p] = v]
  /\ next' = [next EXCEPT ![p] = i]

Start(p) ==
  /\ pc[p] = "idle"
  /\ Move(p, "check", 0, 1)
  /\ overlapped' = (overlapped \/ \E q \in Processes : pc[q] \notin Resting)
  /\ UNCHANGED <<done, recorded, crashes>>

\* upgrade_pre_migration_databases probes only while nothing is recorded, the
\* newest table first.
CountApplied(p) ==
  /\ pc[p] = "check"
  /\ IF recorded = {} THEN Move(p, "probe", Len(Statements), 1) ELSE Move(p, "apply", 1, 1)
  /\ UNCHANGED <<done, recorded, crashes, overlapped>>

Below(p) == IF version[p] = 1 THEN Move(p, "apply", 1, 1) ELSE Move(p, "probe", version[p] - 1, 1)

\* (bug) a table is enough to record its migration.
BugLacksColumn(v) == FALSE

LacksColumn(v) == v \in Healed

Probe(p) ==
  /\ pc[p] = "probe"
  /\ IF version[p] \in Tables /\ <<version[p], 1>> \in done
       THEN Move(p, IF LacksColumn(version[p]) THEN "heal" ELSE "found", version[p], 1)
       ELSE Below(p)
  /\ UNCHANGED <<done, recorded, crashes, overlapped>>

\* ensure_column_exists
Heal(p) ==
  /\ pc[p] = "heal"
  /\ done' = done \cup {<<version[p], Statements[version[p]]>>}
  /\ Move(p, "found", version[p], 1)
  /\ UNCHANGED <<recorded, crashes, overlapped>>

RecordFound(p) ==
  /\ pc[p] = "found"
  /\ recorded' = recorded \cup {version[p]}
  /\ Below(p)
  /\ UNCHANGED <<done, crashes, overlapped>>

\* is_migration_applied
SkipApplied(p) ==
  /\ pc[p] = "apply" /\ next[p] = 1 /\ version[p] \in recorded
  /\ Move(p, "apply", version[p] + 1, 1)
  /\ UNCHANGED <<done, recorded, crashes, overlapped>>

Apply(p) ==
  /\ pc[p] = "apply" /\ version[p] \in Versions
  /\ next[p] = 1 => version[p] \notin recorded
  /\ done' = done \cup {<<version[p], next[p]>>}
  /\ Move(p, IF next[p] = Statements[version[p]] THEN "record" ELSE "apply",
          version[p], next[p] + 1)
  /\ UNCHANGED <<recorded, crashes, overlapped>>

Record(p) ==
  /\ pc[p] = "record"
  /\ recorded' = recorded \cup {version[p]}
  /\ Move(p, "apply", version[p] + 1, 1)
  /\ UNCHANGED <<done, crashes, overlapped>>

Finish(p) ==
  /\ pc[p] = "apply" /\ version[p] = Len(Statements) + 1
  /\ Move(p, "ready", 0, 1)
  /\ UNCHANGED <<done, recorded, crashes, overlapped>>

\* The process ends, or a statement fails and with it the opening of the database.
Crash(p) ==
  /\ pc[p] \notin Resting /\ crashes < MaxCrashes
  /\ Move(p, "idle", 0, 1)
  /\ crashes' = crashes + 1
  /\ UNCHANGED <<done, recorded, overlapped>>

Next ==
  \E p \in Processes :
    \/ Start(p) \/ CountApplied(p) \/ Probe(p) \/ Heal(p) \/ RecordFound(p)
    \/ SkipApplied(p) \/ Apply(p) \/ Record(p) \/ Finish(p) \/ Crash(p)

Spec == Init /\ [][Next]_vars

-----------------------------------------------------------------------------
(* Properties *)

\* Whoever has opened the database finds all of the schema, from whichever
\* statement an earlier start was interrupted at and whichever release made the
\* database, unless two processes were migrating it at the same time: then one
\* may record, by its table, a migration the other is in the middle of
\* (migrations.rs:176).
ReadyIsComplete ==
  ~overlapped => \A p \in Processes : pc[p] = "ready" => done = Schema
=============================================================================
