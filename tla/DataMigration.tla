-------------------------- MODULE DataMigration --------------------------
(***************************************************************************)
(* `nexus migrate run`, `validate` and `rollback` (nexus-cli's migrate.rs): *)
(* the memories of an older database are copied into the current one, row  *)
(* by row and each in a transaction of its own; a run that fails leaves    *)
(* what it has copied.  Namespaces are matched by name, memories are not   *)
(* matched with what is there.  The target is by default the live database *)
(* (migrate.rs:1212), which others write at any time; it is in WAL mode,   *)
(* and is backed up and restored by copying its file alone.                *)
(*                                                                         *)
(* Commands are given one at a time and sqlite3 can open both databases.   *)
(* Specifications, relations and metrics are left out.                     *)
(***************************************************************************)
EXTENDS Naturals, FiniteSets

CONSTANTS
  Memories,      \* those of the source, numbered as they are read
  NoDatabase,    \* stands for a file that does not exist
  MaxFaults,     \* bound: how often a run fails
  MaxRuns        \* bound: how many runs begin

\* A database: its copies of each memory, the memories others have stored in it
\* (bound: one), how many of the source's namespaces it has and (history) whether
\* a run was begun on it when it had copies, or failed, or its contents are those
\* of a file that was copied alone.
Databases == [rows : [Memories -> 0 .. MaxRuns], own : 0 .. 1,
              spaces : {"none", "some", "all"}, tainted : BOOLEAN]
Contents     == Databases \cup {NoDatabase}
Empty     == [rows |-> [m \in Memories |-> 0], own |-> 0, spaces |-> "none", tainted |-> FALSE]

VARIABLES
  orphans,       \* memories of the source whose namespace it does not have
  target,        \* the database migrated to
  backup,        \* the backup file
  pc,            \* idle, schema, namespaces or memories
  todo,          \* memories that are still to be copied
  passed,        \* a validation has just passed
  faults, runs

vars == <<orphans, target, backup, pc, todo, passed, faults, runs>>

TypeOK ==
  /\ orphans \subseteq Memories
  /\ target \in Contents /\ backup \in Contents
  /\ pc \in {"idle", "schema", "namespaces", "memories"}
  /\ todo \subseteq Memories
  /\ passed \in BOOLEAN
  /\ faults \in 0 .. MaxFaults /\ runs \in 0 .. MaxRuns

Init ==
  /\ orphans \in SUBSET Memories
  /\ target \in {NoDatabase, Empty}
  /\ backup = NoDatabase
  /\ pc = "idle" /\ todo = {} /\ passed = FALSE /\ faults = 0 /\ runs = 0

\* What a file copied alone may come to hold: it is without the transactions of
\* the -wal file it left behind, or those of the -wal file it is put beside are
\* replayed over it.  No memory is there more often than it was copied.
Uncertain == {db \in Databases : db.tainted /\ \A m \in Memories : db.rows[m] <= runs}

\* The backup is the target, unless there is none yet: then an older file stays.
Saved == IF target = NoDatabase THEN {backup} ELSE {target} \cup Uncertain

\* Without --no-backup, and with it.
Run ==
  /\ pc = "idle" /\ runs < MaxRuns
  /\ runs' = runs + 1
  /\ passed' = FALSE
  /\ backup' \in Saved \cup {backup}
  /\ pc' = "schema"
  /\ UNCHANGED <<orphans, target, todo, faults>>

Rows(db)  == {c \in Memories \X (1 .. MaxRuns) : c[2] <= db.rows[c[1]]}
Count(db) == db.own + Cardinality(Rows(db))

Opened     == IF target = NoDatabase THEN Empty ELSE target
Copied(db) == \E m \in Memories : db.rows[m] > 0

\* The target is created, and brought to the current schema.
PrepareTarget ==
  /\ pc = "schema"
  /\ target' = [Opened EXCEPT !.tainted = @ \/ Copied(Opened)]
  /\ pc' = "namespaces"
  /\ UNCHANGED <<orphans, backup, todo, passed, faults, runs>>

\* A source whose namespaces cannot be read is a warning.
MigrateNamespaces ==
  /\ pc = "namespaces"
  /\ \/ target' = [target EXCEPT !.spaces = "all"] /\ UNCHANGED faults
     \/ faults < MaxFaults /\ faults' = faults + 1 /\ UNCHANGED target
  /\ todo' = Memories
  /\ pc' = "memories"
  /\ UNCHANGED <<orphans, backup, passed, runs>>

First == CHOOSE m \in todo : \A n \in todo : m <= n

\* The target may, or must, have the namespace of a memory.
MayHave(m)  == m \notin orphans /\ target.spaces # "none"
MustHave(m) == m \notin orphans /\ target.spaces = "all"

InsertMemory ==
  /\ pc = "memories" /\ todo # {} /\ MayHave(First)
  /\ target' = [target EXCEPT !.rows[First] = @ + 1]
  /\ todo' = todo \ {First}
  /\ UNCHANGED <<orphans, backup, pc, passed, faults, runs>>

\* "Memory has invalid namespace_id", a warning.
SkipMemory ==
  /\ pc = "memories" /\ todo # {} /\ ~MustHave(First)
  /\ todo' = todo \ {First}
  /\ UNCHANGED <<orphans, target, backup, pc, passed, faults, runs>>

Complete ==
  /\ pc = "memories" /\ todo = {}
  /\ pc' = "idle"
  /\ UNCHANGED <<orphans, target, backup, todo, passed, faults, runs>>

\* The memories of the source cannot be read: a warning, and nothing of it is migrated.
ReadFails ==
  /\ pc = "memories" /\ todo = Memories
  /\ faults < MaxFaults /\ faults' = faults + 1
  /\ todo' = {}
  /\ UNCHANGED <<orphans, target, backup, pc, passed, runs>>

\* An insert fails, or the process ends; some of the namespaces may be there then.
RunFails ==
  /\ pc # "idle" /\ faults < MaxFaults
  /\ faults' = faults + 1
  /\ IF target = NoDatabase
     THEN UNCHANGED target
     ELSE \E s \in {target.spaces, "some"} :
            /\ s # target.spaces => pc = "namespaces" /\ target.spaces = "none"
            /\ target' = [target EXCEPT !.spaces = s, !.tainted = TRUE]
  /\ pc' = "idle" /\ todo' = {}
  /\ UNCHANGED <<orphans, backup, passed, runs>>

\* The current state is saved aside, and the backup copied over it, beside a -wal
\* file that a failed run or another process may have left there.
Rollback ==
  /\ pc = "idle" /\ backup # NoDatabase
  /\ target' \in {backup} \cup Uncertain
  /\ passed' = FALSE
  /\ UNCHANGED <<orphans, backup, pc, todo, faults, runs>>

\* (bug) fewer rows than the source has are a warning of the run's already.
BugMatches(db) == Count(db) <= Cardinality(Memories)

\* The table of memories has as many rows as the source's.
Matches(db) == Count(db) = Cardinality(Memories)

\* The tables of namespaces, the target's with others' in it, may have as many or not.
Validate ==
  /\ pc = "idle"
  /\ passed' \in {FALSE, target # NoDatabase /\ Matches(target)}
  /\ UNCHANGED <<orphans, target, backup, pc, todo, faults, runs>>

-----------------------------------------------------------------------------
(* Others: hooks, services and other commands *)

\* A memory is stored, in a namespace that may be one of the source's.
Store ==
  /\ Opened.own = 0
  /\ target' = [Opened EXCEPT !.own = 1, !.spaces = IF @ = "all" THEN @ ELSE "some"]
  /\ passed' = FALSE
  /\ UNCHANGED <<orphans, backup, pc, todo, faults, runs>>

\* A memory is deleted, or one that was copied is.
Delete ==
  /\ target # NoDatabase
  /\ \/ target.own > 0 /\ target' = [target EXCEPT !.own = @ - 1]
     \/ \E m \in Memories : target.rows[m] > 0 /\ target' = [target EXCEPT !.rows[m] = @ - 1]
  /\ passed' = FALSE
  /\ UNCHANGED <<orphans, backup, pc, todo, faults, runs>>

Next ==
  \/ Run \/ PrepareTarget \/ MigrateNamespaces \/ InsertMemory \/ SkipMemory
  \/ Complete \/ ReadFails \/ RunFails \/ Rollback \/ Validate \/ Store \/ Delete

Spec == Init /\ [][Next]_vars

-----------------------------------------------------------------------------
(* Properties *)

\* A target that passes validation and has no memories of others has every memory
\* of the source once: no run that skipped memories or read none passes by its
\* counts, whatever others stored and deleted meanwhile.  Excepted is a target on
\* which a run was begun when it had copies, or failed, and one that is restored
\* from, or was saved to, a file copied without its -wal file (migrate.rs:1820).
ValidatedMeansMigrated ==
  passed /\ ~target.tainted /\ target.own = 0 => \A m \in Memories : target.rows[m] = 1
=============================================================================
