-------------------------- MODULE WorkingMemory --------------------------
(***************************************************************************)
(* A project's working memory: the hot cache on disk (.nexus/cache/        *)
(* hot.json, nexus-agent/src/cognitive_cache.rs), the scratch files of its *)
(* sessions (session_manager.rs) and everything that loads the cache,      *)
(* changes its copy and saves it back: the start of a session (nexus-hooks *)
(* injection.rs), the nap at its end (dream_cycle.rs), the web interface's *)
(* boost (nexus-web api/agent.rs), the rescorer, the dream and the deep    *)
(* dream.  atomic_write makes one save atomic; no lock spans the load and  *)
(* the save.                                                               *)
(*                                                                         *)
(* Data abstraction.  An entry is the learning or the memory it holds, so  *)
(* a cache is a set of items and the pinned ones among them.  Scores only  *)
(* order the evictions: the victim is any entry that is not pinned.  An    *)
(* unreadable hot.json (load_or_init then starts from an empty cache) is   *)
(* not modelled.                                                           *)
(***************************************************************************)
EXTENDS Naturals, FiniteSets

CONSTANTS
  Learnings,     \* what agents note in scratch files
  Memories,      \* rows of the memories table that may be promoted
  Lifecycle,     \* items whose text says "Session lifecycle event"
  Sessions,
  Writers,       \* tasks beside the sessions that rewrite the cache
  MaxEntries,    \* hot_cache_max_entries
  Overlap,       \* may these tasks overlap in time?
  MaxCrashes     \* bound: how many tasks may be cut short

ASSUME WorkingMemoryAssumption == /\ Learnings \cap Memories = {}
                                  /\ Lifecycle \subseteq Learnings \cup Memories
                                  /\ Sessions \cap Writers = {}
                                  /\ IsFiniteSet(Learnings) /\ IsFiniteSet(Memories)
                                  /\ MaxEntries \in Nat \ {0}
                                  /\ Overlap \in BOOLEAN
                                  /\ MaxCrashes \in Nat

VARIABLES
  hot,           \* the cache in hot.json
  scratch,       \* scratch[s]: the learnings in the session's .md file
  files,         \* the sessions whose .md file exists
  pc,            \* pc[t]: where a session or a writer is
  copy,          \* copy[t]: the cache it has loaded
  crashes        \* tasks cut short so far

vars == <<hot, scratch, files, pc, copy, crashes>>

Item  == Learnings \cup Memories
Task  == Sessions \cup Writers
Empty == [entries |-> {}, pinned |-> {}]
Cache == [entries : SUBSET Item, pinned : SUBSET Item]

\* At these points a task has loaded the cache and not yet saved it.
Holding == {"recall", "merge", "save", "rewrite"}
Point   == Holding \cup {"off", "start", "open", "nap", "mark"}

\* Beside the types: no cache ever exceeds its capacity.
TypeOK ==
  /\ hot \in Cache /\ copy \in [Task -> Cache]
  /\ \A c \in {hot} \cup {copy[t] : t \in Task} :
       c.pinned \subseteq c.entries /\ Cardinality(c.entries) <= MaxEntries
  /\ scratch \in [Sessions -> SUBSET Learnings]
  /\ files \subseteq Sessions
  /\ pc \in [Task -> Point]
  /\ crashes \in 0 .. MaxCrashes

Init ==
  /\ hot     = Empty
  /\ scratch = [s \in Sessions |-> {}]
  /\ files   = {}
  /\ pc      = [t \in Task |-> "off"]
  /\ copy    = [t \in Task |-> Empty]
  /\ crashes = 0

Goto(t, p) == pc' = [pc EXCEPT ![t] = p]
Take(t, c) == copy' = [copy EXCEPT ![t] = c]

\* Without Overlap no task loads the cache while another holds a copy of it.
MayLoad == Overlap \/ \A t \in Task : pc[t] \notin Holding \cup {"mark"}

-----------------------------------------------------------------------------
(* HotCache::promote *)

\* (bug) the cache is full when it holds more than max_entries.
BugLimit == MaxEntries + 1

\* entries.len() >= max_entries
Limit   == MaxEntries
Full(E) == Cardinality(E) >= Limit

\* (bug) a pinned entry can be evicted.
BugEvictable(c, E) == E

\* What promotions into c may remove from E: entries that are not pinned.
Evictable(c, E) == E \ c.pinned

\* The caches that promoting the items of N, one after the other, may leave.
\* An item that is there is only refreshed.  A new one displaces an evictable
\* entry when the cache is full, an item of N included, and is turned away
\* when all entries are pinned.  The last item promoted is there.
Promoted(c, N, pin) ==
  LET pins == IF pin THEN N ELSE {}
      all  == c.entries \cup N
      lost == IF Cardinality(all) > Limit THEN Cardinality(all) - Limit ELSE 0
  IN  IF N \subseteq c.entries \/ (Full(c.entries) /\ Evictable(c, c.entries) = {})
        THEN {[c EXCEPT !.pinned = @ \cup (pins \cap c.entries)]}
        ELSE {[entries |-> all \ D, pinned |-> (c.pinned \cup pins) \ D] :
                D \in {X \in SUBSET Evictable(c, all) :
                         Cardinality(X) = lost /\ ~ N \subseteq X}}

-----------------------------------------------------------------------------
(* A session starts: on_session_start *)

\* Entries that are lifecycle markers are dropped from the loaded copy.
LoadForRecall(s) ==
  /\ pc[s] = "off"
  /\ MayLoad
  /\ Take(s, [entries |-> hot.entries \ Lifecycle, pinned |-> hot.pinned \ Lifecycle])
  /\ Goto(s, "recall")
  /\ UNCHANGED <<hot, scratch, files, crashes>>

\* The morning recall has answered; what it found beside the cached entries is
\* promoted and saved.
MorningRecall(s) ==
  /\ pc[s] = "recall"
  /\ \E M \in SUBSET (Memories \ copy[s].entries) :
       hot' \in Promoted(copy[s], M, FALSE)
  /\ Take(s, Empty)
  /\ Goto(s, "start")
  /\ UNCHANGED <<scratch, files, crashes>>

\* start_session creates the scratch file, or goes on with the one an earlier
\* session of the same id left.
StartSession(s) ==
  /\ pc[s] = "start"
  /\ files' = files \cup {s}
  /\ Goto(s, "open")
  /\ UNCHANGED <<hot, scratch, copy, crashes>>

\* append_learning needs only the file, not that no nap is reading it.
AppendLearning(s, l) ==
  /\ s \in files
  /\ Overlap \/ pc[s] = "open"
  /\ scratch' = [scratch EXCEPT ![s] = @ \cup {l}]
  /\ UNCHANGED <<hot, files, pc, copy, crashes>>

EndSession(s) ==
  /\ pc[s] = "open"
  /\ Goto(s, "nap")
  /\ UNCHANGED <<hot, scratch, files, copy, crashes>>

-----------------------------------------------------------------------------
(* ... and naps when it ends: run_nap *)

\* The drain is over in time: the cache is loaded.
NapLoad(s) ==
  /\ pc[s] = "nap"
  /\ MayLoad
  /\ Take(s, hot)
  /\ Goto(s, "merge")
  /\ UNCHANGED <<hot, scratch, files, crashes>>

\* merge_session reads the scratch file and promotes what it has not cached.
MergeSession(s) ==
  /\ pc[s] = "merge"
  /\ \E c \in Promoted(copy[s], scratch[s], FALSE) : Take(s, c)
  /\ Goto(s, "save")
  /\ UNCHANGED <<hot, scratch, files, crashes>>

\* (bug) the copy is dropped when nothing could be inserted into it.
BugNapSave(s) ==
  /\ pc[s] = "save"
  /\ hot' = IF copy[s].entries \subseteq hot.entries THEN Empty ELSE copy[s]
  /\ Take(s, Empty)
  /\ Goto(s, "mark")
  /\ UNCHANGED <<scratch, files, crashes>>

NapSave(s) ==
  /\ pc[s] = "save"
  /\ hot' = copy[s]
  /\ Take(s, Empty)
  /\ Goto(s, "mark")
  /\ UNCHANGED <<scratch, files, crashes>>

\* (bug) the file is marked before the cache is saved.
BugMarkSessionMerged(s) ==
  /\ pc[s] \in {"save", "mark"}
  /\ files'   = files \ {s}
  /\ scratch' = [scratch EXCEPT ![s] = {}]
  /\ Goto(s, IF pc[s] = "save" THEN "save" ELSE "off")
  /\ UNCHANGED <<hot, copy, crashes>>

\* The .md file is renamed to .merged.md, which nothing reads again.
MarkSessionMerged(s) ==
  /\ pc[s] = "mark"
  /\ files'   = files \ {s}
  /\ scratch' = [scratch EXCEPT ![s] = {}]
  /\ Goto(s, "off")
  /\ UNCHANGED <<hot, copy, crashes>>

-----------------------------------------------------------------------------
(* The other writers *)

Load(w) ==
  /\ pc[w] = "off"
  /\ MayLoad
  /\ Take(w, hot)
  /\ Goto(w, "rewrite")
  /\ UNCHANGED <<hot, scratch, files, crashes>>

\* agent_boost: promote one memory, pinned or not; a cache full of pins is
\* not saved.
Boost(w) ==
  /\ pc[w] = "rewrite"
  /\ \E m \in Memories, pin \in BOOLEAN :
       \E c \in Promoted(copy[w], {m}, pin) :
         hot' = IF m \in c.entries THEN c ELSE hot
  /\ Take(w, Empty)
  /\ Goto(w, "off")
  /\ UNCHANGED <<scratch, files, crashes>>

\* rescore, run_dream and the deep dream's reindexing change scores, the
\* context file and the cold index, and save the entries as they loaded them.
SaveUnchanged(w) ==
  /\ pc[w] = "rewrite"
  /\ hot' = copy[w]
  /\ Take(w, Empty)
  /\ Goto(w, "off")
  /\ UNCHANGED <<scratch, files, crashes>>

\* An error, the nap's timeout in its drain, a killed process: the task ends
\* where it is, a copy it has not saved is lost, and no one resumes it.
Cut(t) ==
  /\ pc[t] \notin {"off", "open"}
  /\ crashes < MaxCrashes
  /\ crashes' = crashes + 1
  /\ Take(t, Empty)
  /\ Goto(t, "off")
  /\ UNCHANGED <<hot, scratch, files>>

-----------------------------------------------------------------------------

Session(s) == \/ LoadForRecall(s) \/ MorningRecall(s) \/ StartSession(s)
              \/ \E l \in Learnings : AppendLearning(s, l)
              \/ EndSession(s)
              \/ NapLoad(s) \/ MergeSession(s) \/ NapSave(s)
              \/ MarkSessionMerged(s)

Next == \/ \E s \in Sessions : Session(s)
        \/ \E w \in Writers : Load(w) \/ Boost(w) \/ SaveUnchanged(w)
        \/ \E t \in Task : Cut(t)

Spec == Init /\ [][Next]_vars

-----------------------------------------------------------------------------
(* Properties *)

\* session_manager.rs:149, "Call this AFTER cache persistence succeeds to avoid
\* data loss": when a scratch file is marked as merged, each of its learnings
\* is in the cache on disk, or that cache is full.
MergedIsSaved ==
  [][\A s \in Sessions :
       s \in files \ files' => scratch[s] \subseteq hot.entries \/ Full(hot.entries)]_vars

\* An entry leaves the cache on disk only to make room, or as a lifecycle
\* marker: no interrupted nap, retried merge or rewrite loses it while the
\* cache has space.
LeavesOnlyWhenFull ==
  [][~ hot.entries \subseteq hot'.entries \cup Lifecycle => Full(hot'.entries)]_vars

\* What the user has pinned stays, through every merge, recall and rewrite,
\* but for lifecycle markers.
PinsStay == [][hot.pinned \subseteq hot'.pinned \cup Lifecycle]_vars
=============================================================================
