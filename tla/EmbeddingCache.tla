-------------------------- MODULE EmbeddingCache --------------------------
(***************************************************************************)
(* The locks of EmbeddingCache (nexus-embeddings/src/cache.rs): the map    *)
(* and the two counters each have a read-write lock (parking_lot), and an  *)
(* operation may take one while it holds another.  An operation is the     *)
(* sequence of its takes and releases; what the map holds is left out.     *)
(***************************************************************************)
EXTENDS Naturals, Sequences

CONSTANT Callers

VARIABLES
  todo,          \* todo[c]: what caller c has still to do
  holds          \* holds[c]: the locks c holds, with their mode

vars == <<todo, holds>>

Read(lock)    == <<lock, "read">>
Write(lock)   == <<lock, "write">>
Release(lock) == <<lock, "release">>

\* A miss is counted inside the read lock of the map; a hit takes the map's
\* lock again, to count the access.
Miss  == <<Read("cache"), Write("misses"), Release("misses"), Release("cache")>>
Hit   == <<Read("cache"), Release("cache"), Write("cache"), Release("cache"),
           Write("hits"), Release("hits")>>
Put   == <<Write("cache"), Release("cache")>>
Stats == <<Read("cache"), Read("hits"), Release("hits"),
           Read("misses"), Release("misses"), Release("cache")>>
Size  == <<Read("cache"), Release("cache")>>

\* (bug) the map is cleared after the counters.
BugClear == <<Write("hits"), Write("misses"), Write("cache"),
              Release("cache"), Release("misses"), Release("hits")>>

Clear == <<Write("cache"), Write("hits"), Write("misses"),
           Release("misses"), Release("hits"), Release("cache")>>

Operations == {Miss, Hit, Put, Stats, Size, Clear}

TypeOK ==
  \A c \in Callers :
    /\ \E op \in Operations : todo[c] \in {SubSeq(op, i, Len(op)) : i \in 1 .. Len(op) + 1}
    /\ holds[c] \subseteq {"cache", "hits", "misses"} \X {"read", "write"}

Init ==
  /\ todo = [c \in Callers |-> << >>]
  /\ holds = [c \in Callers |-> {}]

Call(c) ==
  /\ todo[c] = << >>
  /\ \E op \in Operations : todo' = [todo EXCEPT ![c] = op]
  /\ UNCHANGED holds

Waits(c, want) == todo[c] # << >> /\ Head(todo[c]) = want

\* Readers share a lock, and give way to a writer that waits for it.
Free(c, lock, mode) ==
  \A d \in Callers \ {c} :
    /\ Write(lock) \notin holds[d]
    /\ Read(lock) \in holds[d] => mode = "read"
    /\ Waits(d, Write(lock)) => mode = "write"

MayGo(c) ==
  /\ todo[c] # << >>
  /\ LET lock == Head(todo[c])[1]
         mode == Head(todo[c])[2]
     IN  mode # "release" => Free(c, lock, mode)

Go(c) ==
  /\ MayGo(c)
  /\ holds' = [holds EXCEPT ![c] =
       IF Head(todo[c])[2] = "release" THEN {h \in @ : h[1] # Head(todo[c])[1]}
       ELSE @ \cup {Head(todo[c])}]
  /\ todo' = [todo EXCEPT ![c] = Tail(@)]

Next == \E c \in Callers : Call(c) \/ Go(c)

Spec == Init /\ [][Next]_vars

-----------------------------------------------------------------------------
(* Properties *)

\* The operations never wait for each other in a circle: get takes the lock of
\* the misses inside the map's (cache.rs:60), stats and clear take both
\* counters' inside it, and some caller can always go on.
NeverStuck == (\E c \in Callers : todo[c] # << >>) => \E c \in Callers : MayGo(c)
=============================================================================
