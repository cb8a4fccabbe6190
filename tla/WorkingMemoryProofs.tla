----------------------- MODULE WorkingMemoryProofs -----------------------
(***************************************************************************)
(* Proofs about WorkingMemory for any sessions, writers, items and         *)
(* capacity.  The types and the capacity hold whatever overlaps.  That     *)
(* nothing is lost holds when the tasks follow one another, and rests on   *)
(* an invariant that relates what a task has loaded to the file: only a    *)
(* task that holds a copy changes the file, and only one does.             *)
(***************************************************************************)
EXTENDS WorkingMemory, FiniteSetTheorems, TLAPS

\* A cache within its capacity.
Sound(c) ==
  /\ c \in Cache
  /\ c.pinned \subseteq c.entries
  /\ Cardinality(c.entries) <= MaxEntries

\* All of E is in the cache, or the cache is full.
Keeps(c, E) == E \subseteq c.entries \/ Full(c.entries)

\* Items are finitely many, and so is any choice of them.
LEMMA FiniteItems == IsFiniteSet(Item) /\ \A E \in SUBSET Item : IsFiniteSet(E)
<1>1. IsFiniteSet(Item)
  BY WorkingMemoryAssumption, FS_Union DEF Item
<1> QED
  BY <1>1, FS_Subset

\* The empty cache is sound.
LEMMA EmptySound == Sound(Empty)
  BY WorkingMemoryAssumption, FS_EmptySet DEF Sound, Empty, Cache

\* HotCache::promote: whatever is promoted into a cache within its capacity, the
\* cache stays within it, keeps its pins, and loses entries or turns newcomers
\* away only by being full.
LEMMA PromotedFacts ==
  ASSUME NEW c, Sound(c), NEW N \in SUBSET Item, NEW pin \in BOOLEAN,
         NEW d \in Promoted(c, N, pin)
  PROVE  /\ Sound(d)
         /\ c.pinned \subseteq d.pinned
         /\ Keeps(d, c.entries) /\ Keeps(d, N)
<1> DEFINE pins == IF pin THEN N ELSE {}
           all  == c.entries \cup N
           lost == IF Cardinality(all) > Limit THEN Cardinality(all) - Limit ELSE 0
<1>1. c = [entries |-> c.entries, pinned |-> c.pinned] /\ c.entries \in SUBSET Item
      /\ c.pinned \in SUBSET c.entries /\ pins \in SUBSET N
  BY DEF Sound, Cache
<1>2. CASE N \subseteq c.entries \/ (Full(c.entries) /\ Evictable(c, c.entries) = {})
  <2>1. d = [c EXCEPT !.pinned = @ \cup (pins \cap c.entries)]
    BY <1>2 DEF Promoted
  <2>2. d = [entries |-> c.entries, pinned |-> c.pinned \cup (pins \cap c.entries)]
    BY <2>1, <1>1
  <2> QED
    BY <1>2, <2>2, <1>1 DEF Sound, Cache, Keeps
<1>3. CASE ~(N \subseteq c.entries \/ (Full(c.entries) /\ Evictable(c, c.entries) = {}))
  <2>1. PICK D \in SUBSET Evictable(c, all) :
          /\ Cardinality(D) = lost
          /\ d = [entries |-> all \ D, pinned |-> (c.pinned \cup pins) \ D]
    BY <1>3 DEF Promoted
  <2>2. all \in SUBSET Item /\ IsFiniteSet(all) /\ D \in SUBSET all
    BY <1>1, <2>1, FiniteItems DEF Evictable
  <2>3. IsFiniteSet(D) /\ IsFiniteSet(all \ D)
    BY <2>2, FS_Subset
  <2>4. Cardinality(all) \in Nat /\ Cardinality(D) \in Nat /\ Cardinality(all \ D) \in Nat
    BY <2>2, <2>3, FS_CardinalityType
  <2>5. Cardinality(all \ D) = Cardinality(all) - Cardinality(D)
    <3>1. all \cap D = D
      BY <2>2
    <3> QED
      BY <2>2, <3>1, FS_Difference
  <2>6. Cardinality(all \ D) <= MaxEntries
    BY <2>1, <2>4, <2>5, WorkingMemoryAssumption DEF Limit
  <2>7. D = {} \/ Full(all \ D)
    <3>1. CASE Cardinality(all) > Limit
      BY <3>1, <2>1, <2>4, <2>5, WorkingMemoryAssumption DEF Limit, Full
    <3>2. CASE ~(Cardinality(all) > Limit)
      BY <3>2, <2>1, <2>3, FS_EmptySet
    <3> QED
      BY <3>1, <3>2
  <2>8. D \cap c.pinned = {}
    BY <2>1 DEF Evictable
  <2> QED
    BY <1>1, <2>1, <2>2, <2>6, <2>7, <2>8 DEF Sound, Cache, Keeps
<1> QED
  BY <1>2, <1>3

-----------------------------------------------------------------------------
(* Types and capacity *)

Bounded == /\ Sound(hot)
           /\ copy \in [Task -> Cache] /\ \A t \in Task : Sound(copy[t])
           /\ scratch \in [Sessions -> SUBSET Learnings]
           /\ files \subseteq Sessions
           /\ pc \in [Task -> Point]
           /\ crashes \in 0 .. MaxCrashes

\* The bounded state has its types.
LEMMA BoundedTypeOK == Bounded => TypeOK
  BY DEF Bounded, TypeOK, Sound

\* The bounds hold of the empty cache.
LEMMA InitBounded == Init => Bounded
  BY EmptySound, WorkingMemoryAssumption DEF Init, Bounded, Sound, Point, Holding

\* Dropping entries from a cache leaves it within its capacity.
LEMMA DropSound ==
  ASSUME NEW c, Sound(c), NEW L
  PROVE  Sound([entries |-> c.entries \ L, pinned |-> c.pinned \ L])
<1>1. c.entries \in SUBSET Item /\ c.pinned \in SUBSET c.entries /\ IsFiniteSet(c.entries)
  BY FiniteItems DEF Sound, Cache
<1>2. Cardinality(c.entries \ L) <= Cardinality(c.entries) /\ IsFiniteSet(c.entries \ L)
  BY <1>1, FS_Subset
<1>3. Cardinality(c.entries \ L) \in Nat /\ Cardinality(c.entries) \in Nat
  BY <1>1, <1>2, FS_CardinalityType
<1>4. Cardinality(c.entries \ L) <= MaxEntries
  BY <1>2, <1>3, WorkingMemoryAssumption DEF Sound
<1> QED
  BY <1>1, <1>4 DEF Sound, Cache

\* Every step keeps the bounds.
LEMMA NextBounded == Bounded /\ [Next]_vars => Bounded'
<1> SUFFICES ASSUME Bounded, [Next]_vars PROVE Bounded'
  OBVIOUS
<1> USE DEF Bounded, Point, Holding
<1>a. \A t \in Task : Sound(copy[t]) /\ Sound(Empty) /\ Empty \in Cache
  BY EmptySound DEF Sound
<1>b. Sessions \subseteq Task /\ Writers \subseteq Task
  BY DEF Task
<1>1. ASSUME NEW s \in Sessions, LoadForRecall(s) PROVE Bounded'
  BY <1>1, <1>b, DropSound DEF LoadForRecall, Take, Goto, Sound
<1>2. ASSUME NEW s \in Sessions, MorningRecall(s) PROVE Bounded'
  <2>1. PICK M \in SUBSET (Memories \ copy[s].entries) : hot' \in Promoted(copy[s], M, FALSE)
    BY <1>2 DEF MorningRecall
  <2>2. Sound(hot')
    BY <2>1, <1>a, <1>b, PromotedFacts DEF Item
  <2> QED
    BY <1>2, <1>a, <1>b, <2>2 DEF MorningRecall, Take, Goto
<1>3. ASSUME NEW s \in Sessions, StartSession(s) PROVE Bounded'
  BY <1>3, <1>b DEF StartSession, Goto
<1>4. ASSUME NEW s \in Sessions, NEW l \in Learnings, AppendLearning(s, l) PROVE Bounded'
  BY <1>4 DEF AppendLearning
<1>5. ASSUME NEW s \in Sessions, EndSession(s) PROVE Bounded'
  BY <1>5, <1>b DEF EndSession, Goto
<1>6. ASSUME NEW s \in Sessions, NapLoad(s) PROVE Bounded'
  BY <1>6, <1>b DEF NapLoad, Take, Goto, Sound
<1>7. ASSUME NEW s \in Sessions, MergeSession(s) PROVE Bounded'
  <2>1. PICK c \in Promoted(copy[s], scratch[s], FALSE) : Take(s, c)
    BY <1>7 DEF MergeSession
  <2>2. Sound(c)
    BY <1>a, <1>b, PromotedFacts DEF Item
  <2> QED
    BY <1>7, <1>b, <2>1, <2>2 DEF MergeSession, Take, Goto, Sound
<1>8. ASSUME NEW s \in Sessions, NapSave(s) PROVE Bounded'
  BY <1>8, <1>a, <1>b DEF NapSave, Take, Goto
<1>9. ASSUME NEW s \in Sessions, MarkSessionMerged(s) PROVE Bounded'
  BY <1>9, <1>b DEF MarkSessionMerged, Goto
<1>10. ASSUME NEW w \in Writers, Load(w) PROVE Bounded'
  BY <1>10, <1>b DEF Load, Take, Goto, Sound
<1>11. ASSUME NEW w \in Writers, Boost(w) PROVE Bounded'
  <2>1. PICK m \in Memories, pin \in BOOLEAN : \E c \in Promoted(copy[w], {m}, pin) :
          hot' = IF m \in c.entries THEN c ELSE hot
    BY <1>11 DEF Boost
  <2>2. {m} \in SUBSET Item /\ Sound(copy[w])
    BY <1>a, <1>b DEF Item
  <2>3. Sound(hot')
    BY <2>1, <2>2, PromotedFacts
  <2> QED
    BY <1>11, <1>a, <1>b, <2>3 DEF Boost, Take, Goto
<1>12. ASSUME NEW w \in Writers, SaveUnchanged(w) PROVE Bounded'
  BY <1>12, <1>a, <1>b DEF SaveUnchanged, Take, Goto
<1>13. ASSUME NEW t \in Task, Cut(t) PROVE Bounded'
  BY <1>13, <1>a, WorkingMemoryAssumption DEF Cut, Take, Goto
<1>14. CASE UNCHANGED vars
  BY <1>14 DEF vars
<1> QED
  BY <1>1, <1>2, <1>3, <1>4, <1>5, <1>6, <1>7, <1>8, <1>9, <1>10, <1>11, <1>12, <1>13, <1>14
     DEF Next, Session

\* The types hold, and neither the cache on disk nor a loaded copy exceeds
\* hot_cache_max_entries, whichever tasks overlap and wherever they are cut.
THEOREM TypeCorrect == Spec => []TypeOK
<1>1. Spec => []Bounded
  BY InitBounded, NextBounded, PTL DEF Spec
<1> QED
  BY <1>1, BoundedTypeOK, PTL

-----------------------------------------------------------------------------
(* One task after the other *)

Busy(t) == pc[t] \in Holding \cup {"mark"}

\* Only one task is between its load and the end of its use of the file, and
\* what it has loaded has not changed: merged, it still has all that was there,
\* or is full; marked, the file has the session's learnings, or is full.
InTurn ==
  /\ \A t, u \in Task : Busy(t) /\ Busy(u) => t = u
  /\ \A t \in Task :
       /\ pc[t] = "recall" => copy[t].entries = hot.entries \ Lifecycle
                              /\ copy[t].pinned = hot.pinned \ Lifecycle
       /\ pc[t] \in {"merge", "rewrite"} => copy[t] = hot
       /\ pc[t] = "save" => Keeps(copy[t], hot.entries) /\ hot.pinned \subseteq copy[t].pinned
  /\ \A s \in Sessions : /\ pc[s] = "save" => Keeps(copy[s], scratch[s])
                         /\ pc[s] = "mark" => Keeps(hot, scratch[s])

\* What a step may take from the cache, and from a session.
StepKeeps ==
  /\ hot.entries \subseteq hot'.entries \cup Lifecycle \/ Full(hot'.entries)
  /\ hot.pinned \subseteq hot'.pinned \cup Lifecycle
  /\ \A s \in Sessions : s \in files \ files' => Keeps(hot, scratch[s])

\* No task is between a load and its save to begin with.
LEMMA InitInTurn == Init => InTurn
  BY DEF Init, InTurn, Busy, Holding, Task

\* When tasks take turns every step keeps them so, and loses nothing a full cache would not.
LEMMA NextInTurn ==
  ASSUME Overlap = FALSE
  PROVE  Bounded /\ InTurn /\ [Next]_vars => InTurn' /\ StepKeeps
<1> SUFFICES ASSUME Bounded, InTurn, [Next]_vars PROVE InTurn' /\ StepKeeps
  OBVIOUS
<1> USE DEF Bounded, InTurn, StepKeeps, Busy, Point, Holding
<1>b. Sessions \subseteq Task /\ Writers \subseteq Task /\ Sessions \cap Writers = {}
  BY WorkingMemoryAssumption DEF Task
<1>c. \A t \in Task : Sound(copy[t])
  OBVIOUS
<1>1. ASSUME NEW s \in Sessions, LoadForRecall(s) PROVE InTurn' /\ StepKeeps
  BY <1>1, <1>b DEF LoadForRecall, MayLoad, Take, Goto
<1>2. ASSUME NEW s \in Sessions, MorningRecall(s) PROVE InTurn' /\ StepKeeps
  <2>1. PICK M \in SUBSET (Memories \ copy[s].entries) : hot' \in Promoted(copy[s], M, FALSE)
    BY <1>2 DEF MorningRecall
  <2>2. copy[s].pinned \subseteq hot'.pinned /\ Keeps(hot', copy[s].entries)
    BY <2>1, <1>b, <1>c, PromotedFacts DEF Item
  <2>3. pc[s] = "recall" /\ pc' = [pc EXCEPT ![s] = "start"] /\ UNCHANGED <<scratch, files>>
        /\ copy' = [copy EXCEPT ![s] = Empty]
    BY <1>2 DEF MorningRecall, Take, Goto
  <2>4. StepKeeps
    BY <2>2, <2>3, <1>b DEF Keeps
  <2>5. \A t \in Task : t # s => ~Busy(t)
    BY <2>3, <1>b
  <2>6. InTurn'
    BY <2>3, <2>5, <1>b
  <2> QED
    BY <2>4, <2>6
<1>3. ASSUME NEW s \in Sessions, StartSession(s) PROVE InTurn' /\ StepKeeps
  BY <1>3, <1>b DEF StartSession, Goto
<1>4. ASSUME NEW s \in Sessions, NEW l \in Learnings, AppendLearning(s, l)
      PROVE  InTurn' /\ StepKeeps
  BY <1>4, <1>b DEF AppendLearning
<1>5. ASSUME NEW s \in Sessions, EndSession(s) PROVE InTurn' /\ StepKeeps
  BY <1>5, <1>b DEF EndSession, Goto
<1>6. ASSUME NEW s \in Sessions, NapLoad(s) PROVE InTurn' /\ StepKeeps
  BY <1>6, <1>b DEF NapLoad, MayLoad, Take, Goto
<1>7. ASSUME NEW s \in Sessions, MergeSession(s) PROVE InTurn' /\ StepKeeps
  <2>1. PICK c \in Promoted(copy[s], scratch[s], FALSE) : Take(s, c)
    BY <1>7 DEF MergeSession
  <2>2. scratch[s] \in SUBSET Item
    BY <1>b DEF Item
  <2>3. copy[s].pinned \subseteq c.pinned /\ Keeps(c, copy[s].entries) /\ Keeps(c, scratch[s])
    BY <2>2, <1>b, <1>c, PromotedFacts
  <2>4. pc[s] = "merge" /\ pc' = [pc EXCEPT ![s] = "save"] /\ UNCHANGED <<hot, scratch, files>>
        /\ copy' = [copy EXCEPT ![s] = c]
    BY <1>7, <2>1 DEF MergeSession, Take, Goto
  <2>5. copy[s] = hot
    BY <2>4, <1>b
  <2> QED
    BY <2>3, <2>4, <2>5, <1>b
<1>8. ASSUME NEW s \in Sessions, NapSave(s) PROVE InTurn' /\ StepKeeps
  <2>1. pc[s] = "save" /\ pc' = [pc EXCEPT ![s] = "mark"] /\ UNCHANGED <<scratch, files>>
        /\ copy' = [copy EXCEPT ![s] = Empty] /\ hot' = copy[s]
    BY <1>8 DEF NapSave, Take, Goto
  <2>2. StepKeeps
    BY <2>1, <1>b DEF Keeps
  <2>3. \A t \in Task : t # s => ~Busy(t)
    BY <2>1, <1>b
  <2>4. InTurn'
    BY <2>1, <2>3, <1>b
  <2> QED
    BY <2>2, <2>4
<1>9. ASSUME NEW s \in Sessions, MarkSessionMerged(s) PROVE InTurn' /\ StepKeeps
  BY <1>9, <1>b DEF MarkSessionMerged, Goto
<1>10. ASSUME NEW w \in Writers, Load(w) PROVE InTurn' /\ StepKeeps
  BY <1>10, <1>b DEF Load, MayLoad, Take, Goto
<1>11. ASSUME NEW w \in Writers, Boost(w) PROVE InTurn' /\ StepKeeps
  <2>1. PICK m \in Memories, pin \in BOOLEAN : \E c \in Promoted(copy[w], {m}, pin) :
          hot' = IF m \in c.entries THEN c ELSE hot
    BY <1>11 DEF Boost
  <2>2. {m} \in SUBSET Item /\ Sound(copy[w])
    BY <1>b, <1>c DEF Item
  <2>3. pc[w] = "rewrite" /\ pc' = [pc EXCEPT ![w] = "off"] /\ UNCHANGED <<scratch, files>>
        /\ copy' = [copy EXCEPT ![w] = Empty]
    BY <1>11 DEF Boost, Take, Goto
  <2>4. copy[w] = hot
    BY <2>3, <1>b
  <2>5. hot.pinned \subseteq hot'.pinned /\ Keeps(hot', hot.entries)
    BY <2>1, <2>2, <2>4, PromotedFacts DEF Keeps
  <2>6. StepKeeps
    BY <2>3, <2>5 DEF Keeps
  <2>7. \A t \in Task : t # w => ~Busy(t)
    BY <2>3, <1>b
  <2>8. InTurn'
    BY <2>3, <2>7, <1>b
  <2> QED
    BY <2>6, <2>8
<1>12. ASSUME NEW w \in Writers, SaveUnchanged(w) PROVE InTurn' /\ StepKeeps
  BY <1>12, <1>b DEF SaveUnchanged, Take, Goto
<1>13. ASSUME NEW t \in Task, Cut(t) PROVE InTurn' /\ StepKeeps
  BY <1>13, <1>b DEF Cut, Take, Goto
<1>14. CASE UNCHANGED vars
  BY <1>14 DEF vars, Keeps
<1> QED
  BY <1>1, <1>2, <1>3, <1>4, <1>5, <1>6, <1>7, <1>8, <1>9, <1>10, <1>11, <1>12, <1>13, <1>14
     DEF Next, Session

\* When tasks take turns no step loses a pin, a learning or an entry, unless the cache is full.
LEMMA StepsKeep == ASSUME Overlap = FALSE PROVE Spec => [][StepKeeps]_vars
<1>1. Init => Bounded /\ InTurn
  BY InitBounded, InitInTurn
<1>2. Bounded /\ InTurn /\ [Next]_vars => (Bounded /\ InTurn)' /\ StepKeeps
  BY NextBounded, NextInTurn
<1> QED
  BY <1>1, <1>2, PTL DEF Spec

\* Tasks that follow one another lose no learning: run_nap marks a scratch file
\* as merged only when its learnings are in the cache on disk, or that cache is
\* full, wherever earlier tasks were cut short.
THEOREM MergedIsSavedHolds == ASSUME Overlap = FALSE PROVE Spec => MergedIsSaved
<1>1. StepKeeps => \A s \in Sessions :
        s \in files \ files' => scratch[s] \subseteq hot.entries \/ Full(hot.entries)
  BY DEF StepKeeps, Keeps
<1> QED
  BY <1>1, StepsKeep, PTL DEF MergedIsSaved

\* Nor an entry of the cache, while it has room.
THEOREM LeavesOnlyWhenFullHolds == ASSUME Overlap = FALSE PROVE Spec => LeavesOnlyWhenFull
<1>1. StepKeeps => (~ hot.entries \subseteq hot'.entries \cup Lifecycle => Full(hot'.entries))
  BY DEF StepKeeps
<1> QED
  BY <1>1, StepsKeep, PTL DEF LeavesOnlyWhenFull

\* Nor ever a pin.
THEOREM PinsStayHolds == ASSUME Overlap = FALSE PROVE Spec => PinsStay
<1>1. StepKeeps => hot.pinned \subseteq hot'.pinned \cup Lifecycle
  BY DEF StepKeeps
<1> QED
  BY <1>1, StepsKeep, PTL DEF PinsStay
=============================================================================
