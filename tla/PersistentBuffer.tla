------------------------- MODULE PersistentBuffer -------------------------
(***************************************************************************)
(* The buffer of an agent's session context (nexus-hooks/src/buffer.rs):   *)
(* entries are collected in memory and flushed, all of them, to a file     *)
(* that survives the process: written to <agent>.json.tmp, which is then   *)
(* renamed.  The tasks of a process share the buffer under a read-write    *)
(* lock, and a flush holds it for reading: flushes may overlap, and share  *)
(* the name of the temporary file.  After a restart the memory is empty.   *)
(***************************************************************************)
EXTENDS Naturals

CONSTANTS
  Entries,
  Flushers,      \* tasks that flush
  NoFile, Torn,  \* contents: no such file, a truncated one
  MaxRestarts    \* bound: how often the process ends

VARIABLES
  fresh,         \* entries that have not been buffered
  memory,        \* the entries of the buffer
  file, tmp,     \* the contents of the two files
  pc,            \* pc[t]: idle, write, rename or discard
  fd,            \* fd[t]: which of the files t has open: tmp, file or none
  clearing,      \* clear_buffer has emptied the memory, the file is still there
  restarts,
  owed,          \* history: entries flushed, and neither recovered nor cleared
  restarted,     \* history: a restarted process has not recovered the file
  excused        \* history: see FlushedIsKept

vars == <<fresh, memory, file, tmp, pc, fd, clearing, restarts, owed, restarted, excused>>

Content == (SUBSET Entries) \cup {NoFile, Torn}

TypeOK ==
  /\ fresh \subseteq Entries /\ memory \subseteq Entries /\ owed \subseteq Entries
  /\ file \in Content /\ tmp \in Content
  /\ pc \in [Flushers -> {"idle", "write", "rename", "discard"}]
  /\ fd \in [Flushers -> {"tmp", "file", "none"}]
  /\ clearing \in BOOLEAN /\ restarted \in BOOLEAN /\ excused \in BOOLEAN
  /\ restarts \in 0 .. MaxRestarts

Init ==
  /\ fresh = Entries /\ memory = {} /\ owed = {}
  /\ file = NoFile /\ tmp = NoFile
  /\ pc = [t \in Flushers |-> "idle"] /\ fd = [t \in Flushers |-> "none"]
  /\ clearing = FALSE /\ restarted = FALSE /\ excused = FALSE
  /\ restarts = 0

Flushing == {t \in Flushers : pc[t] # "idle"}

\* buffer_context takes the lock for writing.
BufferContext(e) ==
  /\ Flushing = {} /\ e \in fresh
  /\ fresh' = fresh \ {e}
  /\ memory' = memory \cup {e}
  /\ UNCHANGED <<file, tmp, pc, fd, clearing, restarts, owed, restarted, excused>>

-----------------------------------------------------------------------------
(* flush_to_disk *)

\* (bug) only what no flush has written yet, as if it were appended.
BugBuffered == memory \ owed

\* All of the buffer is written each time: the rename replaces the file.
Buffered == memory

Truncate(t) ==
  /\ pc[t] = "idle" /\ memory # {}
  /\ tmp' = Torn
  /\ pc' = [pc EXCEPT ![t] = "write"]
  /\ fd' = [fd EXCEPT ![t] = "tmp"]
  /\ excused' = (excused \/ clearing \/ (restarted /\ owed # {}))
  /\ UNCHANGED <<fresh, memory, file, clearing, restarts, owed, restarted>>

Write(t) ==
  /\ pc[t] = "write"
  /\ tmp'  = IF fd[t] = "tmp" THEN Buffered ELSE tmp
  /\ file' = IF fd[t] = "file" THEN Buffered ELSE file
  /\ pc' = [pc EXCEPT ![t] = "rename"]
  /\ UNCHANGED <<fresh, memory, fd, clearing, restarts, owed, restarted, excused>>

\* Whoever had the temporary file open has the file open now.
Rename(t) ==
  /\ pc[t] = "rename" /\ tmp # NoFile
  /\ file' = tmp /\ tmp' = NoFile
  /\ fd' = [u \in Flushers |->
       IF fd[u] = "tmp" /\ u # t THEN "file" ELSE "none"]
  /\ pc' = [pc EXCEPT ![t] = "idle"]
  /\ owed' = owed \cup memory
  /\ UNCHANGED <<fresh, memory, clearing, restarts, restarted, excused>>

\* Another flush has renamed it: an error ...
RenameFails(t) ==
  /\ pc[t] = "rename" /\ tmp = NoFile
  /\ fd' = [fd EXCEPT ![t] = "none"]
  /\ pc' = [pc EXCEPT ![t] = "discard"]
  /\ UNCHANGED <<fresh, memory, file, tmp, clearing, restarts, owed, restarted, excused>>

\* ... after which the name is removed, whoever writes to that file by now.
Discard(t) ==
  /\ pc[t] = "discard"
  /\ tmp' = NoFile
  /\ fd' = [u \in Flushers |-> IF fd[u] = "tmp" THEN "none" ELSE fd[u]]
  /\ pc' = [pc EXCEPT ![t] = "idle"]
  /\ UNCHANGED <<fresh, memory, file, clearing, restarts, owed, restarted, excused>>

-----------------------------------------------------------------------------
(* Recovery *)

RecoverBuffer ==
  /\ file \notin {NoFile, Torn}
  /\ restarted
  /\ owed' = owed \ file
  /\ restarted' = FALSE
  /\ UNCHANGED <<fresh, memory, file, tmp, pc, fd, clearing, restarts, excused>>

\* clear_buffer: first the memory, under the lock ...
ClearMemory ==
  /\ Flushing = {} /\ ~clearing
  /\ memory' = {} /\ owed' = {}
  /\ clearing' = TRUE
  /\ UNCHANGED <<fresh, file, tmp, pc, fd, restarts, restarted, excused>>

\* ... then the file, without it.
ClearFile ==
  /\ clearing
  /\ file' = NoFile
  /\ clearing' = FALSE
  /\ UNCHANGED <<fresh, memory, tmp, pc, fd, restarts, owed, restarted, excused>>

Restart ==
  /\ restarts < MaxRestarts
  /\ restarts' = restarts + 1
  /\ memory' = {}
  /\ pc' = [t \in Flushers |-> "idle"] /\ fd' = [t \in Flushers |-> "none"]
  /\ clearing' = FALSE /\ restarted' = TRUE
  /\ excused' = (excused \/ \E t \in Flushers : fd[t] = "file")
  /\ UNCHANGED <<fresh, file, tmp, owed>>

Next ==
  \/ \E e \in Entries : BufferContext(e)
  \/ \E t \in Flushers : Truncate(t) \/ Write(t) \/ Rename(t) \/ RenameFails(t) \/ Discard(t)
  \/ RecoverBuffer \/ ClearMemory \/ ClearFile \/ Restart

Spec == Init /\ [][Next]_vars

-----------------------------------------------------------------------------
(* Properties *)

\* What a flush has put on disk is there, to be recovered, until it is recovered
\* or cleared, whenever no flush is under way and wherever the process ends --
\* unless a restarted process flushes before it has recovered the file, a flush
\* overlaps a clear, or the process ends in two overlapping flushes, one of which
\* had renamed the file the other was writing (buffer.rs:212).
FlushedIsKept ==
  Flushing = {} /\ ~excused => owed = {} \/ (file \notin {NoFile, Torn} /\ owed \subseteq file)
=============================================================================
