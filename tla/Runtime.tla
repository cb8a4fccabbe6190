----------------------------- MODULE Runtime -----------------------------
(***************************************************************************)
(* RuntimeController (nexus-agent/src/runtime.rs, runtime_state.rs) and    *)
(* what the commands of a session do around it (nexus-cli/src/commands/    *)
(* session.rs): hooks run `nexus session start`, `event` and `end` as      *)
(* processes of their own, which share a state file and the session's      *)
(* memories and jobs.                                                      *)
(*                                                                         *)
(* The runtime and the dream at the end are enabled, as by default.  Of    *)
(* the state file there is whether it can be read: nothing decides on its  *)
(* mode and times.  enqueue_job_if_absent is one step, its races being     *)
(* EnqueueIfAbsent's, and so is a drain, JobWorker's; neither it nor       *)
(* anybody else archives a session's lifecycle memories.                   *)
(***************************************************************************)
EXTENDS Naturals

CONSTANTS
  Commands,      \* processes of the session's hooks
  Histories,     \* what the session may have in memory before
  Reasons, None,       \* RuntimeShutdownReason; the command line only ends sessions
  Learned,       \* classes of memories that others add
  MaxCommands,   \* bound: commands begun
  MaxLearned,    \* bound: memories added by others
  MaxErrors      \* bound: commands that fail or are killed

VARIABLES
  file,          \* the state file
  memories,      \* memories[c]: the session's active memories of class c
  open,          \* kinds of the session's jobs that are pending or running
  digested,      \* has the session a digest?
  pc,            \* pc[p]: the next statement of p
  reason,        \* reason[p]: why p ends the session
  signals,       \* signals[p]: DreamSignals
  plan,          \* plan[p]: DreamScheduleAction
  asked,         \* history: the kinds of jobs that p has seen to be open
  warned,        \* history: ends whose dream failed or timed out
  revived,       \* history: may a start have written since the last completed end?
  begun, learned, errors

session == <<memories, open, digested>>
dream   == <<signals, plan, asked, warned>>
bounds  == <<begun, learned, errors>>
vars    == <<file, session, pc, reason, dream, revived, bounds>>

\* "observed" are explicit and derived memories, "contested" such ones that were
\* contradicted, "other" those of the levels that no signal counts.
Class == {"raw", "observed", "contested", "contradiction", "other"}
Kind  == {"reflect", "digest"}
Plan  == {"ImmediateBounded", "DelayedEnqueue", "DigestOnly", "Skip"}
EndPoint   == {"record", "mark", "drain", "list", "count", "reflect", "digest",
               "finalize", "remove"}
Writing    == {"read", "truncate", "write"}
StartPoint == Writing \cup {"startDrain"}

TypeOK ==
  /\ file     \in {"absent", "torn", "whole"}
  /\ memories \in [Class -> Nat]
  /\ open \subseteq Kind /\ digested \in BOOLEAN
  /\ pc       \in [Commands -> {"idle"} \cup StartPoint \cup EndPoint]
  /\ reason   \in [Commands -> Reasons \cup {None}]
  /\ signals  \in [Commands -> [Class -> Nat]]
  /\ plan     \in [Commands -> Plan]
  /\ asked    \in [Commands -> SUBSET Kind]
  /\ warned \subseteq Commands /\ revived \in BOOLEAN
  /\ begun \in 0 .. MaxCommands /\ learned \in 0 .. MaxLearned /\ errors \in 0 .. MaxErrors

Nothing == [c \in Class |-> 0]

Init ==
  /\ file = "absent"
  /\ memories \in Histories /\ open = {} /\ digested = FALSE
  /\ pc = [p \in Commands |-> "idle"]
  /\ reason = [p \in Commands |-> None]
  /\ signals = [p \in Commands |-> Nothing]
  /\ plan    = [p \in Commands |-> "Skip"]
  /\ asked   = [p \in Commands |-> {}]
  /\ warned = {} /\ revived = TRUE
  /\ begun = 0 /\ learned = 0 /\ errors = 0

Goto(p, point) == pc' = [pc EXCEPT ![p] = point]
Step(p, from, to) == pc[p] = from /\ Goto(p, to)

\* A process ends, and its local state with it.
Quit(p) ==
  /\ Goto(p, "idle")
  /\ reason'  = [reason EXCEPT ![p] = None]
  /\ signals' = [signals EXCEPT ![p] = Nothing]
  /\ plan'    = [plan EXCEPT ![p] = "Skip"]
  /\ asked'   = [asked EXCEPT ![p] = {}]
  /\ warned'  = warned \ {p}

Store(c) == memories' = [memories EXCEPT ![c] = @ + 1]

-----------------------------------------------------------------------------
(* What goes on meanwhile: hooks and jobs add memories, distillation        *)
(* archives raw events, and the session's jobs are done or given up.        *)

Learn(c) ==
  /\ learned < MaxLearned
  /\ learned' = learned + 1
  /\ Store(c)
  /\ UNCHANGED <<file, open, digested, pc, reason, dream, revived, begun, errors>>

Distill ==
  /\ memories["raw"] > 0
  /\ memories' = [memories EXCEPT !["raw"] = 0]
  /\ UNCHANGED <<file, open, digested, pc, reason, dream, revived, bounds>>

\* Jobs of the session are settled; a digest job may leave a digest.
Settle(kinds) ==
  /\ kinds \subseteq open
  /\ open' = open \ kinds
  /\ digested' \in IF "digest" \in kinds THEN {digested, TRUE} ELSE {digested}

Work(k) ==
  /\ k \in open /\ Settle({k})
  /\ UNCHANGED <<file, memories, pc, reason, dream, revived, bounds>>

-----------------------------------------------------------------------------
(* session start and session event: ensure_started.                         *)

Begin(p, point) ==
  /\ begun < MaxCommands
  /\ begun' = begun + 1
  /\ Step(p, "idle", point)
  /\ UNCHANGED <<file, session, dream, learned, errors>>

BeginStart(p) ==
  /\ Begin(p, "read")
  /\ revived' = TRUE
  /\ UNCHANGED reason

\* read_runtime_state: a file that cannot be parsed is an error.
ReadState(p) ==
  /\ pc[p] = "read"
  /\ Goto(p, IF file = "torn" THEN "idle" ELSE "truncate")
  /\ UNCHANGED <<file, session, reason, dream, revived, bounds>>

\* write_runtime_state is std::fs::write, which truncates the file first.
Truncate(p) ==
  /\ Step(p, "truncate", "write")
  /\ file' = "torn"
  /\ UNCHANGED <<session, reason, dream, revived, bounds>>

WriteState(p) ==
  /\ Step(p, "write", "startDrain")
  /\ file' = "whole"
  /\ UNCHANGED <<session, reason, dream, revived, bounds>>

\* drain_cognition_jobs, and the memory of the start or the event.
StartDrain(p) ==
  /\ Step(p, "startDrain", "idle")
  /\ \E kinds \in SUBSET open : Settle(kinds)
  /\ Store("observed")
  /\ UNCHANGED <<file, reason, dream, revived, bounds>>

-----------------------------------------------------------------------------
(* session end: its memory, then flush_and_shutdown, which others call with *)
(* other reasons and without that memory.                                   *)

BeginEnd(p) ==
  /\ \/ Begin(p, "record") /\ reason' = [reason EXCEPT ![p] = "SessionEnded"]
     \/ Begin(p, "mark") /\ \E r \in Reasons : reason' = [reason EXCEPT ![p] = r]
  /\ UNCHANGED revived

\* store_session_memory; the retry buffer's drain adds memories as others do.
Record(p) ==
  /\ Step(p, "record", "mark")
  /\ Store("observed")
  /\ UNCHANGED <<file, open, digested, reason, dream, revived, bounds>>

\* (bug) the marker has no cognitive metadata, which makes it a raw event.
BugMark(p) ==
  /\ Step(p, "mark", "drain")
  /\ Store("raw")
  /\ UNCHANGED <<file, open, digested, reason, dream, revived, bounds>>

\* store_runtime_marker
Mark(p) ==
  /\ Step(p, "mark", "drain")
  /\ Store("observed")
  /\ UNCHANGED <<file, open, digested, reason, dream, revived, bounds>>

Drain(p) ==
  /\ Step(p, "drain", "list")
  /\ \E kinds \in SUBSET open : Settle(kinds)
  /\ UNCHANGED <<file, memories, reason, dream, revived, bounds>>

\* collect_dream_signals: the memories, and then the digests.  The listing stops at
\* the newest 512 (dream_cycle.rs:451): a session is taken to have no more.
ListMemories(p) ==
  /\ Step(p, "list", "count")
  /\ signals' = [signals EXCEPT ![p] = memories]
  /\ UNCHANGED <<file, session, reason, plan, asked, warned, revived, bounds>>

Contradictions(s) == s["contradiction"] + s["contested"]
Observed(s)       == s["observed"] + s["contested"]
NonRaw(s)         == Observed(s) + s["contradiction"] + s["other"]

\* choose_dream_schedule: contradictions of more than 15 % of the memories, of
\* 10 % when the session ends, are dreamt about at once.
DreamSchedule(s, gap, r) ==
  LET ended    == r = "SessionEnded"
      idle     == r = "IdleTimeout"
      contrary == Contradictions(s) > 0
      dense    == \/ 100 * Contradictions(s) > 15 * NonRaw(s)
                  \/ ended /\ 10 * Contradictions(s) >= NonRaw(s)
      whenIdle == IF Observed(s) > 0 THEN "DelayedEnqueue" ELSE "Skip"
  IN  IF NonRaw(s) + s["raw"] = 0 THEN "Skip"
      ELSE IF (contrary /\ dense) \/ (ended /\ Observed(s) > 0) THEN "ImmediateBounded"
      ELSE IF contrary /\ idle THEN whenIdle
      ELSE IF gap /\ s["raw"] > 0 THEN "DigestOnly"
      ELSE IF idle THEN whenIdle
      ELSE "DelayedEnqueue"

FirstPoint(action) ==
  CASE action = "Skip"       -> "remove"
    [] action = "DigestOnly" -> "digest"
    [] OTHER                 -> "reflect"

CountDigests(p) ==
  /\ pc[p] = "count"
  /\ plan' = [plan EXCEPT ![p] = DreamSchedule(signals[p], ~digested, reason[p])]
  /\ Goto(p, FirstPoint(plan'[p]))
  /\ UNCHANGED <<file, session, reason, signals, asked, warned, revived, bounds>>

\* enqueue_job_if_absent
Ask(p, k) ==
  /\ open'  = open \cup {k}
  /\ asked' = [asked EXCEPT ![p] = @ \cup {k}]
  /\ UNCHANGED <<file, memories, digested, reason, signals, plan, warned, revived, bounds>>

\* enqueue_dream_jobs asks for both jobs; DigestOnly begins with the second.
EnqueueReflect(p) ==
  /\ Step(p, "reflect", "digest")
  /\ Ask(p, "reflect")

Drained(p) ==
  \/ plan[p] = "ImmediateBounded"
  \/ plan[p] = "DigestOnly" /\ "digest" \notin open /\ reason[p] = "SessionEnded"

EnqueueDigest(p) ==
  /\ Step(p, "digest", IF Drained(p) THEN "finalize" ELSE "remove")
  /\ Ask(p, "digest")

Finalize(p) ==
  /\ Step(p, "finalize", "remove")
  /\ \E kinds \in SUBSET open : Settle(kinds)
  /\ UNCHANGED <<file, memories, reason, dream, revived, bounds>>

\* An error or a timeout of the bounded dream is only logged.
DreamCut(p) ==
  /\ \/ pc[p] = "finalize"
     \/ pc[p] \in {"reflect", "digest"} /\ plan[p] = "ImmediateBounded"
  /\ Goto(p, "remove")
  /\ warned' = warned \cup {p}
  /\ UNCHANGED <<file, session, reason, signals, plan, asked, revived, bounds>>

\* (bug) a state that cannot be read is not removed.
BugRemoveState(p) ==
  /\ pc[p] = "remove" /\ Quit(p)
  /\ file' = IF file = "torn" THEN file ELSE "absent"
  /\ revived' = \E q \in Commands : pc[q] \in Writing
  /\ UNCHANGED <<session, bounds>>

RemoveState(p) ==
  /\ pc[p] = "remove" /\ Quit(p)
  /\ file' = "absent"
  /\ revived' = \E q \in Commands : pc[q] \in Writing
  /\ UNCHANGED <<session, bounds>>

\* Any other error ends the command, as a kill does.
Leave(p) ==
  /\ pc[p] # "idle" /\ errors < MaxErrors
  /\ errors' = errors + 1
  /\ Quit(p)
  /\ UNCHANGED <<file, session, revived, begun, learned>>

Proceed(p) ==
  \/ ReadState(p) \/ Truncate(p) \/ WriteState(p) \/ StartDrain(p)
  \/ Record(p) \/ Mark(p) \/ Drain(p) \/ ListMemories(p) \/ CountDigests(p)
  \/ EnqueueReflect(p) \/ EnqueueDigest(p) \/ Finalize(p) \/ RemoveState(p)

Next ==
  \/ \E p \in Commands :
       \/ BeginStart(p) \/ BeginEnd(p) \/ Proceed(p) \/ DreamCut(p) \/ Leave(p)
  \/ \E c \in Learned : Learn(c)
  \/ \E k \in Kind : Work(k)
  \/ Distill

Spec == Init /\ [][Next]_vars

-----------------------------------------------------------------------------
(* Properties *)

\* "bounded session-end dream work" (ARCHITECTURE.md:363) is planned for every
\* end: whatever the session has in memory, whoever distills, digests or adds to
\* it between the marker, the two reads and the plan, an end that gets as far as
\* removing the state has found or put a digest job in the queue, and if it saw
\* contradictions a reflect job too -- unless its dream was cut short or, for
\* contradictions, it was a manual one.
EndIsFollowed ==
  \A p \in Commands :
    pc[p] = "remove" /\ p \notin warned =>
      /\ "digest" \in asked[p]
      /\ Contradictions(signals[p]) > 0 /\ reason[p] # "Manual" => "reflect" \in asked[p]

\* An end that completes clears the state file for good, also one that a killed
\* start left torn, which refuses every further start (runtime_state.rs:98), and
\* also when its dream failed or timed out: only a start that had yet to
\* write it then, or that runs later, brings it back.
EndClears == revived \/ file = "absent"
=============================================================================
