------------------------- MODULE ActivityMonitor -------------------------
(***************************************************************************)
(* activity_monitor.json: the samples of the user's activity and the time  *)
(* of the last deep dream (nexus-agent/src/activity_monitor.rs).  Hooks    *)
(* add samples, the supervisor's consolidation task (supervisor.rs) and    *)
(* `nexus soul rebuild` (nexus-cli/src/commands/soul.rs) dream.  Each of   *)
(* them loads the file, changes its copy and saves all of it, in processes *)
(* that share no lock.                                                     *)
(*                                                                         *)
(* Time is counted in sampling windows of ten minutes.  Which hour the     *)
(* user is found to sleep at is not modelled: the threshold of inactivity  *)
(* is the full one or the relaxed one.                                     *)
(***************************************************************************)
EXTENDS Naturals, FiniteSets

CONSTANTS
  Hooks,         \* processes that record activity
  Cooldown,      \* deep_dream_cooldown
  Thresholds,    \* inactivity before a dream: full and relaxed
  Retention,     \* how long samples are kept, 7 days
  Failures,      \* do saves fail, do processes end?
  MaxTime        \* bound: the clock

Never == MaxTime + 1
Time  == 0 .. MaxTime
Supervisor == "supervisor"
Rebuild    == "rebuild"
Process    == Hooks \cup {Supervisor, Rebuild}

VARIABLES
  now,
  disk,          \* the file
  copy,          \* copy[p]: what process p has loaded
  pc,            \* pc[p]: idle, loaded, dreaming, dreamt or merged
  during,        \* history: samples hooks saved while the supervisor dreamt
  latest,        \* history: when the latest deep dream was completed
  early,         \* history: a dream began within the cooldown of another
  raced          \* history: the record of a dream may have been undone

vars == <<now, disk, copy, pc, during, latest, early, raced>>

Monitor == [log : SUBSET Time, last : Time \cup {Never}]

TypeOK ==
  /\ now \in Time
  /\ disk \in Monitor
  /\ copy \in [Process -> Monitor]
  /\ pc \in [Process -> {"idle", "loaded", "dreaming", "dreamt", "merged"}]
  /\ during \in SUBSET Time /\ latest \in Time \cup {Never}
  /\ early \in BOOLEAN /\ raced \in BOOLEAN

Default == [log |-> {}, last |-> Never]

Init ==
  /\ now = 0 /\ disk = Default
  /\ copy = [p \in Process |-> Default]
  /\ pc   = [p \in Process |-> "idle"]
  /\ during = {} /\ latest = Never /\ early = FALSE /\ raced = FALSE

Tick ==
  /\ now < MaxTime
  /\ now' = now + 1
  /\ UNCHANGED <<disk, copy, pc, during, latest, early, raced>>

Goto(p, point) == pc' = [pc EXCEPT ![p] = point]

\* A process that goes idle needs its copy no more.
Forget(p) == copy' = [copy EXCEPT ![p] = Default] /\ Goto(p, "idle")

Load(p) == copy' = [copy EXCEPT ![p] = disk]

Save(m) == disk' = m

Latest(log) == CHOOSE t \in log : \A u \in log : u <= t

\* With no samples it is not known how long the user has been away.
InactiveFor(log, d) == log # {} /\ now >= Latest(log) + d

CooledDown(m) == m.last # Never => now >= m.last + Cooldown

ShouldDeepDream(m) == CooledDown(m) /\ \E d \in Thresholds : InactiveFor(m.log, d)

Record(t) == latest' = IF latest = Never \/ latest < t THEN t ELSE latest

BeginDream == early' = (early \/ (latest # Never /\ now < latest + Cooldown))

\* Whoever has dreamt will save the record of the latest dream.
SavedAgain ==
  \/ pc[Supervisor] # "idle" /\ copy[Supervisor].last = latest
  \/ pc[Rebuild] = "dreamt" /\ copy[Rebuild].last = latest

-----------------------------------------------------------------------------
(* Hooks: record_activity_with_content *)

HookLoads(h) ==
  /\ pc[h] = "idle"
  /\ Load(h)
  /\ Goto(h, "loaded")
  /\ UNCHANGED <<now, disk, during, latest, early, raced>>

\* record_activity, then save.
HookSaves(h) ==
  /\ pc[h] = "loaded"
  /\ Save([copy[h] EXCEPT !.log = {t \in @ \cup {now} : t + Retention > now}])
  /\ during' = IF pc[Supervisor] = "dreaming" THEN during \cup {now} ELSE during
  /\ raced' = (raced \/ (copy[h].last # latest /\ ~SavedAgain))
  /\ Forget(h)
  /\ UNCHANGED <<now, latest, early>>

-----------------------------------------------------------------------------
(* The supervisor's consolidation task *)

\* The iteration begins; a threshold dream may take its time after this.
SupervisorLoads ==
  /\ pc[Supervisor] = "idle"
  /\ Load(Supervisor)
  /\ raced' = (raced \/ pc[Rebuild] # "idle")
  /\ Goto(Supervisor, "loaded")
  /\ UNCHANGED <<now, disk, during, latest, early>>

DeepDream ==
  /\ pc[Supervisor] = "loaded"
  /\ ShouldDeepDream(copy[Supervisor])
  /\ BeginDream
  /\ Goto(Supervisor, "dreaming")
  /\ UNCHANGED <<now, disk, copy, during, latest, raced>>

\* run_deep_dream's last step saves the monitor it was given, or fails to.
DeepDreamEnds ==
  /\ pc[Supervisor] = "dreaming"
  /\ copy' = [copy EXCEPT ![Supervisor].last = now]
  /\ Save(copy'[Supervisor]) \/ (Failures /\ UNCHANGED disk)
  /\ Record(now)
  /\ Goto(Supervisor, "dreamt")
  /\ UNCHANGED <<now, during, early, raced>>

DeepDreamFails ==
  /\ pc[Supervisor] = "dreaming"
  /\ Goto(Supervisor, "dreamt")
  /\ UNCHANGED <<now, disk, copy, during, latest, early, raced>>

NoDeepDream ==
  /\ pc[Supervisor] = "loaded"
  /\ \/ \E d \in Thresholds : ~InactiveFor(copy[Supervisor].log, d)
     \/ ~CooledDown(copy[Supervisor])
  /\ Goto(Supervisor, "dreamt")
  /\ UNCHANGED <<now, disk, copy, during, latest, early, raced>>

\* (bug) all of the monitor is reloaded.
BugReload == disk

\* The activity log is reloaded from disk, beside what else the copy holds.
Reload == [copy[Supervisor] EXCEPT !.log = disk.log]

MergeLog ==
  /\ pc[Supervisor] = "dreamt"
  /\ copy' = [copy EXCEPT ![Supervisor] = Reload]
  /\ Goto(Supervisor, "merged")
  /\ UNCHANGED <<now, disk, during, latest, early, raced>>

SupervisorSaves ==
  /\ pc[Supervisor] = "merged"
  /\ Save(copy[Supervisor])
  /\ during' = {}
  /\ Forget(Supervisor)
  /\ UNCHANGED <<now, latest, early, raced>>

\* The process ends, or the save fails.
SupervisorStops ==
  /\ Failures /\ pc[Supervisor] # "idle"
  /\ during' = {}
  /\ raced' = (raced \/ disk.last # latest)
  /\ Forget(Supervisor)
  /\ UNCHANGED <<now, disk, latest, early>>

-----------------------------------------------------------------------------
(* nexus soul rebuild *)

Begin(p) ==
  /\ pc[p] = "idle"
  /\ raced' = (raced \/ pc[Supervisor] # "idle")
  /\ Goto(p, "dreaming")
  /\ UNCHANGED <<now, disk, copy, during, latest>>

\* With --force, or when the conditions of a deep dream are met.
RebuildBegins == ShouldDeepDream(disk) /\ BeginDream /\ Begin(Rebuild)
ForcedRebuild == UNCHANGED early /\ Begin(Rebuild)

\* The soul is rebuilt; the monitor is loaded again ...
RebuildLoads ==
  /\ pc[Rebuild] = "dreaming"
  /\ copy' = [copy EXCEPT ![Rebuild] = [disk EXCEPT !.last = now]]
  /\ Record(now)
  /\ Goto(Rebuild, "dreamt")
  /\ UNCHANGED <<now, disk, during, early, raced>>

\* ... and saved.
RebuildSaves ==
  /\ pc[Rebuild] = "dreamt"
  /\ Save(copy[Rebuild])
  /\ Forget(Rebuild)
  /\ UNCHANGED <<now, during, latest, early, raced>>

\* The soul is not rebuilt, or is and the save fails; either way the command ends.
RebuildFails ==
  /\ pc[Rebuild] = "dreaming" \/ (Failures /\ pc[Rebuild] = "dreamt")
  /\ raced' = (raced \/ pc[Rebuild] = "dreamt")
  /\ Forget(Rebuild)
  /\ UNCHANGED <<now, disk, during, latest, early>>

Next ==
  \/ Tick
  \/ \E h \in Hooks : HookLoads(h) \/ HookSaves(h)
  \/ SupervisorLoads \/ DeepDream \/ DeepDreamEnds \/ DeepDreamFails
  \/ NoDeepDream \/ MergeLog \/ SupervisorSaves \/ SupervisorStops
  \/ RebuildBegins \/ ForcedRebuild \/ RebuildLoads \/ RebuildSaves \/ RebuildFails

Spec == Init /\ [][Next]_vars

-----------------------------------------------------------------------------
(* Properties *)

\* supervisor.rs:335, "Reload activity_log from disk first to merge any samples
\* recorded by hooks during the deep-dream run": the log that is about to be
\* saved has those of them that are not too old.
DreamKeepsSamples ==
  pc[Supervisor] = "merged" =>
    {t \in during : t + Retention > now} \subseteq copy[Supervisor].log

\* Whoever dreams by the monitor's leave, the supervisor or the command, does not
\* begin within the cooldown of a dream completed before, although hooks save over
\* its record: the supervisor saves it again after it has merged their samples
\* (supervisor.rs:339).  Excepted is what comes after the command ran during an
\* iteration of the supervisor's, after a hook saved what it had loaded before a
\* dream was completed and nobody was left to save the record again, and after a
\* record was not saved because the process ended or could not save.
CooldownKept == early => raced
=============================================================================
