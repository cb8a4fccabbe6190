------------------------- MODULE CognitionProofs -------------------------
(***************************************************************************)
(* Proofs about Cognition, for every value of its constants: a section for *)
(* each component, with its inductive invariant and what follows from it.  *)
(* Those of distillation are in DistillationProofs; here for both parts.   *)
(***************************************************************************)
EXTENDS Cognition, DistillationProofs

everything == <<part, vars, derivation, reflection, asking, commands>>

-----------------------------------------------------------------------------
(* EnqueueIfAbsent: what a scan has not found is not there later, unless it *)
(* is excused, so nobody inserts a second job.                              *)

\* A step of Cognition is a step of the callers of enqueue_if_absent or leaves them alone.
LEMMA AskStep == [CognitionNext]_everything => [Ask!Next]_asking
<1> SUFFICES ASSUME [CognitionNext]_everything PROVE [Ask!Next]_asking
  OBVIOUS
<1>1. (part = "ask" /\ Ask!Next) \/ UNCHANGED asking
  BY DEF CognitionNext, everything
<1> QED BY <1>1

PendingOf(r)  == {j \in Ask!Jobs : status[j] = "pending" /\ request[j] = r}
Running(r)    == {j \in Ask!Jobs : status[j] = "running" /\ request[j] = r}
Unfinished(r) == PendingOf(r) \cup Running(r)

\* What the caller p, who asks for r, relies on, each scan having found nothing.
ScannedFor(p, r) ==
  /\ scan[p] > 1 => PendingOf(r) = {}
  /\ scan[p] > 2 => Running(r) = {}

OneAtATime(r) ==
  /\ \A p, q \in Producers : want[p] = r /\ want[q] = r => p = q
  /\ \A j, k \in Unfinished(r) : j = k
  /\ \A p \in Producers : want[p] = r => ScannedFor(p, r)

\* The two scans of enqueue_if_absent: the pending jobs first, then the running ones.
LEMMA ScansAre == /\ DOMAIN Ask!Scans = {1, 2}
                  /\ Ask!Scans[1] = "pending" /\ Ask!Scans[2] = "running"
  BY DEF Ask!Scans

AskTyped ==
  /\ Ask!TypeOK
  /\ \A j \in gathered : status[j] = "running"
  /\ \A j \in Ask!Jobs : status[j] # "absent" => request[j] \in Requests

\* Every step of the callers keeps the types of their state.
LEMMA AskTypesKept == AskTyped /\ [Ask!Next]_asking => AskTyped'
<1> SUFFICES ASSUME AskTyped, [Ask!Next]_asking PROVE AskTyped'
  OBVIOUS
<1> USE AskAssumption DEF AskTyped, Ask!TypeOK, Ask!Excuse, Ask!Lose, Ask!history, asking
<1>1. ASSUME NEW p \in Producers, NEW r \in Requests, Ask!Call(p, r)
      PROVE  AskTyped'
  BY <1>1 DEF Ask!Call
<1>2. ASSUME NEW p \in Producers, Ask!Suppress(p)
      PROVE  AskTyped'
  BY <1>2 DEF Ask!Suppress, Ask!Scanning
<1>3. ASSUME NEW p \in Producers, Ask!Scan(p)
      PROVE  AskTyped'
  BY <1>3, ScansAre DEF Ask!Scan, Ask!Scanning
<1>4. ASSUME NEW p \in Producers, Ask!Enqueue(p)
      PROVE  AskTyped'
  BY <1>4 DEF Ask!Enqueue, Ask!With
<1>5. ASSUME NEW p \in Producers, Ask!GiveUp(p)
      PROVE  AskTyped'
  BY <1>5 DEF Ask!GiveUp
<1>6. ASSUME NEW j \in Ask!Jobs, Ask!Start(j)
      PROVE  AskTyped'
  BY <1>6 DEF Ask!Start
<1>7. ASSUME NEW j \in Ask!Jobs, Ask!StartOver(j)
      PROVE  AskTyped'
  BY <1>7 DEF Ask!StartOver
<1>8. ASSUME NEW j \in Ask!Jobs, Ask!Gather(j)
      PROVE  AskTyped'
  BY <1>8 DEF Ask!Gather
<1>9. ASSUME NEW j \in Ask!Jobs, Ask!Complete(j)
      PROVE  AskTyped'
  BY <1>9 DEF Ask!Complete
<1>10. ASSUME NEW j \in Ask!Jobs, Ask!FailForGood(j)
      PROVE  AskTyped'
  BY <1>10 DEF Ask!FailForGood
<1>11. ASSUME NEW j \in Ask!Jobs, Ask!Retry(j)
      PROVE  AskTyped'
  BY <1>11 DEF Ask!Retry
<1>12. CASE UNCHANGED asking
  BY <1>12
<1> QED
  BY <1>1, <1>2, <1>3, <1>4, <1>5, <1>6, <1>7, <1>8, <1>9, <1>10, <1>11, <1>12 DEF Ask!Next

OneJobInv == \A r \in Requests \ excused : OneAtATime(r)

\* Every step of the callers keeps a request either excused or with one job at most.
LEMMA OneJobKept == AskTyped /\ OneJobInv /\ [Ask!Next]_asking => OneJobInv'
<1> SUFFICES ASSUME AskTyped, OneJobInv, [Ask!Next]_asking PROVE OneJobInv'
  OBVIOUS
<1> USE AskAssumption DEF AskTyped, OneJobInv, OneAtATime, ScannedFor, PendingOf, Running,
    Unfinished, Ask!TypeOK, Ask!Excuse, Ask!Lose, Ask!history, asking
<1>1. ASSUME NEW p \in Producers, NEW r \in Requests, Ask!Call(p, r)
      PROVE  OneJobInv'
  BY <1>1 DEF Ask!Call
<1>2. ASSUME NEW p \in Producers, Ask!Suppress(p)
      PROVE  OneJobInv'
  BY <1>2 DEF Ask!Suppress, Ask!Scanning
<1>3. ASSUME NEW p \in Producers, Ask!Scan(p)
      PROVE  OneJobInv'
  BY <1>3, ScansAre DEF Ask!Scan, Ask!Scanning, Ask!Missed, Ask!Wanted, Ask!With
<1>4. ASSUME NEW p \in Producers, Ask!Enqueue(p)
      PROVE  OneJobInv'
  BY <1>4, ScansAre DEF Ask!Enqueue, Ask!With
<1>5. ASSUME NEW p \in Producers, Ask!GiveUp(p)
      PROVE  OneJobInv'
  BY <1>5 DEF Ask!GiveUp
<1>6. ASSUME NEW j \in Ask!Jobs, Ask!Start(j)
      PROVE  OneJobInv'
  BY <1>6 DEF Ask!Start
<1>7. ASSUME NEW j \in Ask!Jobs, Ask!StartOver(j)
      PROVE  OneJobInv'
  BY <1>7 DEF Ask!StartOver
<1>8. ASSUME NEW j \in Ask!Jobs, Ask!Gather(j)
      PROVE  OneJobInv'
  BY <1>8 DEF Ask!Gather
<1>9. ASSUME NEW j \in Ask!Jobs, Ask!Complete(j)
      PROVE  OneJobInv'
  BY <1>9 DEF Ask!Complete
<1>10. ASSUME NEW j \in Ask!Jobs, Ask!FailForGood(j)
      PROVE  OneJobInv'
  BY <1>10 DEF Ask!FailForGood
<1>11. ASSUME NEW j \in Ask!Jobs, Ask!Retry(j)
      PROVE  OneJobInv'
  BY <1>11 DEF Ask!Retry
<1>12. CASE UNCHANGED asking
  BY <1>12
<1> QED
  BY <1>1, <1>2, <1>3, <1>4, <1>5, <1>6, <1>7, <1>8, <1>9, <1>10, <1>11, <1>12 DEF Ask!Next

\* Every step of the callers keeps a refused request's job on record.
LEMMA ForgottenKept ==
  AskTyped /\ Ask!NothingForgotten /\ [Ask!Next]_asking => Ask!NothingForgotten'
<1> SUFFICES ASSUME AskTyped, Ask!NothingForgotten, [Ask!Next]_asking
             PROVE  Ask!NothingForgotten'
  OBVIOUS
<1> USE AskAssumption DEF AskTyped, Ask!NothingForgotten, Ask!TypeOK, Ask!Excuse, Ask!Lose,
    Ask!history, asking
<1>1. ASSUME NEW p \in Producers, NEW r \in Requests, Ask!Call(p, r)
      PROVE  Ask!NothingForgotten'
  BY <1>1 DEF Ask!Call
<1>2. ASSUME NEW p \in Producers, Ask!Suppress(p)
      PROVE  Ask!NothingForgotten'
  <2> DEFINE found == Ask!Wanted(p, Ask!Matching(p))
  <2> SUFFICES ASSUME NEW r \in (unseen \ forsaken)', NEW q \in Producers, want[q] = r,
                      ~ \E o \in Producers : want'[o] = r
               PROVE  \E k \in Ask!Jobs \ gathered :
                        status[k] \in {"pending", "running"} /\ request[k] = r
    BY <1>2 DEF Ask!Suppress
  <2>1. want[p] = r
    BY <1>2 DEF Ask!Suppress
  <2>2. \A k \in Ask!Matching(p) :
          k \in Ask!Jobs /\ status[k] \in {"pending", "running"} /\ request[k] = r
    BY <1>2, <2>1, ScansAre DEF Ask!Suppress, Ask!Scanning, Ask!Matching, Ask!Wanted, Ask!Listed,
       Ask!With
  <2>3. found = Ask!Matching(p)
    BY <2>1, <2>2 DEF Ask!Wanted
  <2>4. ~ (found # {} /\ found \subseteq gathered)
    BY <1>2, <2>1 DEF Ask!Suppress
  <2>5. Ask!Matching(p) # {}
    BY <1>2 DEF Ask!Suppress
  <2> QED BY <2>2, <2>3, <2>4, <2>5
<1>3. ASSUME NEW p \in Producers, Ask!Scan(p)
      PROVE  Ask!NothingForgotten'
  BY <1>3 DEF Ask!Scan, Ask!Scanning
<1>4. ASSUME NEW p \in Producers, Ask!Enqueue(p)
      PROVE  Ask!NothingForgotten'
  BY <1>4 DEF Ask!Enqueue, Ask!With
<1>5. ASSUME NEW p \in Producers, Ask!GiveUp(p)
      PROVE  Ask!NothingForgotten'
  BY <1>5 DEF Ask!GiveUp
<1>6. ASSUME NEW j \in Ask!Jobs, Ask!Start(j)
      PROVE  Ask!NothingForgotten'
  BY <1>6 DEF Ask!Start
<1>7. ASSUME NEW j \in Ask!Jobs, Ask!StartOver(j)
      PROVE  Ask!NothingForgotten'
  BY <1>7 DEF Ask!StartOver
<1>8. ASSUME NEW j \in Ask!Jobs, Ask!Gather(j)
      PROVE  Ask!NothingForgotten'
  BY <1>8 DEF Ask!Gather
<1>9. ASSUME NEW j \in Ask!Jobs, Ask!Complete(j)
      PROVE  Ask!NothingForgotten'
  BY <1>9 DEF Ask!Complete
<1>10. ASSUME NEW j \in Ask!Jobs, Ask!FailForGood(j)
      PROVE  Ask!NothingForgotten'
  BY <1>10 DEF Ask!FailForGood
<1>11. ASSUME NEW j \in Ask!Jobs, Ask!Retry(j)
      PROVE  Ask!NothingForgotten'
  BY <1>11 DEF Ask!Retry
<1>12. CASE UNCHANGED asking
  BY <1>12
<1> QED
  BY <1>1, <1>2, <1>3, <1>4, <1>5, <1>6, <1>7, <1>8, <1>9, <1>10, <1>11, <1>12 DEF Ask!Next

AskInv == AskTyped /\ OneJobInv /\ Ask!NothingForgotten

\* The invariant of enqueue_if_absent holds when no caller has begun.
LEMMA AskInit == Ask!Init => AskInv
  BY AskAssumption DEF Ask!Init, AskInv, AskTyped, OneJobInv, Ask!TypeOK, Ask!NothingForgotten,
     OneAtATime, ScannedFor, PendingOf, Running, Unfinished

\* Every step of Cognition keeps the invariant of enqueue_if_absent.
LEMMA AskNext == AskInv /\ [CognitionNext]_everything => AskInv'
  BY AskStep, AskTypesKept, OneJobKept, ForgottenKept DEF AskInv

\* A set no two of whose elements differ has at most one.
LEMMA NoTwo ==
  ASSUME NEW S, \A a, b \in S : a = b
  PROVE  Cardinality(S) <= 1
<1>1. CASE S = {}
  BY <1>1, FS_EmptySet
<1>2. ASSUME NEW a \in S PROVE Cardinality(S) <= 1
  <2>1. S = {a}
    BY <1>2
  <2> QED BY <2>1, FS_Singleton
<1> QED BY <1>1, <1>2

\* Cardinality means the same in the instance as here.
LEMMA AskCountsAlike == \A S : Ask!Cardinality(S) = Cardinality(S)
<1>1. \A S : Ask!IsFiniteSet(S) = IsFiniteSet(S)
  BY Zenon DEF Ask!IsFiniteSet, IsFiniteSet
<1> QED BY <1>1, Zenon DEF Ask!Cardinality, Cardinality

\* What the invariant says of enqueue_if_absent: types, one job, and nothing forgotten.
LEMMA AskSafe == AskInv => Ask!TypeOK /\ OneUnlessExcused /\ NothingForgotten
<1> SUFFICES ASSUME AskInv PROVE OneUnlessExcused
  BY DEF AskInv, AskTyped, NothingForgotten
<1>1. ASSUME NEW r \in Requests \ excused
      PROVE  Ask!Cardinality({j \in Ask!Jobs : status[j] \in {"pending", "running"}
                                               /\ request[j] = r}) <= 1
  <2> DEFINE S == {j \in Ask!Jobs : status[j] \in {"pending", "running"} /\ request[j] = r}
  <2>1. \A a, b \in S : a = b
    BY DEF AskInv, OneJobInv, OneAtATime, Unfinished, PendingOf, Running
  <2> HIDE DEF S
  <2>2. Cardinality(S) <= 1
    BY <2>1, NoTwo
  <2>3. Ask!Cardinality(S) <= 1
    BY <2>2, AskCountsAlike
  <2> QED BY <2>3 DEF S
<1> QED BY <1>1 DEF OneUnlessExcused, Ask!OneUnlessExcused

\* The variables of enqueue_job_if_absent have their types.
THEOREM AskTypes == CognitionSpec => []Ask!TypeOK
<1>1. CognitionInit => AskInv
  BY AskInit DEF CognitionInit
<1> QED
  BY <1>1, AskNext, AskSafe, PTL DEF CognitionSpec, everything

\* A request has one unfinished job, unless the scans could not see a job of it.
THEOREM OneUnlessExcusedHolds == CognitionSpec => []OneUnlessExcused
<1>1. CognitionInit => AskInv
  BY AskInit DEF CognitionInit
<1> QED
  BY <1>1, AskNext, AskSafe, PTL DEF CognitionSpec, everything

\* What is asked for has a job that has yet to read it, unless that was lost.
THEOREM NothingForgottenHolds == CognitionSpec => []NothingForgotten
<1>1. CognitionInit => AskInv
  BY AskInit DEF CognitionInit
<1> QED
  BY <1>1, AskNext, AskSafe, PTL DEF CognitionSpec, everything

-----------------------------------------------------------------------------
(* Runtime: what a start may write, and what an end has seen and asked for. *)

\* A step of Cognition is a step of the session commands or leaves them alone.
LEMMA RunStep == [CognitionNext]_everything => [Run!Next]_commands
<1> SUFFICES ASSUME [CognitionNext]_everything PROVE [Run!Next]_commands
  OBVIOUS
<1>1. (part = "runtime" /\ Run!Next) \/ UNCHANGED commands
  BY DEF CognitionNext, everything
<1> QED BY <1>1

\* Without a start since the last end that completed, none is about to write.
NoneWrites == ~revived => file = "absent" /\ \A p \in Commands : rPc[p] \notin Run!Writing

\* Every step keeps it that nobody writes the state file unless a start revived the session.
LEMMA NoneWritesKept == Run!TypeOK /\ NoneWrites /\ [Run!Next]_commands => NoneWrites'
<1> SUFFICES ASSUME Run!TypeOK, NoneWrites, [Run!Next]_commands PROVE NoneWrites'
  OBVIOUS
<1> USE DEF NoneWrites, Run!Writing, Run!Step, Run!Goto, Run!Quit, Run!session, Run!dream,
    Run!bounds, commands
<1>1. ASSUME NEW p \in Commands, Run!BeginStart(p)
      PROVE  NoneWrites'
  BY <1>1 DEF Run!BeginStart, Run!Begin
<1>2. ASSUME NEW p \in Commands, Run!BeginEnd(p)
      PROVE  NoneWrites'
  <2>1. Run!Begin(p, "record") \/ Run!Begin(p, "mark")
    BY <1>2 DEF Run!BeginEnd
  <2>2. file' = file /\ revived' = revived
    BY <1>2 DEF Run!BeginEnd, Run!Begin
  <2>3. \A q \in Commands : rPc'[q] \in Run!Writing => rPc[q] \in Run!Writing
    BY <2>1 DEF Run!Begin, Run!TypeOK
  <2> QED BY <2>2, <2>3
<1>3. ASSUME NEW p \in Commands, Run!ReadState(p)
      PROVE  NoneWrites'
  BY <1>3 DEF Run!ReadState
<1>4. ASSUME NEW p \in Commands, Run!Truncate(p)
      PROVE  NoneWrites'
  BY <1>4 DEF Run!Truncate
<1>5. ASSUME NEW p \in Commands, Run!WriteState(p)
      PROVE  NoneWrites'
  BY <1>5 DEF Run!WriteState
<1>6. ASSUME NEW p \in Commands, Run!StartDrain(p)
      PROVE  NoneWrites'
  BY <1>6 DEF Run!StartDrain
<1>7. ASSUME NEW p \in Commands, Run!Record(p)
      PROVE  NoneWrites'
  BY <1>7 DEF Run!Record
<1>8. ASSUME NEW p \in Commands, Run!Mark(p)
      PROVE  NoneWrites'
  BY <1>8 DEF Run!Mark
<1>9. ASSUME NEW p \in Commands, Run!Drain(p)
      PROVE  NoneWrites'
  BY <1>9 DEF Run!Drain
<1>10. ASSUME NEW p \in Commands, Run!ListMemories(p)
      PROVE  NoneWrites'
  BY <1>10 DEF Run!ListMemories
<1>11. ASSUME NEW p \in Commands, Run!CountDigests(p)
      PROVE  NoneWrites'
  <2>1. Run!FirstPoint(plan'[p]) \notin Run!Writing
    BY DEF Run!FirstPoint
  <2> HIDE DEF Run!Writing
  <2> QED BY <1>11, <2>1 DEF Run!CountDigests
<1>12. ASSUME NEW p \in Commands, Run!EnqueueReflect(p)
      PROVE  NoneWrites'
  BY <1>12 DEF Run!EnqueueReflect, Run!Ask
<1>13. ASSUME NEW p \in Commands, Run!EnqueueDigest(p)
      PROVE  NoneWrites'
  BY <1>13 DEF Run!EnqueueDigest, Run!Ask
<1>14. ASSUME NEW p \in Commands, Run!Finalize(p)
      PROVE  NoneWrites'
  BY <1>14 DEF Run!Finalize
<1>15. ASSUME NEW p \in Commands, Run!RemoveState(p)
      PROVE  NoneWrites'
  BY <1>15 DEF Run!RemoveState
<1>16. ASSUME NEW p \in Commands, Run!DreamCut(p)
      PROVE  NoneWrites'
  BY <1>16 DEF Run!DreamCut
<1>17. ASSUME NEW p \in Commands, Run!Leave(p)
      PROVE  NoneWrites'
  BY <1>17 DEF Run!Leave
<1>18. ASSUME NEW c \in Learned, Run!Learn(c)
      PROVE  NoneWrites'
  BY <1>18 DEF Run!Learn
<1>19. ASSUME NEW k \in Run!Kind, Run!Work(k)
      PROVE  NoneWrites'
  BY <1>19 DEF Run!Work
<1>20. ASSUME Run!Distill
      PROVE  NoneWrites'
  BY <1>20 DEF Run!Distill
<1>21. CASE UNCHANGED commands
  BY <1>21
<1> QED
  BY <1>1, <1>2, <1>3, <1>4, <1>5, <1>6, <1>7, <1>8, <1>9, <1>10,
     <1>11, <1>12, <1>13, <1>14, <1>15, <1>16, <1>17, <1>18, <1>19, <1>20, <1>21 DEF Run!Next, Run!Proceed

\* An end on its way from its marker to the plan: an observation is in memory.
EndPlans(p) ==
  /\ rPc[p] \in {"drain", "list"} => sessionMemories["observed"] > 0
  /\ rPc[p] = "count" => signals[p]["observed"] > 0

Contradicted(p) == Run!Contradictions(signals[p]) > 0 /\ reason[p] # "Manual"

\* An end with a plan, which is to skip nothing: the jobs that it has asked for.
EndAsks(p) ==
  /\ rPc[p] \in {"reflect", "digest", "finalize"} => plan[p] # "Skip"
  /\ rPc[p] \in {"digest", "finalize"} => (Contradicted(p) => "reflect" \in asked[p])
  /\ rPc[p] = "finalize" => "digest" \in asked[p]
  /\ rPc[p] = "remove" /\ p \notin warned =>
       /\ "digest" \in asked[p]
       /\ Contradicted(p) => "reflect" \in asked[p]

HasReason(p) == rPc[p] \in Run!EndPoint => reason[p] \in Reasons

EndsFollow == \A p \in Commands : HasReason(p) /\ EndPlans(p) /\ EndAsks(p)

RunInv == Run!TypeOK /\ NoneWrites /\ EndsFollow

\* choose_dream_schedule skips no session in which something was observed, and
\* leaves the reflect job out of none that was contradicted, manual ends aside.
LEMMA ScheduleFollows ==
  ASSUME NEW s \in [Run!Class -> Nat], s["observed"] > 0, NEW gap \in BOOLEAN, NEW r \in Reasons
  PROVE  /\ Run!DreamSchedule(s, gap, r) \in Run!Plan \ {"Skip"}
         /\ Run!Contradictions(s) > 0 /\ r # "Manual" => Run!DreamSchedule(s, gap, r) # "DigestOnly"
<1>1. s["contested"] \in Nat /\ s["contradiction"] \in Nat /\ s["other"] \in Nat /\ s["raw"] \in Nat
      /\ s["observed"] \in Nat
  BY DEF Run!Class
<1>2. Run!Observed(s) > 0 /\ Run!NonRaw(s) + s["raw"] # 0
  BY <1>1 DEF Run!Observed, Run!NonRaw
<1>3. r \in {"SessionEnded", "IdleTimeout", "Manual"}
  BY RunAssumption
<1>4. CASE r = "SessionEnded"
  BY <1>2, <1>4 DEF Run!DreamSchedule, Run!Plan
<1>5. CASE r = "IdleTimeout"
  <2>1. Run!DreamSchedule(s, gap, r) \in {"ImmediateBounded", "DelayedEnqueue", "DigestOnly"}
    BY <1>2, <1>5 DEF Run!DreamSchedule
  <2>2. Run!Contradictions(s) > 0 => Run!DreamSchedule(s, gap, r) # "DigestOnly"
    BY <1>2, <1>5 DEF Run!DreamSchedule
  <2> QED BY <2>1, <2>2 DEF Run!Plan
<1>6. CASE r = "Manual"
  BY <1>2, <1>6 DEF Run!DreamSchedule, Run!Plan
<1> QED
  BY <1>3, <1>4, <1>5, <1>6

\* Settling jobs leaves the open jobs and the digest within their types.
LEMMA SettleTyped ==
  ASSUME Run!TypeOK, NEW kinds \in SUBSET open, Run!Settle(kinds)
  PROVE  open' \subseteq Run!Kind /\ digested' \in BOOLEAN
<1>1. digested' \in {digested, TRUE} \/ digested' \in {digested}
  BY DEF Run!Settle
<1>2. digested' \in BOOLEAN
  BY <1>1, Zenon DEF Run!TypeOK
<1> QED BY <1>2 DEF Run!Settle, Run!TypeOK

\* Storing a memory leaves the session's memories counted by class.
LEMMA StoreTyped ==
  ASSUME Run!TypeOK, NEW c \in Run!Class, Run!Store(c)
  PROVE  sessionMemories' \in [Run!Class -> Nat]
  BY DEF Run!Store, Run!TypeOK

\* A command that returns leaves what it had read, planned and asked for within its types.
LEMMA QuitTyped ==
  ASSUME Run!TypeOK, NEW p \in Commands, Run!Quit(p)
  PROVE  /\ rPc'     \in [Commands -> {"idle"} \cup Run!StartPoint \cup Run!EndPoint]
         /\ reason'  \in [Commands -> Reasons \cup {None}]
         /\ signals' \in [Commands -> [Run!Class -> Nat]]
         /\ plan'    \in [Commands -> Run!Plan]
         /\ asked'   \in [Commands -> SUBSET Run!Kind]
         /\ warned' \subseteq Commands
<1>1. Run!Nothing \in [Run!Class -> Nat]
  BY DEF Run!Nothing
<1> QED
  BY <1>1 DEF Run!Quit, Run!Goto, Run!TypeOK, Run!Plan

\* Every step of the commands keeps the types of their state.
LEMMA RunTypesKept == Run!TypeOK /\ [Run!Next]_commands => Run!TypeOK'
<1> SUFFICES ASSUME Run!TypeOK, [Run!Next]_commands PROVE Run!TypeOK'
  OBVIOUS
<1> USE RunAssumption DEF Run!TypeOK, Run!Step, Run!Goto, Run!session, Run!dream,
    Run!bounds, Run!Class, Run!StartPoint, Run!EndPoint, Run!Writing, commands
<1>1. ASSUME NEW p \in Commands, Run!BeginStart(p)
      PROVE  Run!TypeOK'
  BY <1>1 DEF Run!BeginStart, Run!Begin
<1>2. ASSUME NEW p \in Commands, Run!BeginEnd(p)
      PROVE  Run!TypeOK'
  <2>1. CASE Run!Begin(p, "record") /\ reason' = [reason EXCEPT ![p] = "SessionEnded"]
    BY <1>2, <2>1 DEF Run!BeginEnd, Run!Begin
  <2>2. ASSUME NEW r \in Reasons, Run!Begin(p, "mark"), reason' = [reason EXCEPT ![p] = r]
        PROVE  Run!TypeOK'
    BY <1>2, <2>2 DEF Run!BeginEnd, Run!Begin
  <2> QED BY <1>2, <2>1, <2>2 DEF Run!BeginEnd
<1>3. ASSUME NEW p \in Commands, Run!ReadState(p)
      PROVE  Run!TypeOK'
  BY <1>3 DEF Run!ReadState
<1>4. ASSUME NEW p \in Commands, Run!Truncate(p)
      PROVE  Run!TypeOK'
  BY <1>4 DEF Run!Truncate
<1>5. ASSUME NEW p \in Commands, Run!WriteState(p)
      PROVE  Run!TypeOK'
  BY <1>5 DEF Run!WriteState
<1>6. ASSUME NEW p \in Commands, Run!StartDrain(p)
      PROVE  Run!TypeOK'
  BY <1>6, SettleTyped, StoreTyped DEF Run!StartDrain
<1>7. ASSUME NEW p \in Commands, Run!Record(p)
      PROVE  Run!TypeOK'
  BY <1>7, StoreTyped DEF Run!Record
<1>8. ASSUME NEW p \in Commands, Run!Mark(p)
      PROVE  Run!TypeOK'
  BY <1>8, StoreTyped DEF Run!Mark
<1>9. ASSUME NEW p \in Commands, Run!Drain(p)
      PROVE  Run!TypeOK'
  BY <1>9, SettleTyped DEF Run!Drain
<1>10. ASSUME NEW p \in Commands, Run!ListMemories(p)
      PROVE  Run!TypeOK'
  BY <1>10 DEF Run!ListMemories
<1>11. ASSUME NEW p \in Commands, Run!CountDigests(p)
      PROVE  Run!TypeOK'
  <2>1. Run!DreamSchedule(signals[p], ~digested, reason[p]) \in Run!Plan
    BY DEF Run!DreamSchedule, Run!Plan
  <2>2. Run!FirstPoint(plan'[p]) \in Run!EndPoint
    BY DEF Run!FirstPoint
  <2> QED BY <1>11, <2>1, <2>2 DEF Run!CountDigests
<1>12. ASSUME NEW p \in Commands, Run!EnqueueReflect(p)
      PROVE  Run!TypeOK'
  BY <1>12 DEF Run!EnqueueReflect, Run!Ask, Run!Kind
<1>13. ASSUME NEW p \in Commands, Run!EnqueueDigest(p)
      PROVE  Run!TypeOK'
  BY <1>13 DEF Run!EnqueueDigest, Run!Ask, Run!Kind
<1>14. ASSUME NEW p \in Commands, Run!Finalize(p)
      PROVE  Run!TypeOK'
  BY <1>14, SettleTyped DEF Run!Finalize
<1>15. ASSUME NEW p \in Commands, Run!RemoveState(p)
      PROVE  Run!TypeOK'
  BY <1>15, QuitTyped DEF Run!RemoveState
<1>16. ASSUME NEW p \in Commands, Run!DreamCut(p)
      PROVE  Run!TypeOK'
  BY <1>16 DEF Run!DreamCut
<1>17. ASSUME NEW p \in Commands, Run!Leave(p)
      PROVE  Run!TypeOK'
  BY <1>17, QuitTyped DEF Run!Leave
<1>18. ASSUME NEW c \in Learned, Run!Learn(c)
      PROVE  Run!TypeOK'
  BY <1>18, StoreTyped DEF Run!Learn
<1>19. ASSUME NEW k \in Run!Kind, Run!Work(k)
      PROVE  Run!TypeOK'
  BY <1>19, SettleTyped DEF Run!Work
<1>20. ASSUME Run!Distill
      PROVE  Run!TypeOK'
  BY <1>20 DEF Run!Distill
<1>21. CASE UNCHANGED commands
  BY <1>21
<1> QED
  BY <1>1, <1>2, <1>3, <1>4, <1>5, <1>6, <1>7, <1>8, <1>9, <1>10,
     <1>11, <1>12, <1>13, <1>14, <1>15, <1>16, <1>17, <1>18, <1>19, <1>20, <1>21 DEF Run!Next, Run!Proceed

\* Every step of the commands keeps what a session end has seen, planned and asked for.
LEMMA EndsFollowKept == Run!TypeOK /\ EndsFollow /\ [Run!Next]_commands => EndsFollow'
<1> SUFFICES ASSUME Run!TypeOK, EndsFollow, [Run!Next]_commands PROVE EndsFollow'
  OBVIOUS
<1> USE RunAssumption DEF Run!TypeOK, Run!Step, Run!Goto, Run!session, Run!dream,
    Run!bounds, commands, Run!EndPoint, EndsFollow, HasReason, EndPlans, EndAsks, Contradicted
<1>1. ASSUME NEW p \in Commands, Run!BeginStart(p)
      PROVE  EndsFollow'
  BY <1>1 DEF Run!BeginStart, Run!Begin
<1>2. ASSUME NEW p \in Commands, Run!BeginEnd(p)
      PROVE  EndsFollow'
  BY <1>2 DEF Run!BeginEnd, Run!Begin
<1>3. ASSUME NEW p \in Commands, Run!ReadState(p)
      PROVE  EndsFollow'
  BY <1>3 DEF Run!ReadState
<1>4. ASSUME NEW p \in Commands, Run!Truncate(p)
      PROVE  EndsFollow'
  BY <1>4 DEF Run!Truncate
<1>5. ASSUME NEW p \in Commands, Run!WriteState(p)
      PROVE  EndsFollow'
  BY <1>5 DEF Run!WriteState
<1>6. ASSUME NEW p \in Commands, Run!StartDrain(p)
      PROVE  EndsFollow'
  BY <1>6 DEF Run!StartDrain, Run!Store, Run!Class
<1>7. ASSUME NEW p \in Commands, Run!Record(p)
      PROVE  EndsFollow'
  BY <1>7 DEF Run!Record, Run!Store, Run!Class
<1>8. ASSUME NEW p \in Commands, Run!Mark(p)
      PROVE  EndsFollow'
  BY <1>8 DEF Run!Mark, Run!Store, Run!Class
<1>9. ASSUME NEW p \in Commands, Run!Drain(p)
      PROVE  EndsFollow'
  BY <1>9 DEF Run!Drain
<1>10. ASSUME NEW p \in Commands, Run!ListMemories(p)
      PROVE  EndsFollow'
  BY <1>10 DEF Run!ListMemories
<1>11. ASSUME NEW p \in Commands, Run!CountDigests(p)
      PROVE  EndsFollow'
  <2> DEFINE chosen == Run!DreamSchedule(signals[p], ~digested, reason[p])
  <2>1. rPc[p] = "count" /\ reason' = reason /\ signals' = signals /\ asked' = asked
        /\ warned' = warned /\ sessionMemories' = sessionMemories
        /\ plan' = [plan EXCEPT ![p] = chosen] /\ rPc' = [rPc EXCEPT ![p] = Run!FirstPoint(chosen)]
    BY <1>11 DEF Run!CountDigests
  <2>2. reason[p] \in Reasons
    BY <2>1 DEF HasReason
  <2>3. chosen \in Run!Plan \ {"Skip"} /\ (Contradicted(p) => chosen # "DigestOnly")
    BY <2>1, <2>2, ScheduleFollows
  <2>4. Run!FirstPoint(chosen) \in {"reflect", "digest"}
        /\ (Contradicted(p) => Run!FirstPoint(chosen) = "reflect")
    BY <2>3 DEF Run!FirstPoint, Run!Plan
  <2> HIDE DEF chosen
  <2> QED BY <2>1, <2>3, <2>4
<1>12. ASSUME NEW p \in Commands, Run!EnqueueReflect(p)
      PROVE  EndsFollow'
  BY <1>12 DEF Run!EnqueueReflect, Run!Ask, Run!Kind
<1>13. ASSUME NEW p \in Commands, Run!EnqueueDigest(p)
      PROVE  EndsFollow'
  BY <1>13 DEF Run!EnqueueDigest, Run!Ask, Run!Kind
<1>14. ASSUME NEW p \in Commands, Run!Finalize(p)
      PROVE  EndsFollow'
  BY <1>14 DEF Run!Finalize
<1>15. ASSUME NEW p \in Commands, Run!RemoveState(p)
      PROVE  EndsFollow'
  BY <1>15 DEF Run!RemoveState, Run!Quit
<1>16. ASSUME NEW p \in Commands, Run!DreamCut(p)
      PROVE  EndsFollow'
  BY <1>16 DEF Run!DreamCut
<1>17. ASSUME NEW p \in Commands, Run!Leave(p)
      PROVE  EndsFollow'
  BY <1>17 DEF Run!Leave, Run!Quit
<1>18. ASSUME NEW c \in Learned, Run!Learn(c)
      PROVE  EndsFollow'
  BY <1>18 DEF Run!Learn, Run!Store, Run!Class
<1>19. ASSUME NEW k \in Run!Kind, Run!Work(k)
      PROVE  EndsFollow'
  BY <1>19 DEF Run!Work
<1>20. ASSUME Run!Distill
      PROVE  EndsFollow'
  BY <1>20 DEF Run!Distill, Run!Class
<1>21. CASE UNCHANGED commands
  BY <1>21
<1> QED
  BY <1>1, <1>2, <1>3, <1>4, <1>5, <1>6, <1>7, <1>8, <1>9, <1>10,
     <1>11, <1>12, <1>13, <1>14, <1>15, <1>16, <1>17, <1>18, <1>19, <1>20, <1>21 DEF Run!Next, Run!Proceed

\* The invariant of the commands holds before any of them has begun.
LEMMA RunInit == Run!Init => RunInv
<1> SUFFICES ASSUME Run!Init PROVE RunInv
  OBVIOUS
<1>1. Run!Nothing \in [Run!Class -> Nat] /\ sessionMemories \in [Run!Class -> Nat]
  BY RunAssumption DEF Run!Init, Run!Nothing
<1>2. signals \in [Commands -> [Run!Class -> Nat]] /\ plan \in [Commands -> Run!Plan]
      /\ asked \in [Commands -> SUBSET Run!Kind] /\ reason \in [Commands -> Reasons \cup {None}]
  BY <1>1 DEF Run!Init, Run!Plan
<1>3. begun \in 0 .. MaxCommands /\ learned \in 0 .. MaxLearned /\ errors \in 0 .. MaxErrors
  BY RunAssumption DEF Run!Init
<1>4. Run!TypeOK
  BY <1>1, <1>2, <1>3 DEF Run!Init, Run!TypeOK
<1> QED
  BY <1>4 DEF Run!Init, RunInv, NoneWrites, EndsFollow, HasReason, EndPlans, EndAsks,
              Run!EndPoint

\* Every step of Cognition keeps the invariant of the commands.
LEMMA RunNext == RunInv /\ [CognitionNext]_everything => RunInv'
  BY RunStep, RunTypesKept, NoneWritesKept, EndsFollowKept DEF RunInv

\* The variables of the runtime and of the commands have their types.
THEOREM RunTypes == CognitionSpec => []Run!TypeOK
<1>1. CognitionInit => RunInv
  BY RunInit DEF CognitionInit
<1>2. RunInv => Run!TypeOK
  BY DEF RunInv
<1> QED
  BY <1>1, <1>2, RunNext, PTL DEF CognitionSpec, everything

\* Every end that removes the state has seen to it that a digest follows, and
\* reflection on the contradictions it saw.
THEOREM EndIsFollowedHolds == CognitionSpec => []EndIsFollowed
<1>1. CognitionInit => RunInv
  BY RunInit DEF CognitionInit
<1>2. RunInv => EndIsFollowed
  BY DEF RunInv, EndsFollow, EndAsks, Contradicted, EndIsFollowed, Run!EndIsFollowed
<1> QED
  BY <1>1, <1>2, RunNext, PTL DEF CognitionSpec, everything

\* After an end has completed only a start brings the state file back.
THEOREM EndClearsHolds == CognitionSpec => []EndClears
<1>1. CognitionInit => RunInv
  BY RunInit DEF CognitionInit
<1>2. RunInv => EndClears
  BY DEF RunInv, NoneWrites, EndClears, Run!EndClears
<1> QED
  BY <1>1, <1>2, RunNext, PTL DEF CognitionSpec, everything

-----------------------------------------------------------------------------
(* Derivation: a worker and its lease, and which run the observations are of. *)

\* A step of Cognition is a step of the derive workers or leaves them alone.
LEMMA DeriveStep == [CognitionNext]_everything => [Derive!Next]_derivation
<1> SUFFICES ASSUME [CognitionNext]_everything PROVE [Derive!Next]_derivation
  OBVIOUS
<1>1. (part = "derive" /\ Derive!Next) \/ UNCHANGED derivation
  BY DEF CognitionNext, everything
<1> QED BY <1>1

WorkersTyped == Derive!W!TypeOK(Derive!Point)
Batched == \A w \in Workers : dPc[w] = "idle" <=> dBatch[w] = {}

\* A job in a worker's batch is leased to that worker, unless its lease lapsed
\* while it was.
Leased ==
  \A w \in Workers : \A m \in dBatch[w] \ outlasted : dHolder[m] = w /\ dPhase[m] = "leased"

LeaseInv == WorkersTyped /\ Batched /\ Leased

\* A worker with a batch is at a source of that batch.
LEMMA FirstOfBatch ==
  ASSUME WorkersTyped, NEW w \in Workers, dBatch[w] # {}
  PROVE  Derive!Source(w) \in dBatch[w]
<1>1. \E j \in dBatch[w] : \A k \in dBatch[w] : j <= k
  BY LeastNat, DeriveAssumption DEF WorkersTyped, Derive!W!TypeOK
<1> QED
  BY <1>1 DEF Derive!Source, Derive!W!First

\* A worker that goes on within its job keeps the leases in order.
LEMMA LeaseStepKept ==
  ASSUME LeaseInv, NEW w \in Workers, NEW from, NEW to \in Derive!Point,
         Derive!W!Step(w, from, to), "idle" \notin from, UNCHANGED outlasted
  PROVE  LeaseInv'
<1>1. to # "idle"
  BY DEF Derive!Point
<1> QED
  BY <1>1 DEF LeaseInv, WorkersTyped, Batched, Leased, Derive!W!TypeOK, Derive!W!Step,
     Derive!W!Goto

\* A worker that leaves its batch keeps the leases in order.
LEMMA LeaseLeaveKept ==
  ASSUME LeaseInv, NEW w \in Workers, Derive!W!Leave(w), UNCHANGED outlasted
  PROVE  LeaseInv'
<1>1. WorkersTyped'
  BY DEF LeaseInv, WorkersTyped, Derive!W!TypeOK, Derive!W!Leave, Derive!W!Goto,
         Derive!W!Queue!Lose, Derive!W!Queue!Give
<1>2. Batched'
  BY DEF LeaseInv, WorkersTyped, Batched, Derive!W!TypeOK, Derive!W!Leave, Derive!W!Goto
<1>3. Leased'
  <2> SUFFICES ASSUME NEW v \in Workers, NEW m \in dBatch'[v] \ outlasted'
               PROVE  dHolder'[m] = v /\ dPhase'[m] = "leased"
    BY DEF Leased
  <2>1. v # w /\ m \in dBatch[v] /\ m \in Sources
    BY DEF LeaseInv, WorkersTyped, Derive!W!TypeOK, Derive!W!Leave
  <2>2. dHolder[m] = v /\ dPhase[m] = "leased"
    BY <2>1 DEF LeaseInv, Leased
  <2> QED
    BY <2>1, <2>2 DEF Derive!W!Leave, Derive!W!Queue!Lose, Derive!W!Queue!Give
<1> QED BY <1>1, <1>2, <1>3 DEF LeaseInv

\* A claim of free derive jobs keeps the leases in order.
LEMMA LeaseClaimKept ==
  ASSUME LeaseInv, NEW w \in Workers, Derive!W!Claim(w, "look"), UNCHANGED outlasted
  PROVE  LeaseInv'
<1>1. PICK S \in SUBSET Derive!W!Ready :
        /\ S # {} /\ Derive!W!Queue!Grant(w, S)
        /\ dBatch' = [dBatch EXCEPT ![w] = S] /\ dPc' = [dPc EXCEPT ![w] = "look"]
  BY DEF Derive!W!Claim, Derive!W!Goto
<1>2. S \subseteq Sources
  BY DEF Derive!W!Ready
<1>3. WorkersTyped' /\ Batched'
  BY <1>1, <1>2 DEF LeaseInv, WorkersTyped, Batched, Derive!W!TypeOK, Derive!Point,
     Derive!W!Queue!Grant, Derive!W!Queue!Move, Derive!W!Queue!Give, Derive!W!Queue!Phase
<1>4. Leased'
  <2> SUFFICES ASSUME NEW v \in Workers, NEW m \in dBatch'[v] \ outlasted'
               PROVE  dHolder'[m] = v /\ dPhase'[m] = "leased"
    BY DEF Leased
  <2>1. m \in Sources
    BY <1>3 DEF WorkersTyped, Derive!W!TypeOK
  <2>2. CASE v = w
    BY <1>1, <2>1, <2>2 DEF LeaseInv, WorkersTyped, Derive!W!TypeOK, Derive!W!Queue!Grant,
       Derive!W!Queue!Move, Derive!W!Queue!Give
  <2>3. CASE v # w
    <3>1. m \in dBatch[v] \ outlasted
      BY <1>1, <2>3 DEF LeaseInv, WorkersTyped, Derive!W!TypeOK
    <3>2. dHolder[m] = v /\ dPhase[m] = "leased"
      BY <3>1 DEF LeaseInv, Leased
    <3>3. m \notin S
      BY <3>2 DEF Derive!W!Ready
    <3> QED BY <1>1, <2>1, <3>2, <3>3 DEF Derive!W!Queue!Grant, Derive!W!Queue!Move,
               Derive!W!Queue!Give
  <2> QED BY <2>2, <2>3
<1> QED BY <1>3, <1>4 DEF LeaseInv

\* A worker that completes or fails its job keeps the leases in order.
LEMMA LeaseSettleKept ==
  ASSUME LeaseInv, NEW w \in Workers, Derive!SettleJob(w)
  PROVE  LeaseInv'
<1> DEFINE first == Derive!Source(w)
<1>1. PICK p \in {"open", "dead", "done"} : Derive!W!Queue!Settle(w, first, p)
  BY DEF Derive!SettleJob, Derive!W!Settle, Derive!Outcome, Derive!Source
<1>2. dPc[w] \in {"done", "failed"}
  BY DEF Derive!SettleJob, Derive!W!Settle, Derive!Outcome
<1>3. first \in dBatch[w] /\ first \in Sources
  BY <1>2, FirstOfBatch DEF LeaseInv, Batched, WorkersTyped, Derive!W!TypeOK
<1>4. /\ dBatch' = [dBatch EXCEPT ![w] = @ \ {first}]
      /\ dPc' = [dPc EXCEPT ![w] = IF dBatch[w] = {first} THEN "idle" ELSE "look"]
      /\ outlasted' = outlasted
  BY DEF Derive!SettleJob, Derive!W!Settle, Derive!W!Goto, Derive!Source, Derive!past
<1> HIDE DEF first
<1>5. WorkersTyped'
  BY <1>1, <1>3, <1>4 DEF LeaseInv, WorkersTyped, Derive!W!TypeOK, Derive!Point,
     Derive!W!Queue!Settle, Derive!W!Queue!Move, Derive!W!Queue!Give, Derive!W!Queue!Phase
<1>6. Batched'
  BY <1>3, <1>4 DEF LeaseInv, Batched, WorkersTyped, Derive!W!TypeOK
<1>7. Leased'
  <2> SUFFICES ASSUME NEW v \in Workers, NEW m \in dBatch'[v] \ outlasted'
               PROVE  dHolder'[m] = v /\ dPhase'[m] = "leased"
    BY DEF Leased
  <2>1. m \in dBatch[v] \ outlasted /\ m \in Sources /\ (v = w => m # first)
    BY <1>4 DEF LeaseInv, WorkersTyped, Derive!W!TypeOK
  <2>2. dHolder[m] = v /\ dPhase[m] = "leased"
    BY <2>1 DEF LeaseInv, Leased
  <2>3. m # first
    BY <1>1, <2>1, <2>2 DEF Derive!W!Queue!Settle
  <2> QED BY <1>1, <2>1, <2>2, <2>3 DEF Derive!W!Queue!Settle, Derive!W!Queue!Move,
             Derive!W!Queue!Give
<1> QED BY <1>5, <1>6, <1>7 DEF LeaseInv

\* A lapse of leases keeps them in order, and marks the sources outlasted.
LEMMA LeaseLapseKept ==
  ASSUME LeaseInv, Derive!LapseLeases
  PROVE  LeaseInv'
<1>1. PICK S \in SUBSET Sources :
        Derive!W!Lapse(S) /\ outlasted' = outlasted \cup {m \in S : dHolder[m] # Nobody}
  BY DEF Derive!LapseLeases
<1>2. WorkersTyped' /\ Batched'
  BY <1>1 DEF LeaseInv, WorkersTyped, Batched, Derive!W!TypeOK, Derive!W!Lapse,
     Derive!W!Queue!Lapse, Derive!W!Queue!Move, Derive!W!Queue!Phase
<1>3. Leased'
  <2> SUFFICES ASSUME NEW v \in Workers, NEW m \in dBatch'[v] \ outlasted'
               PROVE  dHolder'[m] = v /\ dPhase'[m] = "leased"
    BY DEF Leased
  <2>1. m \in dBatch[v] \ outlasted /\ m \in Sources
    BY <1>1 DEF LeaseInv, WorkersTyped, Derive!W!TypeOK, Derive!W!Lapse
  <2>2. dHolder[m] = v /\ dPhase[m] = "leased"
    BY <2>1 DEF LeaseInv, Leased
  <2>3. m \notin S
    BY <1>1, <2>2, DistillAssumption
  <2> QED BY <1>1, <2>1, <2>2, <2>3 DEF Derive!W!Lapse, Derive!W!Queue!Lapse,
             Derive!W!Queue!Move
<1> QED BY <1>2, <1>3 DEF LeaseInv

\* A new derive job keeps the leases in order.
LEMMA LeaseSubmitKept ==
  ASSUME LeaseInv, NEW m \in Sources, Derive!W!Submit(m), UNCHANGED outlasted
  PROVE  LeaseInv'
  BY DEF LeaseInv, WorkersTyped, Batched, Leased, Derive!W!TypeOK, Derive!W!Submit,
     Derive!W!Queue!Submit, Derive!W!Queue!Move, Derive!W!Queue!Phase

\* Every step of the derive workers keeps the leases in order.
LEMMA LeasesKept == LeaseInv /\ [Derive!Next]_derivation => LeaseInv'
<1> SUFFICES ASSUME LeaseInv, [Derive!Next]_derivation PROVE LeaseInv'
  OBVIOUS
<1> USE DEF Derive!past, Derive!Point
<1>1. ASSUME NEW m \in Sources, Derive!SubmitDerive(m)
      PROVE  LeaseInv'
  BY <1>1, LeaseSubmitKept DEF Derive!SubmitDerive
<1>2. ASSUME NEW w \in Workers, Derive!ClaimDeriveJobs(w)
      PROVE  LeaseInv'
  BY <1>2, LeaseClaimKept DEF Derive!ClaimDeriveJobs
<1>3. ASSUME NEW w \in Workers, Derive!SkipSource(w)
      PROVE  LeaseInv'
  BY <1>3, LeaseStepKept DEF Derive!SkipSource
<1>4. ASSUME NEW w \in Workers, Derive!ReuseExisting(w)
      PROVE  LeaseInv'
  BY <1>4, LeaseStepKept DEF Derive!ReuseExisting
<1>5. ASSUME NEW w \in Workers, Derive!StoreObservation(w)
      PROVE  LeaseInv'
  BY <1>5, LeaseStepKept DEF Derive!StoreObservation
<1>6. ASSUME NEW w \in Workers, Derive!EnqueueReflect(w)
      PROVE  LeaseInv'
  BY <1>6, LeaseStepKept DEF Derive!EnqueueReflect, Derive!AfterReflect
<1>7. ASSUME NEW w \in Workers, Derive!EnqueueDigest(w)
      PROVE  LeaseInv'
  BY <1>7, LeaseStepKept DEF Derive!EnqueueDigest
<1>8. ASSUME NEW w \in Workers, Derive!DeriveFails(w)
      PROVE  LeaseInv'
  BY <1>8, LeaseStepKept DEF Derive!DeriveFails
<1>9. ASSUME NEW w \in Workers, Derive!SettleJob(w)
      PROVE  LeaseInv'
  BY <1>9, LeaseSettleKept
<1>10. ASSUME NEW w \in Workers, Derive!LostLease(w)
      PROVE  LeaseInv'
  BY <1>10, LeaseLeaveKept DEF Derive!LostLease, Derive!W!LostLease
<1>11. ASSUME NEW w \in Workers, Derive!Abort(w)
      PROVE  LeaseInv'
  BY <1>11, LeaseLeaveKept DEF Derive!Abort
<1>12. ASSUME NEW w \in Workers, NEW n \in 0 .. MaxObs, Derive!Derive(w, n)
      PROVE  LeaseInv'
  BY <1>12, LeaseStepKept DEF Derive!Derive
<1>13. ASSUME Derive!LapseLeases
      PROVE  LeaseInv'
  BY <1>13, LeaseLapseKept
<1>14. CASE UNCHANGED derivation
  BY <1>14 DEF LeaseInv, WorkersTyped, Batched, Leased, Derive!W!TypeOK, derivation
<1> QED
  BY <1>1, <1>2, <1>3, <1>4, <1>5, <1>6, <1>7, <1>8, <1>9, <1>10, <1>11, <1>12, <1>13, <1>14
     DEF Derive!Next

\* A worker that stores has a run, and an observation left to store.
Storing ==
  \A w \in Workers : dPc[w] = "store" => run[w] \in 1 .. MaxRuns /\ planned[w] \in 1 .. MaxObs

DeriveTyped == Derive!TypeOK /\ Storing

\* While a worker within its lease stores, only its own run has stored.
OneRun ==
  /\ \A w \in Workers : dPc[w] = "store" /\ Derive!Source(w) \notin outlasted =>
       \A o \in observations[Derive!Source(w)] : o[1] = run[w]
  /\ Derive!DerivedOnce

\* Who began to store has both follow-ups ahead of it, or has enqueued them.
Follows ==
  /\ \A m \in Sources \ cut : observations[m] # {} =>
       \/ followed[m] = {"reflect", "digest"}
       \/ \E w \in Workers : Derive!Began(w) /\ Derive!Source(w) = m
  /\ \A w \in Workers : dPc[w] = "digest" => "reflect" \in followed[Derive!Source(w)]

DeriveInv == LeaseInv /\ DeriveTyped /\ OneRun /\ Follows

\* The steps of w that store and enqueue nothing, after which it is not storing.
Idles(w) ==
  /\ UNCHANGED <<observations, run, followed>>
  /\ \A v \in Workers \ {w} : dPc'[v] = dPc[v] /\ dBatch'[v] = dBatch[v]
  /\ dPc'[w] \notin {"store", "reflect", "digest"}
  /\ cut \subseteq cut' /\ outlasted \subseteq outlasted'
  /\ Derive!Began(w) => Derive!Source(w) \in cut'

\* A worker with the same batch is at the same source.
LEMMA SourceKept ==
  ASSUME NEW v \in Workers, dBatch'[v] = dBatch[v]
  PROVE  Derive!Source(v)' = Derive!Source(v)
  BY DEF Derive!Source, Derive!W!First

\* A worker that stores and asks for nothing keeps both invariants of derivation.
LEMMA QuietKeeps ==
  ASSUME DeriveInv, NEW w \in Workers, Idles(w)
  PROVE  OneRun' /\ Follows'
<1>1. \A v \in Workers \ {w} : Derive!Source(v)' = Derive!Source(v)
  BY SourceKept DEF Idles
<1>2. \A v \in Workers \ {w} : Derive!Began(v)' = Derive!Began(v)
  BY <1>1, Zenon DEF Derive!Began, Derive!Busy, Idles
<1>3. \A v \in Workers : dPc'[v] \in {"store", "reflect", "digest"} => v # w /\ dPc'[v] = dPc[v]
  BY DEF Idles
<1>4. OneRun'
  BY <1>1, <1>3 DEF DeriveInv, OneRun, Idles, Derive!DerivedOnce
<1>5. ASSUME NEW m \in Sources \ cut', observations'[m] # {}, followed'[m] # {"reflect", "digest"}
      PROVE  \E v \in Workers : Derive!Began(v)' /\ Derive!Source(v)' = m
  <2>1. PICK v \in Workers : Derive!Began(v) /\ Derive!Source(v) = m
    BY <1>5 DEF DeriveInv, Follows, Idles
  <2>2. v # w
    BY <1>5, <2>1 DEF Idles
  <2> QED BY <1>1, <1>2, <2>1, <2>2
<1>6. \A v \in Workers : dPc'[v] = "digest" => "reflect" \in followed'[Derive!Source(v)']
  BY <1>1, <1>3 DEF DeriveInv, Follows, Idles
<1> QED BY <1>4, <1>5, <1>6 DEF Follows

\* What a step from one point to another changes: that point only, and no batch.
LEMMA StepIs ==
  ASSUME LeaseInv, NEW w \in Workers, NEW from, NEW to \in Derive!Point,
         Derive!W!Step(w, from, to)
  PROVE  /\ dPc[w] \in from /\ dPc'[w] = to
         /\ \A v \in Workers \ {w} : dPc'[v] = dPc[v]
         /\ \A v \in Workers : dBatch'[v] = dBatch[v] /\ Derive!Source(v)' = Derive!Source(v)
  BY SourceKept DEF LeaseInv, WorkersTyped, Derive!W!TypeOK, Derive!W!Step, Derive!W!Goto

\* Whoever is busy has a source, and those within their leases not the same one.
LEMMA BusyHasSource ==
  ASSUME LeaseInv, NEW w \in Workers, dPc[w] # "idle"
  PROVE  Derive!Source(w) \in dBatch[w] /\ Derive!Source(w) \in Sources
  BY FirstOfBatch DEF LeaseInv, Batched, WorkersTyped, Derive!W!TypeOK

\* No other worker is at a source whose lease was not outlasted.
LEMMA OwnSource ==
  ASSUME LeaseInv, NEW w \in Workers, NEW v \in Workers, v # w, dPc[v] # "idle", dPc[w] # "idle",
         Derive!Source(w) \notin outlasted
  PROVE  Derive!Source(v) # Derive!Source(w)
<1>1. Derive!Source(w) \in dBatch[w] /\ Derive!Source(v) \in dBatch[v]
  BY BusyHasSource
<1> QED
  BY <1>1 DEF LeaseInv, Leased

\* Every step of the derive workers keeps the types of their state.
LEMMA DeriveTypesKept ==
  ASSUME LeaseInv, LeaseInv', DeriveTyped, [Derive!Next]_derivation
  PROVE  DeriveTyped'
<1> USE DistillAssumption DEF DeriveTyped, Derive!past, Derive!work, Derive!Fault, Derive!Point
<1>a. MaxObs \in Nat /\ MaxRuns \in Nat
  BY DeriveAssumption
<1>0. Derive!W!TypeOK(Derive!Point) /\ Derive!W!TypeOK(Derive!Point)'
  BY DEF LeaseInv, WorkersTyped
<1>1. ASSUME NEW m \in Sources, Derive!SubmitDerive(m)
      PROVE  DeriveTyped'
  BY <1>1, <1>a, <1>0 DEF Derive!TypeOK, Storing, Derive!W!TypeOK, Derive!W!Step, Derive!W!Goto, Derive!SubmitDerive, Derive!W!Submit
<1>2. ASSUME NEW w \in Workers, Derive!ClaimDeriveJobs(w)
      PROVE  DeriveTyped'
  BY <1>2, <1>a, <1>0 DEF Derive!TypeOK, Storing, Derive!W!TypeOK, Derive!W!Step, Derive!W!Goto, Derive!ClaimDeriveJobs, Derive!W!Claim
<1>3. ASSUME NEW w \in Workers, Derive!SkipSource(w)
      PROVE  DeriveTyped'
  BY <1>3, <1>a, <1>0 DEF Derive!TypeOK, Storing, Derive!W!TypeOK, Derive!W!Step, Derive!W!Goto, Derive!SkipSource
<1>4. ASSUME NEW w \in Workers, Derive!ReuseExisting(w)
      PROVE  DeriveTyped'
  BY <1>4, <1>a, <1>0 DEF Derive!TypeOK, Storing, Derive!W!TypeOK, Derive!W!Step, Derive!W!Goto, Derive!ReuseExisting
<1>5. ASSUME NEW w \in Workers, Derive!StoreObservation(w)
      PROVE  DeriveTyped'
  <2>1. Derive!Source(w) \in Sources /\ planned[w] \in 1 .. MaxObs /\ run[w] \in 1 .. MaxRuns
    BY <1>5, BusyHasSource DEF Derive!StoreObservation, Derive!W!Step, Storing
  <2>2. Derive!TypeOK'
    BY <1>5, <1>a, <1>0, <2>1 DEF Derive!StoreObservation, Derive!TypeOK
  <2>3. ASSUME NEW v \in Workers, dPc'[v] = "store"
        PROVE  run'[v] \in 1 .. MaxRuns /\ planned'[v] \in 1 .. MaxObs
    BY <1>5, <1>a, <1>0, <2>1, <2>3 DEF Derive!StoreObservation, Derive!TypeOK, Storing, Derive!W!TypeOK,
       Derive!W!Step, Derive!W!Goto
  <2> QED BY <2>2, <2>3 DEF Storing
<1>6. ASSUME NEW w \in Workers, Derive!EnqueueReflect(w)
      PROVE  DeriveTyped'
  <2>1. Derive!Source(w) \in Sources
    BY <1>6, BusyHasSource DEF Derive!EnqueueReflect, Derive!W!Step
  <2> QED BY <1>6, <1>a, <1>0, <2>1 DEF Derive!TypeOK, Storing, Derive!W!TypeOK, Derive!W!Step, Derive!W!Goto, Derive!EnqueueReflect, Derive!AfterReflect
<1>7. ASSUME NEW w \in Workers, Derive!EnqueueDigest(w)
      PROVE  DeriveTyped'
  <2>1. Derive!Source(w) \in Sources
    BY <1>7, BusyHasSource DEF Derive!EnqueueDigest, Derive!W!Step
  <2> QED BY <1>7, <1>a, <1>0, <2>1 DEF Derive!TypeOK, Storing, Derive!W!TypeOK, Derive!W!Step, Derive!W!Goto, Derive!EnqueueDigest, Derive!AfterReflect
<1>8. ASSUME NEW w \in Workers, Derive!DeriveFails(w)
      PROVE  DeriveTyped'
  <2>1. dPc[w] # "idle"
    BY <1>8 DEF Derive!DeriveFails, Derive!W!Step, Derive!W!Leave
  <2>2. Derive!Source(w) \in Sources
    BY <2>1, BusyHasSource
  <2> QED BY <1>8, <1>a, <1>0, <2>2 DEF Derive!TypeOK, Storing, Derive!W!TypeOK, Derive!W!Step, Derive!W!Goto, Derive!DeriveFails, Derive!W!Leave
<1>9. ASSUME NEW w \in Workers, Derive!SettleJob(w)
      PROVE  DeriveTyped'
  BY <1>9, <1>a, <1>0 DEF Derive!TypeOK, Storing, Derive!W!TypeOK, Derive!W!Step, Derive!W!Goto, Derive!SettleJob, Derive!W!Settle
<1>10. ASSUME NEW w \in Workers, Derive!LostLease(w)
      PROVE  DeriveTyped'
  BY <1>10, <1>a, <1>0 DEF Derive!TypeOK, Storing, Derive!W!TypeOK, Derive!W!Step, Derive!W!Goto, Derive!LostLease, Derive!W!LostLease, Derive!W!Leave
<1>11. ASSUME NEW w \in Workers, Derive!Abort(w)
      PROVE  DeriveTyped'
  <2>1. dPc[w] # "idle"
    BY <1>11 DEF Derive!Abort, Derive!W!Step, Derive!W!Leave
  <2>2. Derive!Source(w) \in Sources
    BY <2>1, BusyHasSource
  <2> QED BY <1>11, <1>a, <1>0, <2>2 DEF Derive!TypeOK, Storing, Derive!W!TypeOK, Derive!W!Step, Derive!W!Goto, Derive!Abort, Derive!W!Leave
<1>12. ASSUME NEW w \in Workers, NEW n \in 0 .. MaxObs, Derive!Derive(w, n)
      PROVE  DeriveTyped'
  <2>1. Derive!Source(w) \in Sources
    BY <1>12, BusyHasSource DEF Derive!Derive, Derive!W!Step
  <2>2. Derive!TypeOK'
    BY <1>12, <1>a, <1>0, <2>1 DEF Derive!Derive, Derive!TypeOK
  <2>3. ASSUME NEW v \in Workers, dPc'[v] = "store"
        PROVE  run'[v] \in 1 .. MaxRuns /\ planned'[v] \in 1 .. MaxObs
    BY <1>12, <1>a, <1>0, <2>1, <2>3 DEF Derive!Derive, Derive!TypeOK, Storing, Derive!W!TypeOK,
       Derive!W!Step, Derive!W!Goto
  <2> QED BY <2>2, <2>3 DEF Storing
<1>13. ASSUME Derive!LapseLeases
      PROVE  DeriveTyped'
  <2>1. outlasted' \in SUBSET Sources /\ dPc' = dPc
    BY <1>13, <1>a, <1>0 DEF Derive!TypeOK, Derive!LapseLeases, Derive!W!Lapse
  <2> QED BY <1>13, <1>a, <1>0, <2>1 DEF Derive!TypeOK, Storing, Derive!LapseLeases
<1>14. CASE UNCHANGED derivation
  BY <1>14, <1>a, <1>0 DEF Derive!TypeOK, Storing, Derive!W!TypeOK, Derive!W!Step, Derive!W!Goto, derivation
<1> QED
  BY <1>1, <1>2, <1>3, <1>4, <1>5, <1>6, <1>7, <1>8, <1>9, <1>10, <1>11, <1>12, <1>13, <1>14
     DEF Derive!Next

\* Which actions of a derive worker store and ask for nothing.
LEMMA IdleSteps ==
  ASSUME LeaseInv, DeriveTyped, NEW w \in Workers,
         \/ Derive!ClaimDeriveJobs(w) \/ Derive!SkipSource(w) \/ Derive!ReuseExisting(w)
         \/ Derive!DeriveFails(w) \/ Derive!SettleJob(w) \/ Derive!LostLease(w) \/ Derive!Abort(w)
  PROVE  Idles(w)
<1> USE DEF Derive!past, Derive!work, Derive!Point
<1>0. dPc \in [Workers -> Derive!Point \cup {"idle"}] /\ dBatch \in [Workers -> SUBSET Sources]
  BY DEF LeaseInv, WorkersTyped, Derive!W!TypeOK
<1>1. CASE Derive!ClaimDeriveJobs(w)
  <2>1. dPc[w] = "idle" /\ dPc' = [dPc EXCEPT ![w] = "look"]
        /\ \A v \in Workers \ {w} : dBatch'[v] = dBatch[v]
    BY <1>0, <1>1 DEF Derive!ClaimDeriveJobs, Derive!W!Claim, Derive!W!Goto
  <2> QED BY <1>0, <1>1, <2>1 DEF Derive!ClaimDeriveJobs, Idles, Derive!Began, Derive!Busy
<1>2. CASE Derive!SkipSource(w) \/ Derive!ReuseExisting(w)
  <2>1. dPc[w] = "look" /\ dPc' = [dPc EXCEPT ![w] = "done"] /\ dBatch' = dBatch
        /\ UNCHANGED <<observations, run, followed, cut, outlasted>>
    BY <1>2 DEF Derive!SkipSource, Derive!ReuseExisting, Derive!W!Step, Derive!W!Goto
  <2> QED BY <1>0, <2>1 DEF Idles, Derive!Began, Derive!Busy
<1>3. CASE Derive!DeriveFails(w)
  <2>1. dPc' = [dPc EXCEPT ![w] = "failed"] /\ dBatch' = dBatch
        /\ UNCHANGED <<observations, run, followed, outlasted>>
        /\ cut' = IF Derive!Began(w) THEN cut \cup {Derive!Source(w)} ELSE cut
    BY <1>3 DEF Derive!DeriveFails, Derive!W!Step, Derive!W!Goto
  <2> QED BY <1>0, <2>1 DEF Idles
<1>4. CASE Derive!SettleJob(w)
  <2>1. dPc[w] \in {"done", "failed"} /\ UNCHANGED <<observations, run, followed, cut, outlasted>>
    BY <1>4 DEF Derive!SettleJob, Derive!W!Settle, Derive!Outcome
  <2>2. dPc'[w] \in {"idle", "look"} /\ \A v \in Workers \ {w} : dPc'[v] = dPc[v] /\ dBatch'[v] = dBatch[v]
    BY <1>0, <1>4 DEF Derive!SettleJob, Derive!W!Settle, Derive!W!Goto
  <2> QED BY <2>1, <2>2 DEF Idles, Derive!Began, Derive!Busy
<1>5. CASE Derive!LostLease(w)
  <2>1. dPc[w] \in {"done", "failed"} /\ UNCHANGED <<observations, run, followed, cut, outlasted>>
    BY <1>5 DEF Derive!LostLease
  <2>2. dPc'[w] = "idle" /\ \A v \in Workers \ {w} : dPc'[v] = dPc[v] /\ dBatch'[v] = dBatch[v]
    BY <1>0, <1>5 DEF Derive!LostLease, Derive!W!LostLease, Derive!W!Leave, Derive!W!Goto
  <2> QED BY <2>1, <2>2 DEF Idles, Derive!Began, Derive!Busy
<1>6. CASE Derive!Abort(w)
  <2>1. UNCHANGED <<observations, run, followed, outlasted>>
        /\ cut' = IF Derive!Began(w) THEN cut \cup {Derive!Source(w)} ELSE cut
    BY <1>6 DEF Derive!Abort
  <2>2. dPc'[w] = "idle" /\ \A v \in Workers \ {w} : dPc'[v] = dPc[v] /\ dBatch'[v] = dBatch[v]
    BY <1>0, <1>6 DEF Derive!Abort, Derive!W!Leave, Derive!W!Goto
  <2> QED BY <2>1, <2>2 DEF Idles
<1> QED BY <1>1, <1>2, <1>3, <1>4, <1>5, <1>6

\* A step outside the workers keeps both invariants of derivation.
LEMMA AsideKeeps ==
  ASSUME DeriveInv, UNCHANGED <<observations, run, followed, cut, dPc, dBatch>>,
         outlasted \subseteq outlasted'
  PROVE  OneRun' /\ Follows'
<1>1. \A v \in Workers : Derive!Source(v)' = Derive!Source(v)
  BY SourceKept
<1>2. \A v \in Workers : Derive!Began(v)' = Derive!Began(v)
  BY <1>1, Zenon DEF Derive!Began, Derive!Busy
<1>3. OneRun'
  BY <1>1 DEF DeriveInv, OneRun, Derive!DerivedOnce
<1>4. Follows'
  BY <1>1, <1>2 DEF DeriveInv, Follows
<1> QED BY <1>3, <1>4

\* A run begins only where nothing was stored, and stores under its own number.
LEMMA DeriveKeeps ==
  ASSUME DeriveInv, NEW w \in Workers, NEW n \in 0 .. MaxObs, Derive!Derive(w, n)
  PROVE  OneRun' /\ Follows'
<1> USE DEF Derive!past, Derive!Point
<1> DEFINE to == IF n = 0 THEN "done" ELSE "store"
<1>1. /\ dPc[w] = "look" /\ dPc'[w] \in {"done", "store"}
      /\ \A v \in Workers \ {w} : dPc'[v] = dPc[v]
      /\ \A v \in Workers : Derive!Source(v)' = Derive!Source(v)
  BY StepIs DEF Derive!Derive, DeriveInv
<1>2. /\ UNCHANGED <<observations, followed, cut, outlasted>>
      /\ observations[Derive!Source(w)] = {}
      /\ \A v \in Workers \ {w} : run'[v] = run[v]
  BY DEF Derive!Derive, Derive!FindsNone, DeriveInv, DeriveTyped, Derive!TypeOK
<1>3. OneRun'
  BY <1>1, <1>2 DEF DeriveInv, OneRun, Derive!DerivedOnce
<1>4. \A v \in Workers : Derive!Began(v) => v # w
  BY <1>1 DEF Derive!Began, Derive!Busy
<1>5. \A v \in Workers : Derive!Began(v) => Derive!Began(v)'
  BY <1>1, <1>2, <1>4 DEF Derive!Began, Derive!Busy
<1>6. Follows'
  BY <1>1, <1>2, <1>5 DEF DeriveInv, Follows
<1> QED BY <1>3, <1>6

\* Storing an observation keeps each source derived once, and by the run that follows.
LEMMA StoreKeeps ==
  ASSUME DeriveInv, NEW w \in Workers, Derive!StoreObservation(w)
  PROVE  OneRun' /\ Follows'
<1> USE DEF Derive!past, Derive!Point
<1> DEFINE src == Derive!Source(w)
<1>1. /\ dPc[w] = "store" /\ dPc'[w] \in {"reflect", "store"}
      /\ \A v \in Workers \ {w} : dPc'[v] = dPc[v]
      /\ \A v \in Workers : Derive!Source(v)' = Derive!Source(v)
  BY StepIs DEF Derive!StoreObservation, DeriveInv
<1>2. src \in Sources
  BY <1>1, BusyHasSource DEF DeriveInv
<1>3. /\ UNCHANGED <<run, followed, cut, outlasted>>
      /\ observations'[src] = observations[src] \cup {<<run[w], planned[w]>>}
      /\ \A m \in Sources \ {src} : observations'[m] = observations[m]
  BY <1>2 DEF Derive!StoreObservation, DeriveInv, DeriveTyped, Derive!TypeOK
<1>4. ASSUME NEW v \in Workers \ {w}, dPc[v] = "store"
      PROVE  Derive!Source(v) \in Sources /\ (src \notin outlasted => Derive!Source(v) # src)
  BY <1>1, <1>4, OwnSource, BusyHasSource DEF DeriveInv
<1>5. src \notin outlasted => \A o \in observations'[src] : o[1] = run[w]
  BY <1>1, <1>3 DEF DeriveInv, OneRun
<1> HIDE DEF src
<1>6. Derive!DerivedOnce'
  BY <1>2, <1>3, <1>5 DEF DeriveInv, OneRun, Derive!DerivedOnce
<1>7. ASSUME NEW v \in Workers, dPc'[v] = "store", Derive!Source(v)' \notin outlasted'
      PROVE  \A o \in observations'[Derive!Source(v)'] : o[1] = run'[v]
  <2>1. CASE v = w
    BY <1>1, <1>3, <1>5, <1>7, <2>1 DEF src
  <2>2. CASE v # w
    <3>1. Derive!Source(v) # src
      BY <1>1, <1>3, <1>4, <1>7, <2>2
    <3>2. observations'[Derive!Source(v)'] = observations[Derive!Source(v)]
      BY <1>1, <1>3, <1>4, <1>7, <2>2, <3>1
    <3> QED BY <1>1, <1>3, <1>7, <2>2, <3>2 DEF DeriveInv, OneRun
  <2> QED BY <2>1, <2>2
<1>8. OneRun'
  BY <1>6, <1>7 DEF OneRun
<1>9. Derive!Began(w)'
  <2>1. <<run[w], planned[w]>> \in observations'[Derive!Source(w)'] /\ <<run[w], planned[w]>>[1] = run'[w]
    BY <1>1, <1>3 DEF src
  <2> QED BY <1>1, <2>1 DEF Derive!Began, Derive!Busy
<1>10. \A v \in Workers : Derive!Began(v) => Derive!Began(v)'
  <2> SUFFICES ASSUME NEW v \in Workers \ {w}, Derive!Began(v) PROVE Derive!Began(v)'
    BY <1>9
  <2>1. Derive!Source(v) \in Sources
    BY BusyHasSource DEF DeriveInv, Derive!Began, Derive!Busy
  <2>2. observations[Derive!Source(v)] \subseteq observations'[Derive!Source(v)]
    BY <1>3, <2>1
  <2> QED BY <1>1, <1>3, <2>2 DEF Derive!Began, Derive!Busy
<1>11. Follows'
  <2>1. ASSUME NEW m \in Sources \ cut', observations'[m] # {}, followed'[m] # {"reflect", "digest"}
        PROVE  \E v \in Workers : Derive!Began(v)' /\ Derive!Source(v)' = m
    <3>1. CASE m = src
      BY <1>1, <1>9, <3>1 DEF src
    <3>2. CASE m # src
      BY <1>1, <1>3, <1>10, <2>1, <3>2 DEF DeriveInv, Follows
    <3> QED BY <3>1, <3>2
  <2>2. \A v \in Workers : dPc'[v] = "digest" => "reflect" \in followed'[Derive!Source(v)']
    BY <1>1, <1>3 DEF DeriveInv, Follows
  <2> QED BY <2>1, <2>2 DEF Follows
<1> QED BY <1>8, <1>11

\* Asking for reflection keeps both invariants of derivation.
LEMMA EnqueueReflectKeeps ==
  ASSUME DeriveInv, NEW w \in Workers, Derive!EnqueueReflect(w)
  PROVE  OneRun' /\ Follows'
<1> USE DEF Derive!past, Derive!Point
<1> DEFINE src == Derive!Source(w)
<1>1. /\ dPc[w] = "reflect" /\ dPc'[w] = "digest"
      /\ \A v \in Workers \ {w} : dPc'[v] = dPc[v]
      /\ \A v \in Workers : Derive!Source(v)' = Derive!Source(v)
  BY StepIs DEF Derive!EnqueueReflect, Derive!AfterReflect, DeriveInv
<1>2. src \in Sources
  BY <1>1, BusyHasSource DEF DeriveInv
<1>3. /\ UNCHANGED <<observations, run, cut, outlasted>>
      /\ followed'[src] = followed[src] \cup {"reflect"}
      /\ \A m \in Sources \ {src} : followed'[m] = followed[m]
  BY <1>2 DEF Derive!EnqueueReflect, DeriveInv, DeriveTyped, Derive!TypeOK
<1> HIDE DEF src
<1>4. OneRun'
  BY <1>1, <1>3 DEF DeriveInv, OneRun, Derive!DerivedOnce
<1>5. \A v \in Workers : Derive!Began(v) => Derive!Began(v)'
  BY <1>1, <1>3 DEF Derive!Began, Derive!Busy
<1>6. \A m \in Sources : followed[m] \subseteq followed'[m] /\ followed'[m] \subseteq {"reflect", "digest"}
  BY <1>2, <1>3 DEF DeriveInv, DeriveTyped, Derive!TypeOK
<1>7. \A v \in Workers : dPc'[v] = "digest" => "reflect" \in followed'[Derive!Source(v)']
  <2> SUFFICES ASSUME NEW v \in Workers \ {w}, dPc[v] = "digest"
               PROVE  "reflect" \in followed'[Derive!Source(v)]
    BY <1>1, <1>3 DEF src
  <2> QED BY <1>6, BusyHasSource DEF DeriveInv, Follows
<1>8. Follows'
  BY <1>1, <1>3, <1>5, <1>6, <1>7 DEF DeriveInv, Follows
<1> QED BY <1>4, <1>8

\* Asking for a digest keeps both invariants of derivation.
LEMMA EnqueueDigestKeeps ==
  ASSUME DeriveInv, NEW w \in Workers, Derive!EnqueueDigest(w)
  PROVE  OneRun' /\ Follows'
<1> USE DEF Derive!past, Derive!Point
<1> DEFINE src == Derive!Source(w)
<1>1. /\ dPc[w] = "digest" /\ dPc'[w] = "done"
      /\ \A v \in Workers \ {w} : dPc'[v] = dPc[v]
      /\ \A v \in Workers : Derive!Source(v)' = Derive!Source(v)
  BY StepIs DEF Derive!EnqueueDigest, DeriveInv
<1>2. src \in Sources
  BY <1>1, BusyHasSource DEF DeriveInv
<1>3. /\ UNCHANGED <<observations, run, cut, outlasted>>
      /\ followed'[src] = followed[src] \cup {"digest"}
      /\ \A m \in Sources \ {src} : followed'[m] = followed[m]
  BY <1>2 DEF Derive!EnqueueDigest, DeriveInv, DeriveTyped, Derive!TypeOK
<1>4. "reflect" \in followed[src]
  BY <1>1 DEF DeriveInv, Follows
<1> HIDE DEF src
<1>5. followed'[src] = {"reflect", "digest"}
  BY <1>2, <1>3, <1>4 DEF DeriveInv, DeriveTyped, Derive!TypeOK
<1>6. OneRun'
  BY <1>1, <1>3 DEF DeriveInv, OneRun, Derive!DerivedOnce
<1>7. \A v \in Workers \ {w} : Derive!Began(v) => Derive!Began(v)'
  BY <1>1, <1>3 DEF Derive!Began, Derive!Busy
<1>8. \A m \in Sources : followed[m] \subseteq followed'[m]
  BY <1>3
<1>9. \A v \in Workers : dPc'[v] = "digest" => "reflect" \in followed'[Derive!Source(v)']
  <2> SUFFICES ASSUME NEW v \in Workers \ {w}, dPc[v] = "digest"
               PROVE  "reflect" \in followed'[Derive!Source(v)]
    BY <1>1
  <2> QED BY <1>8, BusyHasSource DEF DeriveInv, Follows
<1>10. ASSUME NEW m \in Sources \ cut', observations'[m] # {}, followed'[m] # {"reflect", "digest"}
       PROVE  \E v \in Workers : Derive!Began(v)' /\ Derive!Source(v)' = m
  <2>1. m # src /\ followed[m] # {"reflect", "digest"}
    BY <1>3, <1>5, <1>10
  <2>2. PICK v \in Workers : Derive!Began(v) /\ Derive!Source(v) = m
    BY <1>3, <1>10, <2>1 DEF DeriveInv, Follows
  <2> QED BY <1>1, <1>7, <2>1, <2>2 DEF src
<1> QED BY <1>6, <1>9, <1>10 DEF Follows

\* The invariant of derivation holds before any job.
LEMMA DeriveInvInit == Derive!Init => DeriveInv
<1> SUFFICES ASSUME Derive!Init PROVE DeriveInv
  OBVIOUS
<1> USE DeriveAssumption, DistillAssumption DEF Derive!Init, Derive!W!Init, Derive!W!Queue!Init
<1>1. LeaseInv
  BY DEF LeaseInv, WorkersTyped, Batched, Leased, Derive!W!TypeOK, Derive!W!Queue!Phase
<1>2. DeriveTyped
  BY <1>1 DEF LeaseInv, WorkersTyped, DeriveTyped, Storing, Derive!TypeOK
<1>3. OneRun /\ Follows
  BY DEF OneRun, Derive!DerivedOnce, Follows
<1> QED BY <1>1, <1>2, <1>3 DEF DeriveInv

\* Every step of Cognition keeps the invariant of derivation.
LEMMA DeriveNext == DeriveInv /\ [CognitionNext]_everything => DeriveInv'
<1> SUFFICES ASSUME DeriveInv, [Derive!Next]_derivation PROVE DeriveInv'
  BY DeriveStep
<1>1. LeaseInv' /\ DeriveTyped'
  BY LeasesKept, DeriveTypesKept DEF DeriveInv
<1>2. ASSUME NEW w \in Workers,
             \/ Derive!ClaimDeriveJobs(w) \/ Derive!SkipSource(w) \/ Derive!ReuseExisting(w)
             \/ Derive!DeriveFails(w) \/ Derive!SettleJob(w) \/ Derive!LostLease(w) \/ Derive!Abort(w)
      PROVE  OneRun' /\ Follows'
  BY <1>2, IdleSteps, QuietKeeps DEF DeriveInv
<1>3. CASE (\E m \in Sources : Derive!SubmitDerive(m)) \/ Derive!LapseLeases \/ UNCHANGED derivation
  <2>1. UNCHANGED <<observations, run, followed, cut, dPc, dBatch>> /\ outlasted \subseteq outlasted'
    BY <1>3 DEF Derive!SubmitDerive, Derive!LapseLeases, Derive!W!Submit, Derive!W!Lapse,
       Derive!work, Derive!past, derivation
  <2>2. OneRun' /\ Follows'
    BY <2>1, AsideKeeps
  <2> QED BY <2>2, <1>1 DEF DeriveInv
<1> QED
  BY <1>1, <1>2, <1>3, DeriveKeeps, StoreKeeps, EnqueueReflectKeeps, EnqueueDigestKeeps
     DEF DeriveInv, Derive!Next

\* The variables of derivation have their types.
THEOREM DeriveTypes == CognitionSpec => []Derive!TypeOK
<1>1. CognitionInit => DeriveInv
  BY DeriveInvInit DEF CognitionInit
<1>2. DeriveInv => Derive!TypeOK
  BY DEF DeriveInv, DeriveTyped
<1> QED
  BY <1>1, <1>2, DeriveNext, PTL DEF CognitionSpec, everything

\* The observations of a source are of one run, unless a worker outlasted its lease.
THEOREM DerivedOnceHolds == CognitionSpec => []DerivedOnce
<1>1. CognitionInit => DeriveInv
  BY DeriveInvInit DEF CognitionInit
<1>2. DeriveInv => DerivedOnce
  BY DEF DeriveInv, OneRun, DerivedOnce
<1> QED
  BY <1>1, <1>2, DeriveNext, PTL DEF CognitionSpec, everything

\* A source with observations has both follow-up jobs, or their worker is still at
\* it, or the run was cut short.
THEOREM DoneIsFollowedHolds == CognitionSpec => []DoneIsFollowed
<1>1. CognitionInit => DeriveInv
  BY DeriveInvInit DEF CognitionInit
<1>2. DeriveInv => DoneIsFollowed
  BY DEF DeriveInv, Follows, Derive!Began, Derive!DoneIsFollowed, DoneIsFollowed
<1> QED
  BY <1>1, <1>2, DeriveNext, PTL DEF CognitionSpec, everything

-----------------------------------------------------------------------------
(* Reflection: cycles, the pairs they have yet to reflect on, and what the  *)
(* counters may claim.                                                      *)

\* A step of Cognition is a step of the reflection cycles or leaves them alone.
LEMMA ReflectStep == [CognitionNext]_everything => [Reflect!Next]_reflection
<1> SUFFICES ASSUME [CognitionNext]_everything PROVE [Reflect!Next]_reflection
  OBVIOUS
<1>1. (part = "reflect" /\ Reflect!Next) \/ UNCHANGED reflection
  BY DEF CognitionNext, everything
<1> QED BY <1>1

\* Cardinality means the same in the instance as here.
LEMMA ReflectCountsAlike == \A S : Reflect!Cardinality(S) = Cardinality(S)
<1>1. \A S : Reflect!IsFiniteSet(S) = IsFiniteSet(S)
  BY Zenon DEF Reflect!IsFiniteSet, IsFiniteSet
<1> QED BY <1>1, Zenon DEF Reflect!Cardinality, Cardinality

\* A pair is two observations, hence a finite set that is not empty.
LEMMA PairIs ==
  ASSUME NEW p \in Reflect!Pairs
  PROVE  /\ p \subseteq Observations /\ IsFiniteSet(p) /\ Cardinality(p) = 2
         /\ p # {}
<1>1. p \subseteq Observations /\ Cardinality(p) = 2
  BY CognitionAssumption, ReflectCountsAlike DEF Reflect!ReflectAssumption, Reflect!Pairs
<1> QED
  BY <1>1, ReflectionAssumption, FS_Subset, FS_EmptySet

CycleState ==
  [pc : Reflect!Point, number : Nat, seen : SUBSET Observations, todo : SUBSET Reflect!Pairs,
   mine : SUBSET Alike, pair : SUBSET Observations, bump : SUBSET Observations,
   loaded : [Reflect!Role -> Nat], clusters : SUBSET SUBSET Observations]

\* Only cycler c moves, or ends its cycle.
Only(c) ==
  /\ cycle' \in [Cyclers -> CycleState]
  /\ \A d \in Cyclers \ {c} : cycle'[d] = cycle[d]
Ended(c) == Only(c) /\ cycle'[c] = Reflect!Idle

CyclesTyped ==
  /\ cycle \in [Cyclers -> CycleState]
  /\ started \in Nat /\ present \subseteq Observations
  /\ rows \in Nat /\ born \in [Observations -> Nat]
  /\ count \in [Observations -> [Reflect!Role -> Nat]]

\* The pairs are sets of observations, those that agree among them.
LEMMA PairsAre == Reflect!Pairs \in SUBSET SUBSET Observations /\ Alike \subseteq Reflect!Pairs
  BY PairIs DEF Reflect!Pairs

\* What gather does to its cycle, field by field.
LEMMA GatherDoes ==
  ASSUME CyclesTyped, NEW c \in Cyclers, Reflect!Gather(c)
  PROVE  /\ Only(c)
         /\ cycle'[c].pc = "evidence" /\ cycle'[c].number = started' /\ cycle'[c].seen = Reflect!Candidates
         /\ cycle'[c].todo = cycle[c].todo /\ cycle'[c].mine = cycle[c].mine
         /\ cycle'[c].pair = cycle[c].pair /\ cycle'[c].bump = cycle[c].bump
         /\ cycle'[c].loaded = cycle[c].loaded /\ cycle'[c].clusters = cycle[c].clusters
<1>1. PICK n \in Nat : n = started'
  BY DEF Reflect!Gather, CyclesTyped
<1>2. PICK T \in SUBSET Observations : T = Reflect!Candidates
  BY DEF Reflect!Candidates, CyclesTyped
<1>3. cycle' = [cycle EXCEPT ![c].pc = "evidence", ![c].seen = T, ![c].number = n]
  BY <1>1, <1>2 DEF Reflect!Gather
<1>4. /\ Only(c) /\ cycle'[c].pc = "evidence" /\ cycle'[c].number = n /\ cycle'[c].seen = T
      /\ cycle'[c].todo = cycle[c].todo /\ cycle'[c].mine = cycle[c].mine
      /\ cycle'[c].pair = cycle[c].pair /\ cycle'[c].bump = cycle[c].bump
      /\ cycle'[c].loaded = cycle[c].loaded /\ cycle'[c].clusters = cycle[c].clusters
  BY <1>3 DEF Only, CyclesTyped, CycleState, Reflect!Point
<1> QED BY <1>1, <1>2, <1>4

\* What loading the evidence of pairs does to its cycle, field by field.
LEMMA LoadDoes ==
  ASSUME CyclesTyped, NEW c \in Cyclers, Reflect!LoadPairEvidence(c), NEW left,
         left = {p \in Reflect!Pairs : p \subseteq cycle[c].seen /\ ~Reflect!Reflected(p)}
  PROVE  /\ Only(c)
         /\ cycle'[c].pc = "pairs" /\ cycle'[c].todo = left /\ cycle'[c].number = cycle[c].number
         /\ cycle'[c].seen = cycle[c].seen /\ cycle'[c].mine = cycle[c].mine
         /\ cycle'[c].pair = cycle[c].pair /\ cycle'[c].bump = cycle[c].bump
         /\ cycle'[c].loaded = cycle[c].loaded /\ cycle'[c].clusters = cycle[c].clusters
<1>1. cycle' = [cycle EXCEPT ![c].pc = "pairs", ![c].todo = left] /\ left \in SUBSET Reflect!Pairs
  BY DEF Reflect!LoadPairEvidence
<1> QED BY <1>1 DEF Only, CyclesTyped, CycleState, Reflect!Point

\* What storing a reflection does to its cycle and to the records, field by field.
LEMMA StoreDoes ==
  ASSUME CyclesTyped, NEW c \in Cyclers, Reflect!StoreReflection(c)
  PROVE  \E p \in cycle[c].todo :
           /\ Only(c)
              /\ cycle'[c].pc = "read" /\ cycle'[c].todo = cycle[c].todo \ {p}
              /\ cycle'[c].mine = (IF p \in Alike THEN cycle[c].mine \cup {p} ELSE cycle[c].mine)
              /\ cycle'[c].pair = p /\ cycle'[c].bump = p /\ cycle'[c].number = cycle[c].number
              /\ cycle'[c].seen = cycle[c].seen /\ cycle'[c].loaded = cycle[c].loaded
              /\ cycle'[c].clusters = cycle[c].clusters
           /\ records' = records \cup
                {[role |-> Reflect!RoleOf(p), sources |-> p, cycle |-> cycle[c].number]}
  BY PairsAre DEF Reflect!StoreReflection, Only, CyclesTyped, CycleState, Reflect!Point

\* What reading a counter does to its cycle, field by field.
LEMMA ReadDoes ==
  ASSUME CyclesTyped, NEW c \in Cyclers, Reflect!ReadCounter(c), Reflect!Member(c) \in Observations
  PROVE  /\ Only(c)
         /\ cycle'[c].pc = "write" /\ cycle'[c].loaded = count[Reflect!Member(c)]
         /\ cycle'[c].number = cycle[c].number /\ cycle'[c].seen = cycle[c].seen
         /\ cycle'[c].todo = cycle[c].todo /\ cycle'[c].mine = cycle[c].mine
         /\ cycle'[c].pair = cycle[c].pair /\ cycle'[c].bump = cycle[c].bump
         /\ cycle'[c].clusters = cycle[c].clusters
  BY DEF Reflect!ReadCounter, Only, CyclesTyped, CycleState, Reflect!Point

\* What writing a counter does to its cycle, field by field.
LEMMA WriteDoes ==
  ASSUME CyclesTyped, NEW c \in Cyclers, Reflect!WriteCounter(c), NEW rest,
         rest = cycle[c].bump \ {Reflect!Member(c)}
  PROVE  /\ Only(c)
         /\ cycle'[c].pc = (IF cycle[c].bump = {Reflect!Member(c)} THEN "pairs" ELSE "read")
         /\ cycle'[c].bump = rest /\ cycle'[c].number = cycle[c].number
         /\ cycle'[c].seen = cycle[c].seen /\ cycle'[c].todo = cycle[c].todo
         /\ cycle'[c].mine = cycle[c].mine /\ cycle'[c].pair = cycle[c].pair
         /\ cycle'[c].loaded = cycle[c].loaded /\ cycle'[c].clusters = cycle[c].clusters
  BY DEF Reflect!WriteCounter, Only, CyclesTyped, CycleState, Reflect!Point

\* The cycle that has not begun is a cycle.
LEMMA IdleTyped == Reflect!Idle \in CycleState
  BY DEF Reflect!Idle, CycleState, Reflect!Point, Reflect!Zero

\* A cycle with nothing left to compare ends.
LEMMA FinishDoes ==
  ASSUME CyclesTyped, NEW c \in Cyclers, Reflect!Finish(c)
  PROVE  Ended(c)
  BY IdleTyped DEF Reflect!Finish, Only, Ended, CyclesTyped

\* Forming clusters ends the cycle or leaves it with all its components to pursue.
LEMMA FormDoes ==
  ASSUME CyclesTyped, NEW c \in Cyclers, Reflect!FormClusters(c)
  PROVE  \/ Ended(c) /\ (cycle[c].mine = {} \/ Reflect!Components(c) = {})
         \/ /\ Only(c)
            /\ cycle'[c].pc = "clusters" /\ cycle'[c].clusters = Reflect!Components(c)
            /\ cycle'[c].number = cycle[c].number /\ cycle'[c].seen = cycle[c].seen
            /\ cycle'[c].todo = cycle[c].todo /\ cycle'[c].mine = cycle[c].mine
            /\ cycle'[c].pair = cycle[c].pair /\ cycle'[c].bump = cycle[c].bump
            /\ cycle'[c].loaded = cycle[c].loaded
<1>1. CASE Reflect!Finish(c) /\ (cycle[c].mine = {} \/ Reflect!Components(c) = {})
  BY <1>1, FinishDoes
<1>2. CASE cycle' = [cycle EXCEPT ![c].pc = "clusters", ![c].clusters = Reflect!Components(c)]
  <2>1. Reflect!Components(c) \in SUBSET SUBSET Observations
    BY DEF Reflect!Components, CyclesTyped, CycleState
  <2> QED BY <1>2, <2>1 DEF Only, CyclesTyped, CycleState, Reflect!Point
<1> QED BY <1>1, <1>2 DEF Reflect!FormClusters

\* A cycle stays one when its point, its pair, its counting or its clusters are
\* replaced.
LEMMA FieldsTyped ==
  ASSUME NEW f \in [Cyclers -> CycleState], NEW c \in Cyclers
  PROVE  /\ \A x \in Reflect!Point : [f EXCEPT ![c].pc = x] \in [Cyclers -> CycleState]
         /\ \A x \in SUBSET Observations : [f EXCEPT ![c].pair = x] \in [Cyclers -> CycleState]
         /\ \A x \in SUBSET Observations : [f EXCEPT ![c].bump = x] \in [Cyclers -> CycleState]
         /\ \A x \in SUBSET SUBSET Observations :
              [f EXCEPT ![c].clusters = x] \in [Cyclers -> CycleState]
<1>1. f[c] \in CycleState
  OBVIOUS
<1>2. \A r \in CycleState : [f EXCEPT ![c] = r] \in [Cyclers -> CycleState]
  OBVIOUS
<1>3. ASSUME NEW x \in Reflect!Point
      PROVE  [f EXCEPT ![c].pc = x] \in [Cyclers -> CycleState]
  <2>1. [f[c] EXCEPT !.pc = x] \in CycleState
    BY <1>1 DEF CycleState
  <2> QED BY <2>1, <1>2
<1>4. ASSUME NEW x \in SUBSET Observations
      PROVE  [f EXCEPT ![c].pair = x] \in [Cyclers -> CycleState]
  <2>1. [f[c] EXCEPT !.pair = x] \in CycleState
    BY <1>1 DEF CycleState
  <2> QED BY <2>1, <1>2
<1>5. ASSUME NEW x \in SUBSET Observations
      PROVE  [f EXCEPT ![c].bump = x] \in [Cyclers -> CycleState]
  <2>1. [f[c] EXCEPT !.bump = x] \in CycleState
    BY <1>1 DEF CycleState
  <2> QED BY <2>1, <1>2
<1>6. ASSUME NEW x \in SUBSET SUBSET Observations
      PROVE  [f EXCEPT ![c].clusters = x] \in [Cyclers -> CycleState]
  <2>1. [f[c] EXCEPT !.clusters = x] \in CycleState
    BY <1>1 DEF CycleState
  <2> QED BY <2>1, <1>2
<1> QED BY <1>3, <1>4, <1>5, <1>6

\* What leaving one of several clusters does to the cycle, field by field.
LEMMA DropDoes ==
  ASSUME CyclesTyped, NEW c \in Cyclers, NEW C, Reflect!Drop(c, C), cycle[c].clusters # {C}
  PROVE  /\ Only(c)
         /\ cycle'[c].pc = "clusters" /\ cycle'[c].pair = {}
         /\ cycle'[c].clusters = cycle[c].clusters \ {C} /\ cycle'[c].number = cycle[c].number
         /\ cycle'[c].seen = cycle[c].seen /\ cycle'[c].todo = cycle[c].todo
         /\ cycle'[c].mine = cycle[c].mine /\ cycle'[c].bump = cycle[c].bump
<1>1. PICK rest \in SUBSET SUBSET Observations, none \in SUBSET Observations :
        rest = cycle[c].clusters \ {C} /\ none = {}
  BY DEF CyclesTyped, CycleState
<1>2. cycle' = [cycle EXCEPT ![c].pc = "clusters", ![c].clusters = rest, ![c].pair = none]
  BY <1>1 DEF Reflect!Drop
<1>3. Only(c)
  <2>1. PICK f \in [Cyclers -> CycleState] : f = [cycle EXCEPT ![c].pc = "clusters"]
    BY FieldsTyped DEF CyclesTyped, Reflect!Point
  <2>2. PICK g \in [Cyclers -> CycleState] : g = [f EXCEPT ![c].clusters = rest]
    BY FieldsTyped
  <2>3. cycle' = [g EXCEPT ![c].pair = none]
    BY <1>2, <2>1, <2>2
  <2>4. cycle' \in [Cyclers -> CycleState]
    BY <2>3, FieldsTyped
  <2> QED BY <1>2, <2>4 DEF Only, CyclesTyped
<1>4. /\ cycle'[c].pc = "clusters" /\ cycle'[c].pair = none /\ cycle'[c].number = cycle[c].number
      /\ cycle'[c].seen = cycle[c].seen /\ cycle'[c].todo = cycle[c].todo
      /\ cycle'[c].mine = cycle[c].mine /\ cycle'[c].bump = cycle[c].bump
      /\ cycle'[c].clusters = rest
  BY <1>2 DEF CyclesTyped, CycleState
<1> QED BY <1>1, <1>3, <1>4

\* What turning to a cluster does to the cycle, field by field.
LEMMA TurnDoes ==
  ASSUME CyclesTyped, NEW c \in Cyclers, NEW C \in SUBSET Observations,
         cycle' = [cycle EXCEPT ![c].pc = "insight", ![c].pair = C, ![c].bump = {}]
  PROVE  /\ Only(c)
         /\ cycle'[c].pc = "insight" /\ cycle'[c].pair = C /\ cycle'[c].bump = {}
         /\ cycle'[c].number = cycle[c].number /\ cycle'[c].seen = cycle[c].seen
         /\ cycle'[c].todo = cycle[c].todo /\ cycle'[c].mine = cycle[c].mine
         /\ cycle'[c].clusters = cycle[c].clusters
<1>1. PICK none \in SUBSET Observations : none = {}
  OBVIOUS
<1>2. cycle' = [cycle EXCEPT ![c].pc = "insight", ![c].pair = C, ![c].bump = none]
  BY <1>1
<1>3. Only(c)
  <2>1. PICK f \in [Cyclers -> CycleState] : f = [cycle EXCEPT ![c].pc = "insight"]
    BY FieldsTyped DEF CyclesTyped, Reflect!Point
  <2>2. PICK g \in [Cyclers -> CycleState] : g = [f EXCEPT ![c].pair = C]
    BY FieldsTyped
  <2>3. cycle' = [g EXCEPT ![c].bump = none]
    BY <1>2, <2>1, <2>2
  <2>4. \A x \in SUBSET Observations : [g EXCEPT ![c].bump = x] \in [Cyclers -> CycleState]
    BY FieldsTyped
  <2>5. cycle' \in [Cyclers -> CycleState]
    BY <2>3, <2>4
  <2> QED BY <1>2, <2>5 DEF Only, CyclesTyped
<1>4. /\ cycle'[c].pc = "insight" /\ cycle'[c].pair = C /\ cycle'[c].bump = none
      /\ cycle'[c].number = cycle[c].number /\ cycle'[c].seen = cycle[c].seen
      /\ cycle'[c].todo = cycle[c].todo /\ cycle'[c].mine = cycle[c].mine
      /\ cycle'[c].clusters = cycle[c].clusters
  BY <1>2 DEF CyclesTyped, CycleState
<1> QED BY <1>1, <1>3, <1>4

Counting(c) == cycle[c].pc \in {"read", "write"}

\* What a cycle knows fits where it stands.
Coherent(c) ==
  /\ Counting(c) <=> cycle[c].bump # {}
  /\ Counting(c) => cycle[c].pair \in Reflect!Pairs
  /\ cycle[c].bump \subseteq cycle[c].pair
  /\ cycle[c].todo # {} => cycle[c].pc = "pairs" \/ Counting(c)
  /\ cycle[c].mine # {} => cycle[c].pc \notin {"idle", "evidence"}
  /\ cycle[c].clusters # {} => cycle[c].pc \in {"clusters", "insight"}
  /\ cycle[c].pc = "insight" => cycle[c].pair \in cycle[c].clusters
  /\ \A p \in cycle[c].todo \cup cycle[c].mine : p \subseteq cycle[c].seen
  /\ \A C \in cycle[c].clusters : Cardinality(C) >= MinCluster
  /\ cycle[c].seen \subseteq present
  /\ cycle[c].pc # "idle" => cycle[c].number \in 1 .. started

CyclesInv == CyclesTyped /\ \A c \in Cyclers : Coherent(c)

\* The observation whose counter is next is one of those still to be counted.
LEMMA MemberIn ==
  ASSUME CyclesInv, NEW c \in Cyclers, Counting(c)
  PROVE  Reflect!Member(c) \in cycle[c].bump /\ Reflect!Member(c) \in Observations
<1>1. cycle[c].bump # {} /\ cycle[c].bump \subseteq cycle[c].pair
      /\ cycle[c].pair \in Reflect!Pairs
  BY DEF CyclesInv, Coherent
<1>2. IsFiniteSet(cycle[c].bump) /\ cycle[c].bump \in SUBSET Nat
      /\ cycle[c].bump \subseteq Observations
  <2>1. cycle[c].pair \subseteq Observations /\ IsFiniteSet(cycle[c].pair)
    BY <1>1, PairIs
  <2>2. IsFiniteSet(cycle[c].bump)
    BY <1>1, <2>1, FS_Subset
  <2>3. Observations \subseteq Nat
    BY CognitionAssumption DEF Reflect!ReflectAssumption
  <2> QED BY <1>1, <2>1, <2>2, <2>3
<1>3. \E a \in cycle[c].bump : \A b \in cycle[c].bump : b <= a
  BY <1>1, <1>2, GreatestNat
<1> QED BY <1>2, <1>3 DEF Reflect!Member

\* A cycle that ended is coherent.
LEMMA EndedCoherent ==
  ASSUME CyclesInv, NEW c \in Cyclers, Ended(c)
  PROVE  Coherent(c)'
  BY DEF Ended, Coherent, Counting, Reflect!Idle

\* A cycle stays coherent while another one moves and observations are added.
LEMMA OthersCoherent ==
  ASSUME CyclesInv, NEW d \in Cyclers, cycle'[d] = cycle[d], present \subseteq present',
         started' \in Nat, started <= started'
  PROVE  Coherent(d)'
<1>1. Coherent(d) /\ started \in Nat
  BY DEF CyclesInv, CyclesTyped
<1>2. \A n \in 1 .. started : n \in 1 .. started'
  BY <1>1
<1> QED BY <1>1, <1>2 DEF Coherent, Counting

\* A cycle that leaves a cluster stays coherent.
LEMMA DropCoherent ==
  ASSUME CyclesInv, NEW c \in Cyclers, NEW C, Reflect!Drop(c, C), UNCHANGED <<present, started>>,
         cycle[c].pc \in {"clusters", "insight"}
  PROVE  Only(c) /\ Coherent(c)'
<1>0. CyclesTyped /\ Coherent(c)
  BY DEF CyclesInv
<1>1. CASE cycle[c].clusters = {C}
  BY <1>0, <1>1, FinishDoes, EndedCoherent DEF Reflect!Drop, Ended
<1>2. CASE cycle[c].clusters # {C}
  BY <1>0, <1>2, DropDoes DEF Coherent, Counting
<1> QED BY <1>1, <1>2

\* Each step of a cycler leaves it with what fits where it then stands.
LEMMA CyclerCoherent ==
  ASSUME CyclesInv, NEW c \in Cyclers,
         \/ Reflect!Gather(c) \/ Reflect!LoadPairEvidence(c) \/ Reflect!StoreReflection(c)
         \/ Reflect!ReadCounter(c) \/ Reflect!WriteCounter(c) \/ Reflect!FormClusters(c)
         \/ Reflect!FindExisting(c) \/ Reflect!StoreInsight(c) \/ Reflect!Cut(c)
  PROVE  Only(c) /\ Coherent(c)'
<1>0. CyclesTyped /\ Coherent(c)
  BY DEF CyclesInv
<1>1. CASE Reflect!Gather(c)
  <2>1. cycle[c].pc = "idle" /\ started' = started + 1 /\ present' = present /\ started \in Nat
    BY <1>0, <1>1 DEF Reflect!Gather, CyclesTyped
  <2>2. Reflect!Candidates \subseteq present
    BY DEF Reflect!Candidates
  <2> QED BY <1>0, <1>1, <2>1, <2>2, GatherDoes DEF Coherent, Counting
<1>2. CASE Reflect!LoadPairEvidence(c)
  <2>1. PICK left : left = {p \in Reflect!Pairs : p \subseteq cycle[c].seen /\ ~Reflect!Reflected(p)}
    OBVIOUS
  <2>2. \A p \in left : p \subseteq cycle[c].seen
    BY <2>1
  <2>3. cycle[c].pc = "evidence" /\ UNCHANGED <<started, present>>
    BY <1>2 DEF Reflect!LoadPairEvidence
  <2> QED BY <1>0, <1>2, <2>1, <2>2, <2>3, LoadDoes DEF Coherent, Counting
<1>3. CASE Reflect!StoreReflection(c)
  <2>1. cycle[c].pc = "pairs" /\ UNCHANGED <<started, present>>
    BY <1>3 DEF Reflect!StoreReflection
  <2>2. cycle[c].todo \subseteq Reflect!Pairs
    BY <1>0 DEF CyclesTyped, CycleState
  <2>3. PICK p \in cycle[c].todo :
          /\ Only(c)
          /\ cycle'[c].pc = "read" /\ cycle'[c].todo = cycle[c].todo \ {p}
          /\ cycle'[c].mine = (IF p \in Alike THEN cycle[c].mine \cup {p} ELSE cycle[c].mine)
          /\ cycle'[c].pair = p /\ cycle'[c].bump = p /\ cycle'[c].number = cycle[c].number
          /\ cycle'[c].seen = cycle[c].seen /\ cycle'[c].clusters = cycle[c].clusters
    BY <1>0, <1>3, StoreDoes
  <2>4. p \in Reflect!Pairs /\ p # {} /\ p \subseteq cycle[c].seen
    BY <1>0, <2>2, PairIs DEF Coherent
  <2>5. cycle'[c].mine \subseteq cycle[c].mine \cup {p}
    BY <2>3
  <2> QED BY <1>0, <2>1, <2>3, <2>4, <2>5 DEF Coherent, Counting
<1>4. CASE Reflect!ReadCounter(c)
  <2>1. cycle[c].pc = "read" /\ UNCHANGED <<started, present>>
    BY <1>4 DEF Reflect!ReadCounter
  <2>2. Reflect!Member(c) \in Observations
    BY <2>1, MemberIn DEF Counting
  <2> QED BY <1>0, <1>4, <2>1, <2>2, ReadDoes DEF Coherent, Counting
<1>5. CASE Reflect!WriteCounter(c)
  <2>1. cycle[c].pc = "write" /\ UNCHANGED <<started, present>>
    BY <1>5 DEF Reflect!WriteCounter
  <2>2. PICK rest : rest = cycle[c].bump \ {Reflect!Member(c)}
    OBVIOUS
  <2>3. rest = {} <=> cycle[c].bump = {Reflect!Member(c)}
    BY <2>1, <2>2, MemberIn DEF Counting
  <2> QED BY <1>0, <1>5, <2>1, <2>2, <2>3, WriteDoes DEF Coherent, Counting
<1>6. CASE Reflect!FormClusters(c)
  <2>1. cycle[c].pc = "pairs" /\ cycle[c].todo = {} /\ UNCHANGED <<started, present>>
    BY <1>6 DEF Reflect!FormClusters
  <2>2. \A C \in Reflect!Components(c) : Cardinality(C) >= MinCluster
    BY ReflectCountsAlike DEF Reflect!Components
  <2>3. CASE Ended(c)
    BY <2>3, EndedCoherent DEF Ended
  <2>4. CASE ~Ended(c)
    BY <1>0, <1>6, <2>1, <2>2, <2>4, FormDoes DEF Coherent, Counting
  <2> QED BY <2>3, <2>4
<1>7. CASE Reflect!FindExisting(c)
  <2>1. PICK C \in cycle[c].clusters :
          \/ Reflect!Drop(c, C)
          \/ cycle' = [cycle EXCEPT ![c].pc = "insight", ![c].pair = C, ![c].bump = {}]
    BY <1>7 DEF Reflect!FindExisting
  <2>2. cycle[c].pc = "clusters" /\ UNCHANGED <<started, present>>
    BY <1>7 DEF Reflect!FindExisting
  <2>3. C \in SUBSET Observations
    BY <1>0 DEF CyclesTyped, CycleState
  <2>4. CASE Reflect!Drop(c, C)
    BY <2>2, <2>4, DropCoherent
  <2>5. CASE cycle' = [cycle EXCEPT ![c].pc = "insight", ![c].pair = C, ![c].bump = {}]
    BY <1>0, <2>2, <2>3, <2>5, TurnDoes DEF Coherent, Counting
  <2> QED BY <2>1, <2>4, <2>5
<1>8. CASE Reflect!StoreInsight(c)
  BY <1>8, DropCoherent DEF Reflect!StoreInsight
<1>9. CASE Reflect!Cut(c)
  BY <1>0, <1>9, FinishDoes, EndedCoherent DEF Reflect!Cut, Ended
<1> QED BY <1>1, <1>2, <1>3, <1>4, <1>5, <1>6, <1>7, <1>8, <1>9

CyclerSteps(c) ==
  \/ Reflect!Gather(c) \/ Reflect!LoadPairEvidence(c) \/ Reflect!StoreReflection(c)
  \/ Reflect!ReadCounter(c) \/ Reflect!WriteCounter(c) \/ Reflect!FormClusters(c)
  \/ Reflect!FindExisting(c) \/ Reflect!StoreInsight(c) \/ Reflect!Cut(c)

\* Every step of reflection keeps the cycles coherent.
LEMMA CyclesKept == CyclesInv /\ [Reflect!Next]_reflection => CyclesInv'
<1> SUFFICES ASSUME CyclesInv, [Reflect!Next]_reflection PROVE CyclesInv'
  OBVIOUS
<1>0. CyclesTyped
  BY DEF CyclesInv
<1>1. ASSUME NEW a \in Observations, Reflect!AddObservation(a) PROVE CyclesInv'
  <2>1. UNCHANGED <<count, cycle, started>> /\ present' = present \cup {a}
        /\ rows' = rows + 1 /\ born' = [born EXCEPT ![a] = rows']
    BY <1>1 DEF Reflect!AddObservation
  <2> QED BY <1>0, <2>1, OthersCoherent DEF CyclesInv, CyclesTyped
<1>o. CASE Reflect!StoreOthers
  <2>1. UNCHANGED <<count, cycle, started, present, born>> /\ rows' \in Nat
    BY <1>0, <1>o, ReflectionAssumption DEF Reflect!StoreOthers, CyclesTyped
  <2> QED BY <1>0, <2>1, OthersCoherent DEF CyclesInv, CyclesTyped
<1>2. ASSUME NEW c \in Cyclers, CyclerSteps(c) PROVE CyclesInv'
  <2>1. Only(c) /\ Coherent(c)'
    BY <1>2, CyclerCoherent DEF CyclerSteps
  <2>2. /\ present' = present /\ (started' = started \/ started' = started + 1)
        /\ born' = born /\ (rows' = rows \/ rows' = rows + 1)
    BY <1>2 DEF CyclerSteps, Reflect!Gather, Reflect!LoadPairEvidence, Reflect!StoreReflection,
       Reflect!ReadCounter, Reflect!WriteCounter, Reflect!FormClusters, Reflect!FindExisting,
       Reflect!StoreInsight, Reflect!Cut
  <2>3. started' \in Nat /\ started <= started'
    BY <1>0, <2>2 DEF CyclesTyped
  <2>4. \A d \in Cyclers : Coherent(d)'
    <3> SUFFICES ASSUME NEW d \in Cyclers, d # c PROVE Coherent(d)'
      BY <2>1
    <3>1. cycle'[d] = cycle[d]
      BY <2>1 DEF Only
    <3> QED BY <2>2, <2>3, <3>1, OthersCoherent
  <2>5. count' \in [Observations -> [Reflect!Role -> Nat]]
    <3>1. CASE Reflect!WriteCounter(c)
      <4>1. Counting(c)
        BY <3>1 DEF Reflect!WriteCounter, Counting
      <4>2. cycle[c].loaded \in [Reflect!Role -> Nat] /\ Reflect!Member(c) \in Observations
        BY <1>0, <4>1, MemberIn DEF CyclesTyped, CycleState
      <4>3. Reflect!RoleOf(cycle[c].pair) \in Reflect!Role
        BY DEF Reflect!RoleOf, Reflect!Role
      <4>4. [cycle[c].loaded EXCEPT ![Reflect!RoleOf(cycle[c].pair)] = Reflect!Raised(@)]
              \in [Reflect!Role -> Nat]
        BY <4>2, <4>3 DEF Reflect!Raised
      <4> QED BY <1>0, <3>1, <4>2, <4>4 DEF CyclesTyped, Reflect!WriteCounter
    <3>2. CASE ~Reflect!WriteCounter(c)
      BY <1>0, <1>2, <3>2 DEF CyclesTyped, CyclerSteps, Reflect!Gather, Reflect!LoadPairEvidence,
         Reflect!StoreReflection, Reflect!ReadCounter, Reflect!FormClusters,
         Reflect!FindExisting, Reflect!StoreInsight, Reflect!Cut
    <3> QED BY <3>1, <3>2
  <2> QED BY <1>0, <2>1, <2>2, <2>3, <2>4, <2>5 DEF CyclesInv, CyclesTyped, Only
<1>3. CASE UNCHANGED reflection
  BY <1>0, <1>3, OthersCoherent DEF CyclesInv, CyclesTyped, reflection
<1> QED BY <1>1, <1>o, <1>2, <1>3 DEF Reflect!Next, CyclerSteps

Record == [role : Reflect!Role \cup {"insight_support"}, sources : SUBSET Observations, cycle : Nat]

RecordsInv ==
  /\ IsFiniteSet(records) /\ records \subseteq Record
  /\ \A r \in records : /\ r.role \in Reflect!Role => r.sources \in Reflect!Pairs
                        /\ r.role \notin Reflect!Role => Cardinality(r.sources) >= MinCluster
                        /\ r.cycle \in 1 .. started

\* A cycle has a number of its own, and has recorded no pair it has yet to do.
Numbered ==
  /\ \A c, d \in Cyclers : /\ c # d
                           /\ cycle[c].pc # "idle" /\ cycle[d].pc # "idle"
                           => cycle[c].number # cycle[d].number
  /\ \A c \in Cyclers, r \in records :
       r.role \in Reflect!Role /\ cycle[c].pc # "idle" /\ r.cycle = cycle[c].number
         => r.sources \notin cycle[c].todo

\* A cycle that runs alone has only pairs to do that nobody has recorded.
Alone ==
  ~overlapped =>
    /\ \A c, d \in Cyclers : cycle[c].pc # "idle" /\ cycle[d].pc # "idle" => c = d
    /\ \A c \in Cyclers : \A p \in cycle[c].todo : ~Reflect!Reflected(p)
    /\ Reflect!ReflectedOnce

ReflectBounds ==
  started \in 0 .. MaxCycles /\ cuts \in 0 .. MaxCuts /\ overlapped \in BOOLEAN

\* The steps of c that add at most an insight and no pair to do.
Winds(c) ==
  /\ Only(c)
  /\ cycle'[c].todo \subseteq cycle[c].todo
  /\ cycle'[c].pc # "idle" => cycle[c].pc # "idle" /\ cycle'[c].number = cycle[c].number
  /\ overlapped' = overlapped /\ started' = started
  /\ \/ records' = records
     \/ cycle[c].pc = "insight" /\ records' = records \cup
          {[role |-> "insight_support", sources |-> cycle[c].pair, cycle |-> cycle[c].number]}

\* A cycle that leaves a cluster only has less to do.
LEMMA DropWinds ==
  ASSUME CyclesInv, NEW c \in Cyclers, NEW C, Reflect!Drop(c, C),
         cycle[c].pc \in {"clusters", "insight"}
  PROVE  /\ Only(c) /\ cycle'[c].todo \subseteq cycle[c].todo
         /\ cycle'[c].pc # "idle" => cycle'[c].number = cycle[c].number
<1>0. CyclesTyped
  BY DEF CyclesInv
<1>1. CASE cycle[c].clusters = {C}
  BY <1>0, <1>1, FinishDoes DEF Reflect!Drop, Ended, Reflect!Idle
<1>2. CASE cycle[c].clusters # {C}
  BY <1>0, <1>2, DropDoes
<1> QED BY <1>1, <1>2

\* Which actions of a cycle only leave it with less to do.
LEMMA CyclerWinds ==
  ASSUME CyclesInv, NEW c \in Cyclers,
         \/ Reflect!ReadCounter(c) \/ Reflect!WriteCounter(c) \/ Reflect!FormClusters(c)
         \/ Reflect!FindExisting(c) \/ Reflect!StoreInsight(c) \/ Reflect!Cut(c)
  PROVE  Winds(c)
<1>0. CyclesTyped
  BY DEF CyclesInv
<1>1. CASE Reflect!ReadCounter(c)
  <2>1. Reflect!Member(c) \in Observations
    BY <1>1, MemberIn DEF Counting, Reflect!ReadCounter
  <2>2. cycle[c].pc = "read" /\ UNCHANGED <<records, started, overlapped>>
    BY <1>1 DEF Reflect!ReadCounter
  <2> QED BY <1>0, <1>1, <2>1, <2>2, ReadDoes DEF Winds
<1>2. CASE Reflect!WriteCounter(c)
  <2>1. PICK rest : rest = cycle[c].bump \ {Reflect!Member(c)}
    OBVIOUS
  <2>2. cycle[c].pc = "write" /\ UNCHANGED <<records, started, overlapped>>
    BY <1>2 DEF Reflect!WriteCounter
  <2> QED BY <1>0, <1>2, <2>1, <2>2, WriteDoes DEF Winds
<1>3. CASE Reflect!FormClusters(c)
  <2>1. cycle[c].pc = "pairs" /\ UNCHANGED <<records, started, overlapped>>
    BY <1>3 DEF Reflect!FormClusters
  <2>2. CASE Ended(c)
    BY <2>1, <2>2 DEF Winds, Ended, Reflect!Idle
  <2>3. CASE ~Ended(c)
    BY <1>0, <1>3, <2>1, <2>3, FormDoes DEF Winds
  <2> QED BY <2>2, <2>3
<1>4. CASE Reflect!FindExisting(c)
  <2>1. PICK C \in cycle[c].clusters :
          \/ Reflect!Drop(c, C)
          \/ cycle' = [cycle EXCEPT ![c].pc = "insight", ![c].pair = C, ![c].bump = {}]
    BY <1>4 DEF Reflect!FindExisting
  <2>2. cycle[c].pc = "clusters" /\ UNCHANGED <<records, started, overlapped>>
    BY <1>4 DEF Reflect!FindExisting
  <2>3. C \in SUBSET Observations
    BY <1>0 DEF CyclesTyped, CycleState
  <2>4. CASE Reflect!Drop(c, C)
    BY <2>2, <2>4, DropWinds DEF Winds
  <2>5. CASE cycle' = [cycle EXCEPT ![c].pc = "insight", ![c].pair = C, ![c].bump = {}]
    BY <1>0, <2>2, <2>3, <2>5, TurnDoes DEF Winds
  <2> QED BY <2>1, <2>4, <2>5
<1>5. CASE Reflect!StoreInsight(c)
  <2>1. cycle[c].pc = "insight" /\ UNCHANGED <<started, overlapped>> /\ Reflect!Drop(c, cycle[c].pair)
        /\ records' = records \cup
             {[role |-> "insight_support", sources |-> cycle[c].pair, cycle |-> cycle[c].number]}
    BY <1>5 DEF Reflect!StoreInsight
  <2> QED BY <2>1, DropWinds DEF Winds
<1>6. CASE Reflect!Cut(c)
  BY <1>0, <1>6, FinishDoes DEF Reflect!Cut, Ended, Reflect!Idle, Winds
<1> QED BY <1>1, <1>2, <1>3, <1>4, <1>5, <1>6

ReflectInv == CyclesInv /\ RecordsInv /\ Numbered /\ Alone

\* A new insight is no pair's record: its sources are more than two.
LEMMA InsightAdds ==
  ASSUME ReflectInv, NEW c \in Cyclers, Winds(c)
  PROVE  /\ RecordsInv' /\ records \subseteq records'
         /\ \A r \in records' : r.role \in Reflect!Role => r \in records
         /\ \A r \in records' \ records : Cardinality(r.sources) >= MinCluster
<1>1. CASE records' = records
  BY <1>1 DEF ReflectInv, RecordsInv, Winds
<1>2. CASE cycle[c].pc = "insight" /\ records' = records \cup
             {[role |-> "insight_support", sources |-> cycle[c].pair, cycle |-> cycle[c].number]}
  <2> DEFINE new == [role |-> "insight_support", sources |-> cycle[c].pair, cycle |-> cycle[c].number]
  <2>1. Cardinality(cycle[c].pair) >= MinCluster /\ cycle[c].number \in 1 .. started
    BY <1>2 DEF ReflectInv, CyclesInv, Coherent
  <2>2. cycle[c].pair \in SUBSET Observations /\ cycle[c].number \in Nat
    BY DEF ReflectInv, CyclesInv, CyclesTyped, CycleState
  <2>3. new.role = "insight_support" /\ new.sources = cycle[c].pair /\ new.cycle = cycle[c].number
        /\ new \in Record /\ new.role \notin Reflect!Role
    BY <2>2 DEF Record, Reflect!Role
  <2> HIDE DEF new
  <2>4. records' = records \cup {new} /\ started' = started
    BY <1>2 DEF new, Winds
  <2>5. IsFiniteSet(records')
    BY <2>4, FS_AddElement DEF ReflectInv, RecordsInv
  <2>6. RecordsInv'
    BY <2>1, <2>3, <2>4, <2>5 DEF ReflectInv, RecordsInv
  <2> QED BY <2>1, <2>3, <2>4, <2>6
<1> QED BY <1>1, <1>2 DEF Winds

\* A cluster is large, and so never a pair.
LEMMA PairIsNoCluster ==
  ASSUME NEW p \in Reflect!Pairs, NEW C, Cardinality(C) >= MinCluster
  PROVE  C # p
<1>1. Cardinality(p) = 2
  BY PairIs
<1> QED BY <1>1, ReflectionAssumption

\* A cycle that only has less to do keeps the records, their numbers and their uniqueness.
LEMMA WindsKeeps ==
  ASSUME ReflectInv, NEW c \in Cyclers, Winds(c)
  PROVE  RecordsInv' /\ Numbered' /\ Alone'
<1>1. /\ RecordsInv' /\ records \subseteq records'
      /\ \A r \in records' : r.role \in Reflect!Role => r \in records
      /\ \A r \in records' \ records : Cardinality(r.sources) >= MinCluster
  BY InsightAdds
<1>2. /\ \A d \in Cyclers \ {c} : cycle'[d] = cycle[d]
      /\ \A d \in Cyclers : cycle'[d].todo \subseteq cycle[d].todo
      /\ \A d \in Cyclers : cycle'[d].pc # "idle" =>
           cycle[d].pc # "idle" /\ cycle'[d].number = cycle[d].number
  BY DEF Winds, Only
<1>3. Numbered'
  BY <1>1, <1>2 DEF ReflectInv, Numbered
<1>4. \A p : Reflect!Reflected(p)' => Reflect!Reflected(p)
  BY <1>1 DEF Reflect!Reflected
<1>5. Alone'
  <2> SUFFICES ASSUME ~overlapped
               PROVE  /\ \A d, e \in Cyclers : cycle'[d].pc # "idle" /\ cycle'[e].pc # "idle" => d = e
                      /\ \A d \in Cyclers : \A p \in cycle'[d].todo : ~Reflect!Reflected(p)'
                      /\ Reflect!ReflectedOnce'
    BY DEF Alone, Winds
  <2>1. \A r, t \in records : r.role \in Reflect!Role /\ r.sources = t.sources => r = t
    BY DEF ReflectInv, Alone, Reflect!ReflectedOnce
  <2>2. ASSUME NEW r \in records', NEW t \in records', r.role \in Reflect!Role, r.sources = t.sources
        PROVE  r = t
    <3>1. r \in records /\ r.sources \in Reflect!Pairs
      BY <1>1, <2>2 DEF ReflectInv, RecordsInv
    <3>2. t \in records
      BY <1>1, <2>2, <3>1, PairIsNoCluster
    <3> QED BY <2>1, <2>2, <3>1, <3>2
  <2>3. Reflect!ReflectedOnce'
    BY <2>2 DEF Reflect!ReflectedOnce
  <2> QED BY <1>2, <1>4, <2>3 DEF ReflectInv, Alone
<1> QED BY <1>1, <1>3, <1>5

\* A new cycle keeps the records, their numbers and their uniqueness.
LEMMA GatherKeeps ==
  ASSUME ReflectInv, NEW c \in Cyclers, Reflect!Gather(c)
  PROVE  RecordsInv' /\ Numbered' /\ Alone'
<1>0. CyclesTyped /\ started \in Nat
  BY DEF ReflectInv, CyclesInv, CyclesTyped
<1>1. /\ cycle[c].pc = "idle" /\ started' = started + 1 /\ records' = records
      /\ overlapped' = (overlapped \/ \E d \in Cyclers : cycle[d].pc # "idle")
  BY DEF Reflect!Gather
<1>2. cycle[c].todo = {}
  BY <1>1 DEF ReflectInv, CyclesInv, Coherent, Counting
<1>3. /\ \A d \in Cyclers \ {c} : cycle'[d] = cycle[d]
      /\ cycle'[c].todo = {} /\ cycle'[c].number = started + 1
  BY <1>0, <1>1, <1>2, GatherDoes DEF Only
<1>4. RecordsInv'
  BY <1>0, <1>1 DEF ReflectInv, RecordsInv
<1>5. Numbered'
  <2>1. \A d \in Cyclers \ {c} : cycle[d].pc # "idle" => cycle[d].number \in 1 .. started
    BY DEF ReflectInv, CyclesInv, Coherent
  <2>2. \A d \in Cyclers \ {c} : cycle[d].pc # "idle" => cycle[d].number # started + 1
    BY <1>0, <2>1
  <2> QED BY <1>1, <1>3, <2>2 DEF ReflectInv, Numbered
<1>6. Alone'
  <2> SUFFICES ASSUME ~overlapped'
               PROVE  /\ \A d, e \in Cyclers : cycle'[d].pc # "idle" /\ cycle'[e].pc # "idle" => d = e
                      /\ \A d \in Cyclers : \A p \in cycle'[d].todo : ~Reflect!Reflected(p)'
                      /\ Reflect!ReflectedOnce'
    BY DEF Alone
  <2>1. ~overlapped /\ \A d \in Cyclers : cycle[d].pc = "idle"
    BY <1>1, Zenon
  <2> QED BY <1>1, <1>3, <2>1 DEF ReflectInv, Alone, Reflect!Reflected, Reflect!ReflectedOnce
<1> QED BY <1>4, <1>5, <1>6

\* Loading the evidence keeps the records, their numbers and their uniqueness.
LEMMA LoadKeeps ==
  ASSUME ReflectInv, NEW c \in Cyclers, Reflect!LoadPairEvidence(c)
  PROVE  RecordsInv' /\ Numbered' /\ Alone'
<1> DEFINE left == {p \in Reflect!Pairs : p \subseteq cycle[c].seen /\ ~Reflect!Reflected(p)}
<1>0. CyclesTyped
  BY DEF ReflectInv, CyclesInv
<1>1. cycle[c].pc = "evidence" /\ UNCHANGED <<records, started, overlapped>>
  BY DEF Reflect!LoadPairEvidence
<1>2. \A p \in left : ~Reflect!Reflected(p)
  OBVIOUS
<1> HIDE DEF left
<1>3. /\ \A d \in Cyclers \ {c} : cycle'[d] = cycle[d]
      /\ cycle'[c].todo = left /\ cycle'[c].number = cycle[c].number /\ cycle'[c].pc # "idle"
  BY <1>0, LoadDoes DEF Only, left
<1>4. RecordsInv'
  BY <1>1 DEF ReflectInv, RecordsInv
<1>5. Numbered'
  <2>1. \A r \in records : r.role \in Reflect!Role => r.sources \notin left
    BY <1>2 DEF Reflect!Reflected
  <2> QED BY <1>1, <1>3, <2>1 DEF ReflectInv, Numbered
<1>6. Alone'
  BY <1>1, <1>2, <1>3 DEF ReflectInv, Alone, Reflect!Reflected, Reflect!ReflectedOnce
<1> QED BY <1>4, <1>5, <1>6

\* A pair agrees or contradicts.
LEMMA RoleOfIs == \A p : Reflect!RoleOf(p) \in Reflect!Role
  BY DEF Reflect!RoleOf, Reflect!Role

\* The record of a pair is a new one, with the role and the sources of the pair.
LEMMA StoreAdds ==
  ASSUME ReflectInv, NEW c \in Cyclers, Reflect!StoreReflection(c)
  PROVE  \E p \in cycle[c].todo, new \in Record \ records :
           /\ new.role = Reflect!RoleOf(p) /\ new.sources = p /\ new.cycle = cycle[c].number
           /\ p \in Reflect!Pairs /\ records' = records \cup {new}
           /\ Only(c) /\ cycle'[c].todo = cycle[c].todo \ {p} /\ cycle'[c].number = cycle[c].number
           /\ cycle'[c].pair = p /\ cycle'[c].bump = p /\ cycle'[c].pc = "read"
           /\ cycle'[c].mine = (IF p \in Alike THEN cycle[c].mine \cup {p} ELSE cycle[c].mine)
           /\ cycle'[c].seen = cycle[c].seen /\ cycle[c].pc = "pairs"
           /\ UNCHANGED <<present, count, started, cuts, overlapped>>
<1>0. CyclesTyped
  BY DEF ReflectInv, CyclesInv
<1>1. PICK p \in cycle[c].todo :
        /\ Only(c)
        /\ cycle'[c].pc = "read" /\ cycle'[c].todo = cycle[c].todo \ {p}
        /\ cycle'[c].mine = (IF p \in Alike THEN cycle[c].mine \cup {p} ELSE cycle[c].mine)
        /\ cycle'[c].pair = p /\ cycle'[c].bump = p /\ cycle'[c].number = cycle[c].number
        /\ cycle'[c].seen = cycle[c].seen
        /\ records' = records \cup
             {[role |-> Reflect!RoleOf(p), sources |-> p, cycle |-> cycle[c].number]}
  BY <1>0, StoreDoes
<1> DEFINE new == [role |-> Reflect!RoleOf(p), sources |-> p, cycle |-> cycle[c].number]
<1>2. p \in Reflect!Pairs /\ p \in SUBSET Observations /\ cycle[c].number \in Nat
  BY <1>0, PairIs DEF CyclesTyped, CycleState
<1>3. new \in Record /\ new.role \in Reflect!Role /\ new.role = Reflect!RoleOf(p)
      /\ new.sources = p /\ new.cycle = cycle[c].number
  BY <1>2, RoleOfIs DEF Record
<1>4. records' = records \cup {new}
  BY <1>1
<1> HIDE DEF new
<1>5. cycle[c].pc = "pairs" /\ UNCHANGED <<present, count, started, cuts, overlapped>>
  BY DEF Reflect!StoreReflection
<1>6. new \notin records
  BY <1>3, <1>5 DEF ReflectInv, Numbered
<1> QED BY <1>1, <1>2, <1>3, <1>4, <1>5, <1>6

\* Storing a reflection keeps the records, their numbers and their uniqueness.
LEMMA StoreReflectionKeeps ==
  ASSUME ReflectInv, NEW c \in Cyclers, Reflect!StoreReflection(c)
  PROVE  RecordsInv' /\ Numbered' /\ Alone'
<1>1. PICK p \in cycle[c].todo, new \in Record \ records :
        /\ new.role = Reflect!RoleOf(p) /\ new.sources = p /\ new.cycle = cycle[c].number
        /\ p \in Reflect!Pairs /\ records' = records \cup {new}
        /\ Only(c) /\ cycle'[c].todo = cycle[c].todo \ {p} /\ cycle'[c].number = cycle[c].number
        /\ cycle'[c].pc = "read" /\ cycle[c].pc = "pairs"
        /\ UNCHANGED <<started, overlapped>>
  BY StoreAdds
<1>2. cycle[c].number \in 1 .. started /\ new.role \in Reflect!Role
  BY <1>1, RoleOfIs DEF ReflectInv, CyclesInv, Coherent
<1>3. \A d \in Cyclers \ {c} : cycle'[d] = cycle[d]
  BY <1>1 DEF Only
<1>4. RecordsInv'
  BY <1>1, <1>2, FS_AddElement DEF ReflectInv, RecordsInv
<1>5. Numbered'
  BY <1>1, <1>2, <1>3 DEF ReflectInv, Numbered
<1>6. Alone'
  <2> SUFFICES ASSUME ~overlapped
               PROVE  /\ \A d, e \in Cyclers : cycle'[d].pc # "idle" /\ cycle'[e].pc # "idle" => d = e
                      /\ \A d \in Cyclers : \A q \in cycle'[d].todo : ~Reflect!Reflected(q)'
                      /\ Reflect!ReflectedOnce'
    BY <1>1 DEF Alone
  <2>1. ~Reflect!Reflected(p)
    BY DEF ReflectInv, Alone
  <2>2. \A q : Reflect!Reflected(q)' => Reflect!Reflected(q) \/ q = p
    BY <1>1 DEF Reflect!Reflected
  <2>3. \A d \in Cyclers \ {c} : cycle[d].todo = {}
    BY <1>1 DEF ReflectInv, Alone, CyclesInv, Coherent, Counting
  <2>4. ASSUME NEW r \in records', NEW t \in records', r.role \in Reflect!Role, r.sources = t.sources
        PROVE  r = t
    <3>1. CASE r \in records /\ t \in records
      BY <2>4, <3>1 DEF ReflectInv, Alone, Reflect!ReflectedOnce
    <3>2. CASE r = new /\ t \in records
      <4>1. t.role \in Reflect!Role
        BY <1>1, <2>4, <3>2, PairIsNoCluster DEF ReflectInv, RecordsInv
      <4> QED BY <1>1, <2>1, <2>4, <3>2, <4>1 DEF Reflect!Reflected
    <3>3. CASE r \in records /\ t = new
      BY <1>1, <2>1, <2>4, <3>3 DEF Reflect!Reflected
    <3> QED BY <1>1, <3>1, <3>2, <3>3
  <2> QED BY <1>1, <1>3, <2>2, <2>3, <2>4 DEF ReflectInv, Alone, Reflect!ReflectedOnce
<1> QED BY <1>4, <1>5, <1>6

\* Every step of reflection keeps its records, their numbers and their uniqueness.
LEMMA ReflectInvKept == ReflectInv /\ [Reflect!Next]_reflection => ReflectInv'
<1> SUFFICES ASSUME ReflectInv, [Reflect!Next]_reflection PROVE ReflectInv'
  OBVIOUS
<1>1. CyclesInv'
  BY CyclesKept DEF ReflectInv
<1>2. ASSUME UNCHANGED <<records, cycle, started, overlapped>>
      PROVE  RecordsInv' /\ Numbered' /\ Alone'
  BY <1>2 DEF ReflectInv, RecordsInv, Numbered, Alone, Reflect!Reflected, Reflect!ReflectedOnce
<1>3. ASSUME NEW c \in Cyclers, CyclerSteps(c) PROVE RecordsInv' /\ Numbered' /\ Alone'
  <2>1. CASE Reflect!Gather(c)
    BY <2>1, GatherKeeps
  <2>2. CASE Reflect!LoadPairEvidence(c)
    BY <2>2, LoadKeeps
  <2>3. CASE Reflect!StoreReflection(c)
    BY <2>3, StoreReflectionKeeps
  <2>4. CASE \/ Reflect!ReadCounter(c) \/ Reflect!WriteCounter(c) \/ Reflect!FormClusters(c)
             \/ Reflect!FindExisting(c) \/ Reflect!StoreInsight(c) \/ Reflect!Cut(c)
    BY <2>4, CyclerWinds, WindsKeeps DEF ReflectInv
  <2> QED BY <1>3, <2>1, <2>2, <2>3, <2>4 DEF CyclerSteps
<1>4. (\E c \in Cyclers : CyclerSteps(c)) \/ UNCHANGED <<records, cycle, started, overlapped>>
  BY DEF Reflect!Next, CyclerSteps, Reflect!AddObservation, Reflect!StoreOthers, reflection
<1> QED BY <1>1, <1>2, <1>3, <1>4 DEF ReflectInv

\* Every step cuts one cycle short at most, below the bound.
LEMMA CutsCounted ==
  ASSUME [Reflect!Next]_reflection
  PROVE  cuts' = cuts \/ (cuts < MaxCuts /\ cuts' = cuts + 1)
<1>1. ASSUME NEW c \in Cyclers, CyclerSteps(c) PROVE cuts' = cuts \/ (cuts < MaxCuts /\ cuts' = cuts + 1)
  <2>1. CASE Reflect!Gather(c)
    BY <2>1 DEF Reflect!Gather
  <2>2. CASE Reflect!Cut(c)
    BY <2>2 DEF Reflect!Cut
  <2>3. CASE ~Reflect!Gather(c) /\ ~Reflect!Cut(c)
    BY <1>1, <2>3 DEF CyclerSteps, Reflect!LoadPairEvidence, Reflect!StoreReflection,
       Reflect!ReadCounter, Reflect!WriteCounter, Reflect!FormClusters, Reflect!FindExisting,
       Reflect!StoreInsight
  <2> QED BY <2>1, <2>2, <2>3
<1>2. (\E c \in Cyclers : CyclerSteps(c)) \/ cuts' = cuts
  BY DEF Reflect!Next, CyclerSteps, Reflect!AddObservation, Reflect!StoreOthers, reflection
<1> QED BY <1>1, <1>2

\* Every step of reflection keeps the bounds of its counters.
LEMMA BoundsKept == ReflectBounds /\ [Reflect!Next]_reflection => ReflectBounds'
<1> SUFFICES ASSUME ReflectBounds, [Reflect!Next]_reflection PROVE ReflectBounds'
  OBVIOUS
<1> USE DEF Reflect!AddObservation, Reflect!StoreOthers, Reflect!Gather, Reflect!LoadPairEvidence,
    Reflect!StoreReflection, Reflect!ReadCounter, Reflect!WriteCounter, Reflect!FormClusters,
    Reflect!FindExisting, Reflect!StoreInsight, Reflect!Cut
<1>1. \/ UNCHANGED <<started, overlapped>>
      \/ /\ started < MaxCycles /\ started' = started + 1
         /\ overlapped' = (overlapped \/ \E d \in Cyclers : cycle[d].pc # "idle")
  BY DEF Reflect!Next, reflection
<1>2. cuts' = cuts \/ (cuts < MaxCuts /\ cuts' = cuts + 1)
  BY CutsCounted
<1>3. started' \in 0 .. MaxCycles
  BY <1>1, ReflectionAssumption DEF ReflectBounds
<1>4. cuts' \in 0 .. MaxCuts
  BY <1>2, ReflectionAssumption DEF ReflectBounds
<1>5. overlapped' \in BOOLEAN
  BY <1>1, Zenon DEF ReflectBounds
<1> QED BY <1>3, <1>4, <1>5, Zenon DEF ReflectBounds

-----------------------------------------------------------------------------
(* What the counters claim: what is still to be counted for a record is kept  *)
(* free for it.                                                                *)

Recorded(a, r) == {x \in records : x.role = r /\ a \in x.sources}
Bumping(a, r)  == {d \in Cyclers : a \in cycle[d].bump /\ Reflect!RoleOf(cycle[d].pair) = r}

Backed(n, a, r) == n + Cardinality(Bumping(a, r)) <= Cardinality(Recorded(a, r))

CountInv ==
  /\ \A a \in Observations, r \in Reflect!Role : Backed(count[a][r], a, r)
  /\ \A c \in Cyclers : cycle[c].pc = "write" =>
       \A r \in Reflect!Role : Backed(cycle[c].loaded[r], Reflect!Member(c), r)

\* Fewer to be counted and more recorded leave a count backed.
LEMMA SmallerBacks ==
  ASSUME NEW B, NEW C, NEW R, NEW S, IsFiniteSet(B), IsFiniteSet(S), C \subseteq B, R \subseteq S,
         NEW n \in Nat, n + Cardinality(B) <= Cardinality(R)
  PROVE  n + Cardinality(C) <= Cardinality(S)
<1>1. Cardinality(C) \in Nat /\ Cardinality(B) \in Nat /\ Cardinality(C) <= Cardinality(B)
  BY FS_Subset, FS_CardinalityType
<1>2. Cardinality(R) \in Nat /\ Cardinality(S) \in Nat /\ Cardinality(R) <= Cardinality(S)
  BY FS_Subset, FS_CardinalityType
<1> QED BY <1>1, <1>2

\* What is recorded of an observation and who counts it are finite.
LEMMA CountsFinite ==
  ASSUME ReflectInv
  PROVE  \A a, r : /\ IsFiniteSet(Recorded(a, r)) /\ IsFiniteSet(Bumping(a, r))
                   /\ Cardinality(Recorded(a, r)) \in Nat /\ Cardinality(Bumping(a, r)) \in Nat
<1> SUFFICES ASSUME NEW a, NEW r
             PROVE  /\ IsFiniteSet(Recorded(a, r)) /\ IsFiniteSet(Bumping(a, r))
                    /\ Cardinality(Recorded(a, r)) \in Nat /\ Cardinality(Bumping(a, r)) \in Nat
  OBVIOUS
<1>1. Recorded(a, r) \subseteq records /\ Bumping(a, r) \subseteq Cyclers
  BY DEF Recorded, Bumping
<1>2. IsFiniteSet(records) /\ IsFiniteSet(Cyclers)
  BY ReflectionAssumption DEF ReflectInv, RecordsInv
<1> QED BY <1>1, <1>2, FS_Subset, FS_CardinalityType

\* A step but StoreReflection adds nothing to be counted.
Keeps(c) ==
  /\ records \subseteq records'
  /\ \A d \in Cyclers : /\ cycle'[d].bump \subseteq cycle[d].bump
                        /\ cycle'[d].bump # {} => cycle'[d].pair = cycle[d].pair

\* When records stay and nobody begins to count, a count stays backed.
LEMMA KeepsBacks ==
  ASSUME ReflectInv, ReflectInv', NEW c, Keeps(c), NEW n \in Nat, NEW a, NEW r, Backed(n, a, r)
  PROVE  Backed(n, a, r)'
<1>1. Bumping(a, r)' \subseteq Bumping(a, r)
  BY DEF Keeps, Bumping
<1>2. Recorded(a, r) \subseteq Recorded(a, r)'
  BY DEF Keeps, Recorded
<1>3. IsFiniteSet(Bumping(a, r)) /\ IsFiniteSet(Recorded(a, r)')
  BY CountsFinite, ReflectionAssumption, FS_Subset DEF ReflectInv, RecordsInv, Recorded
<1>4. n + Cardinality(Bumping(a, r)') <= Cardinality(Recorded(a, r)')
  BY <1>1, <1>2, <1>3, SmallerBacks DEF Backed
<1> QED BY <1>4 DEF Backed

\* A reflection that is stored backs the counts it is about to raise.
LEMMA StoreBacks ==
  ASSUME ReflectInv, ReflectInv', NEW c \in Cyclers, Reflect!StoreReflection(c),
         NEW n \in Nat, NEW a, NEW r, Backed(n, a, r)
  PROVE  Backed(n, a, r)'
<1>1. PICK p \in cycle[c].todo, new \in Record \ records :
        /\ new.role = Reflect!RoleOf(p) /\ new.sources = p
        /\ records' = records \cup {new}
        /\ Only(c) /\ cycle'[c].pair = p /\ cycle'[c].bump = p /\ cycle[c].pc = "pairs"
  BY StoreAdds
<1>2. \A d \in Cyclers \ {c} : cycle'[d] = cycle[d]
  BY <1>1 DEF Only
<1>3. cycle[c].bump = {}
  BY <1>1 DEF ReflectInv, CyclesInv, Coherent, Counting
<1>4. CASE a \in p /\ Reflect!RoleOf(p) = r
  <2>1. Bumping(a, r)' = Bumping(a, r) \cup {c} /\ c \notin Bumping(a, r)
    BY <1>1, <1>2, <1>3, <1>4 DEF Bumping
  <2>2. Recorded(a, r)' = Recorded(a, r) \cup {new} /\ new \notin Recorded(a, r)
    BY <1>1, <1>4 DEF Recorded
  <2>3. Cardinality(Bumping(a, r)') = Cardinality(Bumping(a, r)) + 1
    BY <2>1, CountsFinite, FS_AddElement
  <2>4. Cardinality(Recorded(a, r)') = Cardinality(Recorded(a, r)) + 1
    BY <2>2, CountsFinite, FS_AddElement
  <2> QED BY <2>3, <2>4, CountsFinite DEF Backed
<1>5. CASE ~(a \in p /\ Reflect!RoleOf(p) = r)
  <2>1. Bumping(a, r)' = Bumping(a, r)
    BY <1>1, <1>2, <1>3, <1>5 DEF Bumping
  <2>2. Recorded(a, r)' = Recorded(a, r)
    BY <1>1, <1>5 DEF Recorded
  <2> QED BY <2>1, <2>2 DEF Backed
<1> QED BY <1>4, <1>5

\* The role is a function of the pair.
LEMMA RoleTold == \A p, q : p = q => Reflect!RoleOf(p) = Reflect!RoleOf(q)
  OBVIOUS

\* The steps but StoreReflection and WriteCounter: no counter changes, and what
\* a cycler has loaded is of the memory it still is at.
CountStays(c) ==
  /\ Keeps(c) /\ count' = count
  /\ \A d \in Cyclers : cycle'[d].pc = "write" =>
       /\ cycle'[d].bump = cycle[d].bump
       /\ \/ cycle[d].pc = "write" /\ cycle'[d].loaded = cycle[d].loaded
          \/ d = c /\ cycle[d].pc = "read" /\ cycle'[d].loaded = count[Reflect!Member(d)]

\* The next observation to count stays the same while the rest of them does.
LEMMA MemberStays ==
  ASSUME NEW d, cycle'[d].bump = cycle[d].bump
  PROVE  Reflect!Member(d)' = Reflect!Member(d)
  BY DEF Reflect!Member

\* When a step counts: what a cycle must not touch for the counters to stay.
LEMMA OthersWait ==
  ASSUME NEW c \in Cyclers, Only(c), records \subseteq records', count' = count,
         cycle'[c].pc # "write", cycle'[c].bump \subseteq cycle[c].bump,
         cycle'[c].bump # {} => cycle'[c].pair = cycle[c].pair
  PROVE  CountStays(c)
  BY DEF CountStays, Keeps, Only

\* A cycle that leaves a cluster is not counting.
LEMMA DropWaits ==
  ASSUME CyclesInv, NEW c \in Cyclers, NEW C, Reflect!Drop(c, C),
         cycle[c].pc \in {"clusters", "insight"}
  PROVE  Only(c) /\ cycle'[c].bump = {} /\ cycle'[c].pc # "write"
<1>0. CyclesTyped /\ cycle[c].bump = {}
  BY DEF CyclesInv, Coherent, Counting
<1>1. CASE cycle[c].clusters = {C}
  BY <1>0, <1>1, FinishDoes DEF Reflect!Drop, Ended, Reflect!Idle
<1>2. CASE cycle[c].clusters # {C}
  BY <1>0, <1>2, DropDoes
<1> QED BY <1>1, <1>2

\* Which actions of a cycle leave the counters alone.
LEMMA CyclerWaits ==
  ASSUME ReflectInv, NEW c \in Cyclers,
         \/ Reflect!Gather(c) \/ Reflect!LoadPairEvidence(c) \/ Reflect!ReadCounter(c)
         \/ Reflect!FormClusters(c) \/ Reflect!FindExisting(c) \/ Reflect!StoreInsight(c)
         \/ Reflect!Cut(c)
  PROVE  CountStays(c)
<1>0. CyclesInv /\ CyclesTyped
  BY DEF ReflectInv, CyclesInv
<1>1. CASE Reflect!Gather(c)
  BY <1>0, <1>1, GatherDoes, OthersWait DEF Reflect!Gather
<1>2. CASE Reflect!LoadPairEvidence(c)
  <2>1. PICK left : left = {p \in Reflect!Pairs : p \subseteq cycle[c].seen /\ ~Reflect!Reflected(p)}
    OBVIOUS
  <2>2. records' = records /\ count' = count
    BY <1>2 DEF Reflect!LoadPairEvidence
  <2> QED BY <1>0, <1>2, <2>1, <2>2, LoadDoes, OthersWait
<1>3. CASE Reflect!ReadCounter(c)
  <2>1. Reflect!Member(c) \in Observations
    BY <1>0, <1>3, MemberIn DEF Counting, Reflect!ReadCounter
  <2>2. cycle[c].pc = "read" /\ UNCHANGED <<records, count>>
    BY <1>3 DEF Reflect!ReadCounter
  <2> QED BY <1>0, <1>3, <2>1, <2>2, ReadDoes DEF CountStays, Keeps, Only
<1>4. CASE Reflect!FormClusters(c)
  <2>1. cycle[c].pc = "pairs" /\ UNCHANGED <<records, count>>
    BY <1>4 DEF Reflect!FormClusters
  <2>2. CASE Ended(c)
    BY <2>1, <2>2, OthersWait DEF Ended, Reflect!Idle
  <2>3. CASE ~Ended(c)
    BY <1>0, <1>4, <2>1, <2>3, FormDoes, OthersWait
  <2> QED BY <2>2, <2>3
<1>5. CASE Reflect!FindExisting(c)
  <2>1. PICK C \in cycle[c].clusters :
          \/ Reflect!Drop(c, C)
          \/ cycle' = [cycle EXCEPT ![c].pc = "insight", ![c].pair = C, ![c].bump = {}]
    BY <1>5 DEF Reflect!FindExisting
  <2>2. cycle[c].pc = "clusters" /\ UNCHANGED <<records, count>>
    BY <1>5 DEF Reflect!FindExisting
  <2>3. C \in SUBSET Observations
    BY <1>0 DEF CyclesTyped, CycleState
  <2>4. CASE Reflect!Drop(c, C)
    BY <1>0, <2>2, <2>4, DropWaits, OthersWait
  <2>5. CASE cycle' = [cycle EXCEPT ![c].pc = "insight", ![c].pair = C, ![c].bump = {}]
    BY <1>0, <2>2, <2>3, <2>5, TurnDoes, OthersWait
  <2> QED BY <2>1, <2>4, <2>5
<1>6. CASE Reflect!StoreInsight(c)
  <2>1. cycle[c].pc = "insight" /\ count' = count /\ Reflect!Drop(c, cycle[c].pair)
        /\ records \subseteq records'
    BY <1>6 DEF Reflect!StoreInsight
  <2> QED BY <1>0, <2>1, DropWaits, OthersWait
<1>7. CASE Reflect!Cut(c)
  <2>1. Ended(c) /\ records' = records /\ count' = count
    BY <1>0, <1>7, FinishDoes DEF Reflect!Cut
  <2> QED BY <2>1, OthersWait DEF Ended, Reflect!Idle
<1> QED BY <1>1, <1>2, <1>3, <1>4, <1>5, <1>6, <1>7

\* Counters are numbers, in the database and as a cycle loaded them.
LEMMA CountsTyped ==
  ASSUME ReflectInv
  PROVE  /\ \A a \in Observations, r \in Reflect!Role : count[a][r] \in Nat
         /\ \A c \in Cyclers, r \in Reflect!Role : cycle[c].loaded[r] \in Nat
         /\ \A c \in Cyclers : cycle[c].pc \in {"read", "write"} => Reflect!Member(c) \in Observations
  BY MemberIn DEF ReflectInv, CyclesInv, CyclesTyped, CycleState, Counting

\* A cycle that leaves the counters alone keeps them backed.
LEMMA WaitsCounts ==
  ASSUME ReflectInv, ReflectInv', CountInv, NEW c \in Cyclers, CountStays(c)
  PROVE  CountInv'
<1>1. \A a \in Observations, r \in Reflect!Role : Backed(count[a][r], a, r)'
  <2> SUFFICES ASSUME NEW a \in Observations, NEW r \in Reflect!Role PROVE Backed(count[a][r], a, r)'
    OBVIOUS
  <2>1. PICK n \in Nat : n = count[a][r]
    BY CountsTyped
  <2>2. Backed(n, a, r)
    BY <2>1 DEF CountInv
  <2>3. Backed(n, a, r)' /\ count'[a][r] = n
    BY <2>1, <2>2, KeepsBacks DEF CountStays
  <2> QED BY <2>3 DEF Backed
<1>2. ASSUME NEW d \in Cyclers, cycle'[d].pc = "write", NEW r \in Reflect!Role
      PROVE  Backed(cycle[d].loaded[r], Reflect!Member(d), r)'
  <2>1. cycle[d].pc \in {"read", "write"} /\ Reflect!Member(d)' = Reflect!Member(d)
    BY <1>2, MemberStays DEF CountStays
  <2>2. PICK a \in Observations : a = Reflect!Member(d)
    BY <2>1, CountsTyped
  <2>3. PICK n \in Nat : n = cycle'[d].loaded[r] /\ Backed(n, a, r)
    BY <1>2, <2>2, CountsTyped DEF CountStays, CountInv
  <2>4. Backed(n, a, r)'
    BY <2>3, KeepsBacks DEF CountStays
  <2> QED BY <2>1, <2>2, <2>3, <2>4 DEF Backed
<1> QED BY <1>1, <1>2 DEF CountInv

\* Storing a reflection keeps the counters backed.
LEMMA StoreCounts ==
  ASSUME ReflectInv, ReflectInv', CountInv, NEW c \in Cyclers, Reflect!StoreReflection(c)
  PROVE  CountInv'
<1>1. count' = count /\ Only(c) /\ cycle'[c].pc = "read"
  BY StoreAdds
<1>2. \A a \in Observations, r \in Reflect!Role : Backed(count[a][r], a, r)'
  <2> SUFFICES ASSUME NEW a \in Observations, NEW r \in Reflect!Role PROVE Backed(count[a][r], a, r)'
    OBVIOUS
  <2>1. PICK n \in Nat : n = count[a][r]
    BY CountsTyped
  <2>2. Backed(n, a, r)
    BY <2>1 DEF CountInv
  <2>3. Backed(n, a, r)' /\ count'[a][r] = n
    BY <1>1, <2>1, <2>2, StoreBacks
  <2> QED BY <2>3 DEF Backed
<1>3. ASSUME NEW d \in Cyclers, cycle'[d].pc = "write", NEW r \in Reflect!Role
      PROVE  Backed(cycle[d].loaded[r], Reflect!Member(d), r)'
  <2>1. cycle'[d] = cycle[d]
    BY <1>1, <1>3 DEF Only
  <2>2. Reflect!Member(d)' = Reflect!Member(d)
    BY <2>1, MemberStays
  <2>3. PICK a \in Observations : a = Reflect!Member(d)
    BY <1>3, <2>1, CountsTyped
  <2>4. PICK n \in Nat : n = cycle[d].loaded[r] /\ Backed(n, a, r)
    BY <1>3, <2>1, <2>3, CountsTyped DEF CountInv
  <2>5. Backed(n, a, r)'
    BY <2>4, StoreBacks
  <2> QED BY <2>1, <2>2, <2>3, <2>4, <2>5 DEF Backed
<1> QED BY <1>2, <1>3 DEF CountInv

\* What a cycler writes is counted for its record, which was kept free for it.
LEMMA WriteCounts ==
  ASSUME ReflectInv, ReflectInv', CountInv, NEW c \in Cyclers, Reflect!WriteCounter(c)
  PROVE  CountInv'
<1>0. cycle[c].pc = "write" /\ records' = records /\ CyclesInv /\ CyclesTyped
  BY DEF Reflect!WriteCounter, ReflectInv, CyclesInv
<1>1. PICK m \in Observations, role \in Reflect!Role :
        m = Reflect!Member(c) /\ m \in cycle[c].bump /\ role = Reflect!RoleOf(cycle[c].pair)
  BY <1>0, MemberIn, RoleOfIs DEF Counting
<1>2. /\ Only(c) /\ cycle'[c].bump = cycle[c].bump \ {m} /\ cycle'[c].pair = cycle[c].pair
      /\ cycle'[c].pc # "write"
  BY <1>0, <1>1, WriteDoes
<1>3. count' = [count EXCEPT ![m] = [cycle[c].loaded EXCEPT ![role] = cycle[c].loaded[role] + 1]]
  BY <1>1 DEF Reflect!WriteCounter, Reflect!Raised
<1>4. /\ \A r \in Reflect!Role : count'[m][r] = (IF r = role THEN cycle[c].loaded[r] + 1 ELSE cycle[c].loaded[r])
      /\ \A a \in Observations \ {m} : count'[a] = count[a]
  <2>1. /\ count \in [Observations -> [Reflect!Role -> Nat]]
        /\ cycle[c].loaded \in [Reflect!Role -> Nat]
    BY <1>0 DEF CyclesTyped, CycleState
  <2> QED BY <1>1, <1>3, <2>1
<1>5. Keeps(c)
  BY <1>0, <1>1, <1>2 DEF Keeps, Only
<1>6. Bumping(m, role)' = Bumping(m, role) \ {c} /\ c \in Bumping(m, role)
  BY <1>1, <1>2 DEF Bumping, Only
<1>7. Recorded(m, role)' = Recorded(m, role)
  BY <1>0 DEF Recorded
<1>8. ASSUME NEW a \in Observations, NEW r \in Reflect!Role PROVE Backed(count[a][r], a, r)'
  <2>1. CASE a = m /\ r = role
    <3>1. PICK n \in Nat : n = cycle[c].loaded[role] /\ Backed(n, m, role)
      BY <1>0, <1>1, CountsTyped DEF CountInv
    <3>2. Cardinality(Bumping(m, role)') = Cardinality(Bumping(m, role)) - 1
      BY <1>6, CountsFinite, FS_RemoveElement
    <3>3. n + 1 + Cardinality(Bumping(m, role)') <= Cardinality(Recorded(m, role)')
      BY <1>7, <3>1, <3>2, CountsFinite DEF Backed
    <3>4. count'[m][role] = n + 1
      BY <1>1, <1>4, <3>1
    <3> QED BY <2>1, <3>3, <3>4 DEF Backed
  <2>2. CASE a = m /\ r # role
    <3>1. PICK n \in Nat : n = cycle[c].loaded[r] /\ Backed(n, m, r)
      BY <1>0, <1>1, CountsTyped DEF CountInv
    <3>2. Backed(n, m, r)' /\ count'[m][r] = n
      BY <1>1, <1>4, <1>5, <2>2, <3>1, KeepsBacks
    <3> QED BY <2>2, <3>2 DEF Backed
  <2>3. CASE a # m
    <3>1. PICK n \in Nat : n = count[a][r] /\ Backed(n, a, r)
      BY CountsTyped DEF CountInv
    <3>2. Backed(n, a, r)' /\ count'[a][r] = n
      BY <1>4, <1>5, <2>3, <3>1, KeepsBacks
    <3> QED BY <3>2 DEF Backed
  <2> QED BY <2>1, <2>2, <2>3
<1>9. ASSUME NEW d \in Cyclers, cycle'[d].pc = "write", NEW r \in Reflect!Role
      PROVE  Backed(cycle[d].loaded[r], Reflect!Member(d), r)'
  <2>1. cycle'[d] = cycle[d]
    BY <1>2, <1>9 DEF Only
  <2>2. Reflect!Member(d)' = Reflect!Member(d)
    BY <2>1, MemberStays
  <2>3. PICK a \in Observations : a = Reflect!Member(d)
    BY <1>9, <2>1, CountsTyped
  <2>4. PICK n \in Nat : n = cycle[d].loaded[r] /\ Backed(n, a, r)
    BY <1>9, <2>1, <2>3, CountsTyped DEF CountInv
  <2>5. Backed(n, a, r)'
    BY <1>5, <2>4, KeepsBacks
  <2> QED BY <2>1, <2>2, <2>3, <2>4, <2>5 DEF Backed
<1> QED BY <1>8, <1>9 DEF CountInv

\* Every step of reflection keeps the counters backed by records.
LEMMA CountsKept ==
  ReflectInv /\ ReflectInv' /\ CountInv /\ [Reflect!Next]_reflection => CountInv'
<1> SUFFICES ASSUME ReflectInv, ReflectInv', CountInv, [Reflect!Next]_reflection PROVE CountInv'
  OBVIOUS
<1>1. CASE UNCHANGED <<records, count, cycle>>
  <2>1. \A c \in Cyclers : Reflect!Member(c)' = Reflect!Member(c)
    BY <1>1, MemberStays
  <2>2. \A a, r : Bumping(a, r)' = Bumping(a, r) /\ Recorded(a, r)' = Recorded(a, r)
    BY <1>1 DEF Bumping, Recorded
  <2> QED BY <1>1, <2>1, <2>2 DEF CountInv, Backed
<1>2. ASSUME NEW c \in Cyclers, CyclerSteps(c) PROVE CountInv'
  <2>1. CASE Reflect!StoreReflection(c)
    BY <2>1, StoreCounts
  <2>2. CASE Reflect!WriteCounter(c)
    BY <2>2, WriteCounts
  <2>3. CASE \/ Reflect!Gather(c) \/ Reflect!LoadPairEvidence(c) \/ Reflect!ReadCounter(c)
             \/ Reflect!FormClusters(c) \/ Reflect!FindExisting(c) \/ Reflect!StoreInsight(c)
             \/ Reflect!Cut(c)
    BY <2>3, CyclerWaits, WaitsCounts
  <2> QED BY <1>2, <2>1, <2>2, <2>3 DEF CyclerSteps
<1>3. (\E c \in Cyclers : CyclerSteps(c)) \/ UNCHANGED <<records, count, cycle>>
  BY DEF Reflect!Next, CyclerSteps, Reflect!AddObservation, Reflect!StoreOthers, reflection
<1> QED BY <1>1, <1>2, <1>3

-----------------------------------------------------------------------------

\* The invariants of reflection hold before the first cycle.
LEMMA ReflectBegins == Reflect!Init => ReflectInv /\ ReflectBounds /\ CountInv
<1> SUFFICES ASSUME Reflect!Init PROVE ReflectInv /\ ReflectBounds /\ CountInv
  OBVIOUS
<1>1. /\ present = {} /\ records = {} /\ started = 0 /\ cuts = 0
      /\ rows = 0 /\ born = [a \in Observations |-> 0]
      /\ overlapped = FALSE
      /\ count = [a \in Observations |-> Reflect!Zero]
      /\ cycle = [c \in Cyclers |-> Reflect!Idle]
  BY DEF Reflect!Init
<1>2. CyclesTyped
  BY <1>1, IdleTyped DEF CyclesTyped, Reflect!Zero
<1>3. \A c \in Cyclers : Coherent(c)
  BY <1>1 DEF Coherent, Counting, Reflect!Idle
<1>4. RecordsInv /\ Numbered /\ Alone
  BY <1>1, FS_EmptySet DEF RecordsInv, Numbered, Alone, Reflect!Idle, Reflect!ReflectedOnce
<1>5. ReflectBounds
  <2>1. started \in 0 .. MaxCycles /\ cuts \in 0 .. MaxCuts
    BY <1>1, ReflectionAssumption
  <2> QED BY <1>1, <2>1, Zenon DEF ReflectBounds
<1>6. CountInv
  <2>1. \A a, r : Bumping(a, r) = {} /\ Recorded(a, r) = {}
    BY <1>1 DEF Bumping, Recorded, Reflect!Idle
  <2>2. \A a \in Observations, r \in Reflect!Role : count[a][r] = 0
    BY <1>1 DEF Reflect!Zero
  <2>3. \A c \in Cyclers : cycle[c].pc # "write"
    BY <1>1 DEF Reflect!Idle
  <2>4. Cardinality({}) = 0 /\ 0 + 0 <= 0
    BY FS_EmptySet
  <2> QED BY <2>1, <2>2, <2>3, <2>4 DEF CountInv, Backed
<1> QED BY <1>2, <1>3, <1>4, <1>5, <1>6 DEF ReflectInv, CyclesInv

ReflectAll == ReflectInv /\ ReflectBounds /\ CountInv

\* Every step of Cognition keeps the invariants of reflection.
LEMMA ReflectNext == ReflectAll /\ [CognitionNext]_everything => ReflectAll'
  BY ReflectStep, ReflectInvKept, BoundsKept, CountsKept DEF ReflectAll

\* The invariants of reflection contain its types.
LEMMA ReflectTyped == ReflectAll => Reflect!TypeOK
<1> SUFFICES ASSUME ReflectAll PROVE Reflect!TypeOK
  OBVIOUS
<1>1. CyclesTyped /\ RecordsInv /\ ReflectBounds /\ \A c \in Cyclers : Coherent(c)
  BY DEF ReflectAll, ReflectInv, CyclesInv
<1>2. \A r \in records : /\ r.role \in Reflect!Role \cup {"insight_support"}
                         /\ r.sources \subseteq Observations
                         /\ r.cycle \in 1 .. MaxCycles
  <2>1. \A r \in records : r \in Record /\ r.cycle \in 1 .. started
    BY <1>1 DEF RecordsInv
  <2>2. \A n \in 1 .. started : n \in 1 .. MaxCycles
    BY <1>1, ReflectionAssumption DEF ReflectBounds
  <2> QED BY <2>1, <2>2 DEF Record
<1>3. \A c \in Cyclers : /\ cycle[c].pc \in Reflect!Point
                         /\ cycle[c].bump \subseteq cycle[c].pair
                         /\ cycle[c].mine \subseteq Alike
  BY <1>1 DEF CyclesTyped, CycleState, Coherent
<1> QED BY <1>1, <1>2, <1>3, Zenon DEF Reflect!TypeOK, ReflectBounds, CyclesTyped

\* What the reflection cycles keep in memory and in their records has its types.
THEOREM ReflectTypes == CognitionSpec => []Reflect!TypeOK
<1>1. CognitionInit => ReflectAll
  BY ReflectBegins DEF CognitionInit, ReflectAll
<1> QED BY <1>1, ReflectNext, ReflectTyped, PTL DEF CognitionSpec, everything

\* Reflection cycles that do not overlap, errors, timeouts and deaths of some
\* included, record each pair once (reflect.rs:120).
THEOREM ReflectedOnceHolds == CognitionSpec => []ReflectedOnce
<1>1. CognitionInit => ReflectAll
  BY ReflectBegins DEF CognitionInit, ReflectAll
<1>2. ReflectAll => ReflectedOnce
  BY DEF ReflectAll, ReflectInv, Alone, ReflectedOnce, Reflect!ReflectedOnce
<1> QED BY <1>1, <1>2, ReflectNext, PTL DEF CognitionSpec, everything

\* The counters of an observation, which overlapping cycles read and write back
\* whole, never exceed the records that name it.
THEOREM CountsBackedHolds == CognitionSpec => []CountsBacked
<1>1. CognitionInit => ReflectAll
  BY ReflectBegins DEF CognitionInit, ReflectAll
<1>2. ReflectAll => CountsBacked
  <2> SUFFICES ASSUME ReflectAll, NEW a \in Observations, NEW r \in Reflect!Role
               PROVE  count[a][r] <= Cardinality(Recorded(a, r))
    BY ReflectCountsAlike DEF CountsBacked, Reflect!CountsBacked, Recorded
  <2>1. Backed(count[a][r], a, r) /\ count[a][r] \in Nat
    BY CountsTyped DEF ReflectAll, CountInv
  <2> QED BY <2>1, CountsFinite DEF ReflectAll, Backed
<1> QED BY <1>1, <1>2, ReflectNext, PTL DEF CognitionSpec, everything

-----------------------------------------------------------------------------
(* Insights.  The youngest member of a cluster agrees with another member; the *)
(* cycle that recorded their agreement had gathered all that is older and not  *)
(* beyond the window even now, so the whole cluster, and by its end has stored *)
(* an insight for each cluster that was large enough then.                     *)

Large(C) == Cardinality(C) >= MinCluster

\* S has all that is older than its members, but what the window has left behind.
Whole(S) == /\ S \in SUBSET Observations
            /\ \A a \in S, b \in Reflect!Candidates : b < a => b \in S

\* The window only leaves memories behind; what enters it is the newest one.
Ages == \A b \in Reflect!Candidates' : b \in Reflect!Candidates \/ \A a \in present : ~(b < a)

\* S is what a cycle gathered that has ended since, with its insights stored.
Witnessed(S) ==
  /\ Whole(S) /\ S \subseteq present
  /\ \A C \in Reflect!Reach(S) : Large(C) => Reflect!Covered(C)

\* Cycler c has yet to look at each large cluster that has no insight.
Pursues(c) ==
  cycle[c].pc \in {"clusters", "insight"} =>
    \A C \in Reflect!Reach(cycle[c].seen) : Large(C) => C \in cycle[c].clusters \/ Reflect!Covered(C)

Agreed(r) == r.role \in Reflect!Role /\ r.sources \in Alike

InsightInv ==
  /\ \A a \in present, b \in Observations : b < a => b \in present
  /\ \A c \in Cyclers : cycle[c].pc # "idle" => Whole(cycle[c].seen)
  /\ \A c \in Cyclers : Pursues(c)
  /\ cuts = 0 =>
       \A r \in records : Agreed(r) =>
         \/ \E c \in Cyclers : r.sources \in cycle[c].mine
         \/ \E S \in SUBSET Observations : r.sources \subseteq S /\ Witnessed(S)

\* While others store memories, the window leaves more behind.
LEMMA WindowMoves ==
  ASSUME CyclesTyped, UNCHANGED <<present, born>>, rows' \in Nat, rows <= rows'
  PROVE  Reflect!Candidates' \subseteq Reflect!Candidates
<1> SUFFICES ASSUME NEW a \in Reflect!Candidates' PROVE a \in Reflect!Candidates
  OBVIOUS
<1>1. a \in present /\ rows' < born[a] + MaxCandidates
  BY DEF Reflect!Candidates
<1>2. rows \in Nat /\ born[a] \in Nat /\ MaxCandidates \in Nat
  BY <1>1, ReflectionAssumption DEF CyclesTyped
<1>3. rows < born[a] + MaxCandidates
  BY <1>1, <1>2
<1> QED BY <1>1, <1>3 DEF Reflect!Candidates

\* A cycle's step stores a memory at most, and so only leaves some behind.
LEMMA CyclerAges ==
  ASSUME CyclesInv, NEW c \in Cyclers, CyclerSteps(c)
  PROVE  Ages
<1>1. UNCHANGED <<present, born>> /\ (rows' = rows \/ rows' = rows + 1)
  BY DEF CyclerSteps, Reflect!Gather, Reflect!LoadPairEvidence, Reflect!StoreReflection,
     Reflect!ReadCounter, Reflect!WriteCounter, Reflect!FormClusters, Reflect!FindExisting,
     Reflect!StoreInsight, Reflect!Cut
<1>2. CyclesTyped /\ rows' \in Nat /\ rows <= rows'
  BY <1>1 DEF CyclesInv, CyclesTyped
<1> QED BY <1>1, <1>2, WindowMoves DEF Ages

\* What was whole stays so while the window only leaves memories behind.
LEMMA WholeStays ==
  ASSUME Ages, NEW S, S \subseteq present, Whole(S)
  PROVE  Whole(S)'
  BY DEF Ages, Whole

\* Which sets are connected by nearness and closed under it.
LEMMA ReachIs ==
  \A S, C : C \in Reflect!Reach(S) <=>
    /\ C \subseteq S
    /\ \A a \in C, b \in S \ C : {a, b} \notin Near \ Opposed
    /\ \A D \in (SUBSET C) \ {{}, C} : \E a \in D, b \in C \ D : {a, b} \in Near \ Opposed
  BY DEF Reflect!Reach

\* What a cycle finds to agree is near as well, so its components are clusters.
LEMMA ReachIsComponent ==
  ASSUME CyclesInv, NEW c \in Cyclers, NEW C \in Reflect!Reach(cycle[c].seen), Large(C)
  PROVE  C \in Reflect!Components(c)
<1>1. cycle[c].mine \subseteq Near \ Opposed
  <2>1. cycle[c].mine \subseteq Alike
    BY DEF CyclesInv, CyclesTyped, CycleState
  <2>2. Alike \subseteq Near /\ Alike \cap Opposed = {}
    BY CognitionAssumption DEF Reflect!ReflectAssumption
  <2> QED BY <2>1, <2>2
<1>2. \A a, b : Reflect!Joined(c, a, b) <=> {a, b} \in Near \ Opposed
  BY <1>1 DEF Reflect!Joined
<1>3. /\ C \subseteq cycle[c].seen
      /\ \A a \in C, b \in cycle[c].seen \ C : {a, b} \notin Near \ Opposed
      /\ \A D \in (SUBSET C) \ {{}, C} : \E a \in D, b \in C \ D : {a, b} \in Near \ Opposed
  BY DEF Reflect!Reach
<1>4. Reflect!Closed(c, C)
  BY <1>2, <1>3, Zenon DEF Reflect!Closed
<1>5. \A D \in (SUBSET C) \ {{}, C} : ~Reflect!Closed(c, D)
  <2> SUFFICES ASSUME NEW D \in (SUBSET C) \ {{}, C} PROVE ~Reflect!Closed(c, D)
    OBVIOUS
  <2>1. PICK a \in D, b \in C \ D : {a, b} \in Near \ Opposed
    BY <1>3, Zenon
  <2> QED BY <1>2, <1>3, <2>1 DEF Reflect!Closed
<1> QED BY <1>3, <1>4, <1>5, ReflectCountsAlike DEF Reflect!Components, Large

\* A covered cluster stays covered while records are added.
LEMMA CoveredStays ==
  ASSUME records \subseteq records', NEW C, Reflect!Covered(C)
  PROVE  Reflect!Covered(C)'
  BY DEF Reflect!Covered

\* What a cycle has witnessed stays so while records and observations are added.
LEMMA WitnessedStays ==
  ASSUME records \subseteq records', present \subseteq present', Ages, NEW S, Witnessed(S)
  PROVE  Witnessed(S)'
  BY CoveredStays, WholeStays DEF Witnessed, Reflect!Reach, Large

\* A cycle that did not move goes on pursuing its components.
LEMMA PursuesStays ==
  ASSUME records \subseteq records', NEW d, cycle'[d] = cycle[d], Pursues(d)
  PROVE  Pursues(d)'
  BY CoveredStays DEF Pursues, Reflect!Reach, Large

\* How a step of cycler c keeps the invariant.
LEMMA InsightStep ==
  ASSUME ReflectInv, InsightInv, NEW c \in Cyclers, Only(c), NEW T, T = cycle[c].seen,
         records \subseteq records', present' = present, Ages, cuts' = cuts \/ cuts' # 0,
         cycle'[c].pc # "idle" => Whole(cycle[c].seen)',
         Pursues(c)',
         \A r \in records' \ records : Agreed(r) => r.sources \in cycle'[c].mine,
         cuts' # 0 \/ cycle[c].mine \subseteq cycle'[c].mine \/ Witnessed(T)'
  PROVE  InsightInv'
<1>1. \A d \in Cyclers \ {c} : cycle'[d] = cycle[d]
  BY DEF Only
<1>2. ASSUME NEW d \in Cyclers \ {c}, cycle'[d].pc # "idle" PROVE Whole(cycle[d].seen)'
  <2>1. PICK S : S = cycle[d].seen
    OBVIOUS
  <2>2. Whole(S) /\ S \subseteq present /\ S = cycle'[d].seen
    BY <1>1, <1>2, <2>1 DEF InsightInv, ReflectInv, CyclesInv, Coherent
  <2> QED BY <2>2, WholeStays DEF Whole
<1>3. \A d \in Cyclers : cycle'[d].pc # "idle" => Whole(cycle[d].seen)'
  BY <1>2
<1>4. \A d \in Cyclers : Pursues(d)'
  BY <1>1, PursuesStays DEF InsightInv
<1>5. ASSUME cuts' = 0, NEW r \in records', Agreed(r)
      PROVE  \/ \E d \in Cyclers : r.sources \in cycle'[d].mine
             \/ \E S \in SUBSET Observations : r.sources \subseteq S /\ Witnessed(S)'
  <2>1. CASE r \notin records
    BY <1>5, <2>1
  <2>2. CASE r \in records
    <3>1. CASE \E S \in SUBSET Observations : r.sources \subseteq S /\ Witnessed(S)
      BY <3>1, WitnessedStays
    <3>2. ASSUME NEW d \in Cyclers, r.sources \in cycle[d].mine
          PROVE  \/ \E e \in Cyclers : r.sources \in cycle'[e].mine
                 \/ \E S \in SUBSET Observations : r.sources \subseteq S /\ Witnessed(S)'
      <4>1. r.sources \subseteq cycle[d].seen /\ cycle[d].seen \in SUBSET Observations
        BY <3>2 DEF ReflectInv, CyclesInv, CyclesTyped, CycleState, Coherent
      <4> QED BY <1>1, <1>5, <3>2, <4>1
    <3> QED BY <1>5, <2>2, <3>1, <3>2 DEF InsightInv
  <2> QED BY <2>1, <2>2
<1>6. \A a \in present', b \in Observations : b < a => b \in present'
  BY DEF InsightInv
<1> QED BY <1>3, <1>4, <1>5, <1>6 DEF InsightInv, Agreed

\* Cluster C has its insight: c looks at the next one, or has covered them all.
LEMMA DropInsights ==
  ASSUME ReflectInv, InsightInv, NEW c \in Cyclers, NEW C \in cycle[c].clusters,
         Reflect!Drop(c, C), Reflect!Covered(C)', cycle[c].pc \in {"clusters", "insight"},
         records \subseteq records', UNCHANGED <<present, cuts>>, Ages,
         \A r \in records' \ records : ~Agreed(r)
  PROVE  InsightInv'
<1>0. PICK T : T = cycle[c].seen
  OBVIOUS
<1>t. CyclesInv /\ CyclesTyped /\ Whole(T) /\ T \subseteq present
  BY <1>0 DEF ReflectInv, CyclesInv, Coherent, InsightInv
<1>w. Whole(T)'
  BY <1>t, WholeStays
<1>1. \A B \in Reflect!Reach(T) :
        Large(B) => B \in cycle[c].clusters \ {C} \/ Reflect!Covered(B)'
  BY <1>0, CoveredStays DEF InsightInv, Pursues
<1>2. CASE cycle[c].clusters = {C}
  <2>1. Ended(c)
    BY <1>t, <1>2, FinishDoes DEF Reflect!Drop
  <2>2. \A B \in Reflect!Reach(T) : Large(B) => Reflect!Covered(B)'
    BY <1>1, <1>2
  <2>3. Witnessed(T)'
    BY <1>t, <1>w, <2>2 DEF Witnessed, Reflect!Reach, Large
  <2>4. Only(c) /\ cycle'[c].pc = "idle" /\ Pursues(c)'
    BY <2>1 DEF Ended, Pursues, Reflect!Idle
  <2> QED BY <1>0, <2>3, <2>4, InsightStep
<1>3. CASE cycle[c].clusters # {C}
  <2>1. /\ Only(c) /\ cycle'[c].pc = "clusters" /\ cycle'[c].clusters = cycle[c].clusters \ {C}
        /\ cycle'[c].seen = T /\ cycle'[c].mine = cycle[c].mine
    BY <1>0, <1>t, <1>3, DropDoes
  <2>2. Pursues(c)'
    BY <1>1, <2>1 DEF Pursues, Reflect!Reach, Large
  <2>3. Whole(cycle[c].seen)'
    BY <1>w, <2>1 DEF Whole
  <2> QED BY <1>0, <1>t, <2>1, <2>2, <2>3, InsightStep
<1> QED BY <1>2, <1>3

\* Up to its last pair a cycle forgets no agreement it has found.
LEMMA PairInsights ==
  ASSUME ReflectInv, InsightInv, NEW c \in Cyclers, CyclerSteps(c),
         cycle[c].pc \in {"evidence", "pairs", "read", "write"},
         cycle'[c].pc \in {"pairs", "read", "write"}, Only(c),
         cycle'[c].seen = cycle[c].seen, cycle[c].mine \subseteq cycle'[c].mine,
         UNCHANGED <<present, cuts>>, records \subseteq records',
         \A r \in records' \ records : Agreed(r) => r.sources \in cycle'[c].mine
  PROVE  InsightInv'
<1>1. Ages
  BY CyclerAges DEF ReflectInv
<1>2. Pursues(c)'
  BY DEF Pursues
<1>3. PICK T : T = cycle[c].seen
  OBVIOUS
<1>4. Whole(T) /\ T \subseteq present
  BY <1>3 DEF InsightInv, ReflectInv, CyclesInv, Coherent
<1>5. Whole(T)'
  BY <1>1, <1>4, WholeStays
<1>6. Whole(cycle[c].seen)'
  BY <1>3, <1>5 DEF Whole
<1> QED BY <1>1, <1>2, <1>6, InsightStep

\* Forming clusters keeps large components pursued or covered, and agreements witnessed.
LEMMA FormInsights ==
  ASSUME ReflectInv, InsightInv, NEW c \in Cyclers, Reflect!FormClusters(c)
  PROVE  InsightInv'
<1>0. PICK T : T = cycle[c].seen
  OBVIOUS
<1>1. cycle[c].pc = "pairs" /\ UNCHANGED <<present, records, cuts>>
  BY DEF Reflect!FormClusters
<1>2. CyclesInv /\ CyclesTyped /\ Whole(T) /\ T \subseteq present
  BY <1>0, <1>1 DEF ReflectInv, CyclesInv, Coherent, InsightInv
<1>a. Ages /\ Whole(T)'
  <2>1. Ages
    BY <1>2, CyclerAges DEF CyclerSteps
  <2> QED BY <1>2, <2>1, WholeStays
<1>3. \A C \in Reflect!Reach(T) : Large(C) => C \in Reflect!Components(c)
  BY <1>0, <1>2, ReachIsComponent
<1>4. CASE Ended(c) /\ (cycle[c].mine = {} \/ Reflect!Components(c) = {})
  <2>1. Only(c) /\ cycle'[c].pc = "idle" /\ Pursues(c)' /\ cycle'[c].mine = {}
    BY <1>4 DEF Ended, Pursues, Reflect!Idle
  <2>2. Reflect!Components(c) = {} => Witnessed(T)'
    BY <1>1, <1>2, <1>3, <1>a DEF Witnessed, Reflect!Reach, Large
  <2> QED BY <1>0, <1>1, <1>4, <1>a, <2>1, <2>2, InsightStep
<1>5. CASE /\ Only(c)
           /\ cycle'[c].pc = "clusters" /\ cycle'[c].clusters = Reflect!Components(c)
           /\ cycle'[c].seen = cycle[c].seen /\ cycle'[c].mine = cycle[c].mine
  <2>1. cycle'[c].seen = T /\ \A C \in Reflect!Reach(T) : Large(C) => C \in cycle'[c].clusters
    BY <1>0, <1>3, <1>5
  <2>2. Pursues(c)'
    BY <2>1 DEF Pursues, Reflect!Reach, Large
  <2>3. Whole(cycle[c].seen)'
    BY <1>a, <2>1 DEF Whole
  <2> QED BY <1>0, <1>1, <1>2, <1>5, <1>a, <2>2, <2>3, InsightStep
<1> QED BY <1>2, <1>4, <1>5, FormDoes

\* Looking for a cluster's insight keeps them pursued or covered, and witnessed.
LEMMA FindInsights ==
  ASSUME ReflectInv, InsightInv, NEW c \in Cyclers, Reflect!FindExisting(c)
  PROVE  InsightInv'
<1>a. Ages
  BY CyclerAges DEF CyclerSteps, ReflectInv
<1>1. cycle[c].pc = "clusters" /\ UNCHANGED <<present, records, cuts>>
  BY DEF Reflect!FindExisting
<1>2. PICK C \in cycle[c].clusters :
        \/ Reflect!Covered(C) /\ Reflect!Drop(c, C)
        \/ cycle' = [cycle EXCEPT ![c].pc = "insight", ![c].pair = C, ![c].bump = {}]
  BY DEF Reflect!FindExisting
<1>3. CASE Reflect!Covered(C) /\ Reflect!Drop(c, C)
  <2>1. Reflect!Covered(C)'
    BY <1>1, <1>3, CoveredStays
  <2> QED BY <1>1, <1>3, <1>a, <2>1, DropInsights
<1>4. CASE cycle' = [cycle EXCEPT ![c].pc = "insight", ![c].pair = C, ![c].bump = {}]
  <2>1. CyclesTyped /\ C \in SUBSET Observations
    BY DEF ReflectInv, CyclesInv, CyclesTyped, CycleState
  <2>2. /\ Only(c) /\ cycle'[c].pc = "insight" /\ cycle'[c].clusters = cycle[c].clusters
        /\ cycle'[c].seen = cycle[c].seen /\ cycle'[c].mine = cycle[c].mine
    BY <1>4, <2>1, TurnDoes
  <2>3. Whole(cycle[c].seen)'
    <3>1. PICK T : T = cycle[c].seen
      OBVIOUS
    <3>2. Whole(T) /\ T \subseteq present
      BY <1>1, <3>1 DEF InsightInv, ReflectInv, CyclesInv, Coherent
    <3> QED BY <1>a, <2>2, <3>1, <3>2, WholeStays DEF Whole
  <2>4. Pursues(c)'
    BY <1>1, <2>2, CoveredStays DEF InsightInv, Pursues, Reflect!Reach, Large
  <2> QED BY <1>1, <1>a, <2>2, <2>3, <2>4, InsightStep
<1> QED BY <1>2, <1>3, <1>4

\* Storing an insight covers its cluster, and keeps the others pursued or covered.
LEMMA StoreInsights ==
  ASSUME ReflectInv, InsightInv, NEW c \in Cyclers, Reflect!StoreInsight(c)
  PROVE  InsightInv'
<1>1. PICK C : C = cycle[c].pair
  OBVIOUS
<1>2. cycle[c].pc = "insight" /\ UNCHANGED <<present, cuts>> /\ Reflect!Drop(c, C)
  BY <1>1 DEF Reflect!StoreInsight
<1>3. C \in cycle[c].clusters
  BY <1>1, <1>2 DEF ReflectInv, CyclesInv, Coherent
<1>4. PICK new : /\ new.role = "insight_support" /\ new.sources = C
                 /\ records' = records \cup {new}
  BY <1>1 DEF Reflect!StoreInsight
<1>5. Reflect!Covered(C)' /\ \A r \in records' \ records : ~Agreed(r)
  BY <1>4 DEF Reflect!Covered, Agreed, Reflect!Role
<1>6. Ages
  BY CyclerAges DEF CyclerSteps, ReflectInv
<1> QED BY <1>2, <1>3, <1>4, <1>5, <1>6, DropInsights

\* A new cycle has gathered everything older than what it sees that the window has.
LEMMA GatherInsights ==
  ASSUME ReflectInv, InsightInv, NEW c \in Cyclers, Reflect!Gather(c)
  PROVE  InsightInv'
<1>1. UNCHANGED <<present, records, cuts>>
  BY DEF Reflect!Gather
<1>2. Only(c) /\ cycle'[c].pc = "evidence" /\ cycle'[c].seen = Reflect!Candidates
      /\ cycle'[c].mine = cycle[c].mine
  BY GatherDoes DEF ReflectInv, CyclesInv
<1>3. Pursues(c)'
  BY <1>2 DEF Pursues
<1>4. Ages
  BY CyclerAges DEF CyclerSteps, ReflectInv
<1>5. PICK T : T = Reflect!Candidates
  OBVIOUS
<1>6. Whole(T) /\ T \subseteq present
  BY <1>5 DEF Whole, Reflect!Candidates, ReflectInv, CyclesInv, CyclesTyped
<1>7. Whole(cycle[c].seen)'
  BY <1>2, <1>4, <1>5, <1>6, WholeStays DEF Whole
<1> QED BY <1>1, <1>2, <1>3, <1>4, <1>7, InsightStep

\* A cut is counted, which excuses the agreements of its cycle.
LEMMA CutInsights ==
  ASSUME ReflectInv, ReflectBounds, InsightInv, NEW c \in Cyclers, Reflect!Cut(c)
  PROVE  InsightInv'
<1>1. UNCHANGED <<present, records>> /\ cuts' # 0
  BY DEF Reflect!Cut, ReflectBounds
<1>2. Ended(c)
  BY FinishDoes DEF ReflectInv, CyclesInv, Reflect!Cut
<1>3. Only(c) /\ cycle'[c].pc = "idle" /\ Pursues(c)'
  BY <1>2 DEF Ended, Pursues, Reflect!Idle
<1>4. Ages
  BY CyclerAges DEF CyclerSteps, ReflectInv
<1> QED BY <1>1, <1>3, <1>4, InsightStep

\* While no cycle moves, what they pursue and have witnessed stays.
LEMMA AsideInsights ==
  ASSUME ReflectInv, InsightInv, UNCHANGED <<records, cycle, cuts>>, Ages,
         present \subseteq present', \A a \in present', b \in Observations : b < a => b \in present'
  PROVE  InsightInv'
<1>1. \A d \in Cyclers : Pursues(d)'
  BY PursuesStays DEF InsightInv
<1>2. \A S : Witnessed(S) => Witnessed(S)'
  BY WitnessedStays
<1>3. ASSUME NEW d \in Cyclers, cycle[d].pc # "idle" PROVE Whole(cycle[d].seen)'
  <2>1. PICK S : S = cycle[d].seen
    OBVIOUS
  <2>2. Whole(S) /\ S \subseteq present /\ S = cycle'[d].seen
    BY <1>3, <2>1 DEF InsightInv, ReflectInv, CyclesInv, Coherent
  <2> QED BY <2>2, WholeStays DEF Whole
<1> QED BY <1>1, <1>2, <1>3 DEF InsightInv, Agreed

\* A new observation is the newest, and takes nothing from what was witnessed.
LEMMA AddInsights ==
  ASSUME ReflectInv, InsightInv, NEW a \in Observations, Reflect!AddObservation(a)
  PROVE  InsightInv'
<1>0. CyclesTyped /\ Observations \subseteq Nat /\ MaxCandidates \in Nat
  BY CognitionAssumption, ReflectionAssumption
     DEF Reflect!ReflectAssumption, ReflectInv, CyclesInv
<1>1. /\ present' = present \cup {a} /\ UNCHANGED <<records, cycle, cuts>> /\ a \notin present
      /\ \A b \in Observations : b < a => b \in present
      /\ rows' = rows + 1 /\ \A b \in present : born'[b] = born[b]
  BY <1>0 DEF Reflect!AddObservation, CyclesTyped
<1>2. \A b \in present', d \in Observations : d < b => d \in present'
  BY <1>1 DEF InsightInv
<1>3. \A b \in present : ~(a < b)
  BY <1>1 DEF InsightInv
<1>4. ASSUME NEW b \in Reflect!Candidates', b # a PROVE b \in Reflect!Candidates
  <2>1. b \in present /\ rows + 1 < born[b] + MaxCandidates
    BY <1>1, <1>4 DEF Reflect!Candidates
  <2>2. rows \in Nat /\ born[b] \in Nat
    BY <1>0, <2>1 DEF CyclesTyped
  <2>3. rows < born[b] + MaxCandidates
    BY <1>0, <2>1, <2>2
  <2> QED BY <2>1, <2>3 DEF Reflect!Candidates
<1>5. Ages
  BY <1>3, <1>4 DEF Ages
<1> QED BY <1>1, <1>2, <1>5, AsideInsights

\* What others store only moves the window.
LEMMA OthersInsights ==
  ASSUME ReflectInv, InsightInv, Reflect!StoreOthers
  PROVE  InsightInv'
<1>1. UNCHANGED <<present, born, records, cycle, cuts>> /\ rows' \in Nat /\ rows <= rows'
  BY ReflectionAssumption DEF Reflect!StoreOthers, ReflectInv, CyclesInv, CyclesTyped
<1>2. Ages
  BY <1>1, WindowMoves DEF Ages, ReflectInv, CyclesInv
<1>3. \A a \in present', b \in Observations : b < a => b \in present'
  BY <1>1 DEF InsightInv
<1> QED BY <1>1, <1>2, <1>3, AsideInsights

\* Every step of reflection keeps components pursued or covered, and agreements witnessed.
LEMMA InsightKept ==
  ReflectInv /\ ReflectBounds /\ InsightInv /\ [Reflect!Next]_reflection => InsightInv'
<1> SUFFICES ASSUME ReflectInv, ReflectBounds, InsightInv, [Reflect!Next]_reflection
             PROVE  InsightInv'
  OBVIOUS
<1>0. CyclesTyped
  BY DEF ReflectInv, CyclesInv
<1>1. CASE UNCHANGED reflection
  <2>1. UNCHANGED <<present, rows, born, records, cycle, cuts>>
    BY <1>1 DEF reflection
  <2>2. Ages
    BY <2>1 DEF Ages, Reflect!Candidates
  <2>3. \A a \in present', b \in Observations : b < a => b \in present'
    BY <2>1 DEF InsightInv
  <2> QED BY <2>1, <2>2, <2>3, AsideInsights
<1>2. ASSUME NEW a \in Observations, Reflect!AddObservation(a) PROVE InsightInv'
  BY <1>2, AddInsights
<1>o. CASE Reflect!StoreOthers
  BY <1>o, OthersInsights
<1>3. ASSUME NEW c \in Cyclers, CyclerSteps(c) PROVE InsightInv'
  <2>1. CASE Reflect!Gather(c)
    BY <2>1, GatherInsights
  <2>2. CASE Reflect!LoadPairEvidence(c)
    <3>1. PICK left : left = {p \in Reflect!Pairs : p \subseteq cycle[c].seen /\ ~Reflect!Reflected(p)}
      OBVIOUS
    <3>2. cycle[c].pc = "evidence" /\ UNCHANGED <<present, records, cuts>>
      BY <2>2 DEF Reflect!LoadPairEvidence
    <3>3. Only(c) /\ cycle'[c].pc = "pairs" /\ cycle'[c].seen = cycle[c].seen
          /\ cycle'[c].mine = cycle[c].mine
      BY <1>0, <2>2, <3>1, LoadDoes
    <3> QED BY <1>3, <3>2, <3>3, PairInsights
  <2>3. CASE Reflect!StoreReflection(c)
    <3>1. PICK p \in cycle[c].todo, new \in Record \ records :
            /\ new.sources = p /\ records' = records \cup {new}
            /\ Only(c) /\ cycle'[c].pc = "read" /\ cycle'[c].seen = cycle[c].seen
            /\ cycle'[c].mine = (IF p \in Alike THEN cycle[c].mine \cup {p} ELSE cycle[c].mine)
            /\ cycle[c].pc = "pairs" /\ UNCHANGED <<present, cuts>>
      BY <2>3, StoreAdds
    <3>2. /\ cycle[c].mine \subseteq cycle'[c].mine
          /\ \A r \in records' \ records : Agreed(r) => r.sources \in cycle'[c].mine
      BY <3>1 DEF Agreed
    <3> QED BY <1>3, <3>1, <3>2, PairInsights
  <2>4. CASE Reflect!ReadCounter(c)
    <3>1. cycle[c].pc = "read" /\ UNCHANGED <<present, records, cuts>>
      BY <2>4 DEF Reflect!ReadCounter
    <3>2. Reflect!Member(c) \in Observations
      BY <3>1, MemberIn DEF Counting, ReflectInv
    <3>3. Only(c) /\ cycle'[c].pc = "write" /\ cycle'[c].seen = cycle[c].seen
          /\ cycle'[c].mine = cycle[c].mine
      BY <1>0, <2>4, <3>2, ReadDoes
    <3> QED BY <1>3, <3>1, <3>3, PairInsights
  <2>5. CASE Reflect!WriteCounter(c)
    <3>1. cycle[c].pc = "write" /\ UNCHANGED <<present, records, cuts>>
      BY <2>5 DEF Reflect!WriteCounter
    <3>2. PICK rest : rest = cycle[c].bump \ {Reflect!Member(c)}
      OBVIOUS
    <3>3. Only(c) /\ cycle'[c].pc \in {"pairs", "read"} /\ cycle'[c].seen = cycle[c].seen
          /\ cycle'[c].mine = cycle[c].mine
      BY <1>0, <2>5, <3>2, WriteDoes
    <3> QED BY <1>3, <3>1, <3>3, PairInsights
  <2>6. CASE Reflect!FormClusters(c)
    BY <2>6, FormInsights
  <2>7. CASE Reflect!FindExisting(c)
    BY <2>7, FindInsights
  <2>8. CASE Reflect!StoreInsight(c)
    BY <2>8, StoreInsights
  <2>9. CASE Reflect!Cut(c)
    BY <2>9, CutInsights
  <2> QED BY <1>3, <2>1, <2>2, <2>3, <2>4, <2>5, <2>6, <2>7, <2>8, <2>9 DEF CyclerSteps
<1> QED BY <1>1, <1>2, <1>o, <1>3 DEF Reflect!Next, CyclerSteps

\* Before the first cycle nothing is pursued and nothing recorded.
LEMMA InsightBegins == Reflect!Init => InsightInv
<1> SUFFICES ASSUME Reflect!Init PROVE InsightInv
  OBVIOUS
<1>1. /\ present = {} /\ records = {}
      /\ \A c \in Cyclers : cycle[c].pc = "idle"
  BY DEF Reflect!Init, Reflect!Idle
<1> QED BY <1>1 DEF InsightInv, Pursues

\* The youngest member's agreement leads to the cycle that has seen them all.
LEMMA ClustersSafe == ReflectInv /\ InsightInv => ClustersHaveInsights
<1> SUFFICES ASSUME ReflectInv, InsightInv,
                    \A c \in Cyclers : cycle[c].pc = "idle", cuts = 0,
                    NEW C \in Reflect!Reach(present), Large(C), C \subseteq Reflect!Candidates,
                    \A a \in C : \E p \in Alike : a \in p /\ p \subseteq C,
                    \A p \in Alike : p \subseteq C => Reflect!Reflected(p)
             PROVE  Reflect!Covered(C)
  BY ReflectCountsAlike DEF ClustersHaveInsights, Reflect!ClustersHaveInsights, Large
<1>1. C \subseteq present /\ present \subseteq Observations /\ Observations \subseteq Nat
      /\ IsFiniteSet(Observations)
  BY ReachIs, CognitionAssumption, ReflectionAssumption
     DEF Reflect!ReflectAssumption, ReflectInv, CyclesInv, CyclesTyped
<1>2. IsFiniteSet(C) /\ C \in SUBSET Nat /\ C # {}
  <2>1. IsFiniteSet(C)
    BY <1>1, FS_Subset
  <2>2. C # {}
    <3>1. Cardinality({}) = 0
      BY FS_EmptySet
    <3>2. ASSUME C = {} PROVE FALSE
      <4>1. 0 >= MinCluster /\ MinCluster \in Nat /\ MinCluster > 2
        BY <3>1, <3>2, ReflectionAssumption DEF Large
      <4> QED BY <4>1
    <3> QED BY <3>2
  <2> QED BY <1>1, <2>1, <2>2
<1>3. PICK m \in C : \A b \in C : b <= m
  BY <1>2, GreatestNat
<1>4. PICK p \in Alike : m \in p /\ p \subseteq C
  OBVIOUS
<1>5. PICK r \in records : r.role \in Reflect!Role /\ r.sources = p
  BY <1>4 DEF Reflect!Reflected
<1>6. \A c \in Cyclers : cycle[c].mine = {}
  BY DEF ReflectInv, CyclesInv, Coherent
<1>7. PICK S \in SUBSET Observations : p \subseteq S /\ Witnessed(S)
  BY <1>5, <1>6 DEF InsightInv, Agreed
<1>8. C \subseteq S
  <2> SUFFICES ASSUME NEW b \in C, b # m PROVE b \in S
    BY <1>4, <1>7
  <2>1. b < m /\ b \in Reflect!Candidates /\ m \in S
    BY <1>1, <1>2, <1>3, <1>4, <1>7
  <2> QED BY <1>7, <2>1 DEF Witnessed, Whole
<1>9. C \in Reflect!Reach(S)
  <2>1. /\ \A a \in C, b \in present \ C : {a, b} \notin Near \ Opposed
        /\ \A D \in (SUBSET C) \ {{}, C} : \E a \in D, b \in C \ D : {a, b} \in Near \ Opposed
    BY Zenon, ReachIs
  <2>2. \A b \in S \ C : b \in present \ C
    BY <1>7 DEF Witnessed
  <2>3. \A a \in C, b \in S \ C : {a, b} \notin Near \ Opposed
    BY <2>1, <2>2, Zenon
  <2> QED BY <1>8, <2>1, <2>3, ReachIs, Zenon
<1> QED BY <1>7, <1>9 DEF Witnessed

\* Whatever came between the observations and the cycles, a large cluster whose
\* members agree has an insight once its agreements are all recorded, as long as
\* it is within the window of the newest memories.
THEOREM ClustersHaveInsightsHolds == CognitionSpec => []ClustersHaveInsights
<1>1. CognitionInit => ReflectAll /\ InsightInv
  BY ReflectBegins, InsightBegins DEF CognitionInit, ReflectAll
<1>2. ReflectAll /\ InsightInv /\ [CognitionNext]_everything => (ReflectAll /\ InsightInv)'
  BY ReflectNext, ReflectStep, InsightKept DEF ReflectAll
<1>3. ReflectAll /\ InsightInv => ClustersHaveInsights
  BY ClustersSafe DEF ReflectAll
<1> QED BY <1>1, <1>2, <1>3, PTL DEF CognitionSpec, everything
-----------------------------------------------------------------------------
(* Distillation, in both of its parts: what its own proofs say of a single  *)
(* step goes for the steps in batches too, but that a claim is larger.      *)

\* A step of Cognition is a step of distillation, with either batch, or leaves it alone.
LEMMA DistillStep == [CognitionNext]_everything => [Next \/ InBatches!Next]_vars
  BY DEF CognitionNext, everything, vars

\* Cardinality means the same in the instance as here.
LEMMA BatchesCountAlike == \A S : InBatches!Cardinality(S) = Cardinality(S)
  BY Zenon DEF InBatches!Cardinality, Cardinality

\* The instance with the larger batch lists the same events.
LEMMA BatchesListAlike ==
  InBatches!Events(InBatches!Newest(InBatches!Active, MaxEvents)) = Events(Newest(Active, MaxEvents))
<1>1. InBatches!Newest(InBatches!Active, MaxEvents) = Newest(Active, MaxEvents)
  BY BatchesCountAlike DEF InBatches!Newest, InBatches!Active, Newest, Active, InBatches!Ids, Ids
<1> QED
  BY <1>1 DEF InBatches!Events, Events

\* The instance with the larger batch stores the same summary.
LEMMA BatchesStoreAlike ==
  ASSUME NEW s, NEW S, InBatches!StoreSummary(s, S)
  PROVE  StoreSummary(s, S)
  BY DEF InBatches!StoreSummary, InBatches!IsNext, InBatches!Insert, InBatches!Ids,
         StoreSummary, IsNext, Insert, Ids

\* A step in batches is a step of distillation, or a claim.
LEMMA BatchesAlike ==
  ASSUME InBatches!Next
  PROVE  OtherSteps \/ \E w \in Workers : InBatches!ClaimDistillJobs(w)
<1> USE DEF InBatches!Ids, Ids, OtherSteps, Proceed, vars, queue, memories, hooks,
            InBatches!vars, InBatches!queue, InBatches!memories, InBatches!hooks,
            Fault, InBatches!Fault
<1>1. ASSUME NEW m \in Ids,
             InBatches!StoreEvent(m) \/ InBatches!EnqueueDistillJob(m)
               \/ InBatches!HookDies(m) \/ InBatches!StoreOther(m)
      PROVE  StoreEvent(m) \/ EnqueueDistillJob(m) \/ HookDies(m) \/ StoreOther(m)
  BY <1>1 DEF InBatches!StoreEvent, InBatches!EnqueueDistillJob, InBatches!HookDies,
              InBatches!StoreOther, StoreEvent, EnqueueDistillJob, HookDies, StoreOther,
              InBatches!IsNext, InBatches!Insert, IsNext, Insert,
              InBatches!Worker!Submit, InBatches!Worker!Queue!Submit, InBatches!Worker!Queue!Move,
              Worker!Submit, Worker!Queue!Submit, Worker!Queue!Move
<1>2. ASSUME NEW w \in Workers, InBatches!ListEvents(w) PROVE ListEvents(w)
  BY <1>2, BatchesCountAlike, BatchesListAlike
     DEF InBatches!ListEvents, ListEvents, InBatches!Worker!Step, InBatches!Worker!Goto,
         Worker!Step, Worker!Goto
<1>3. ASSUME NEW w \in Workers, InBatches!DistillSession(w) PROVE DistillSession(w)
  <2>1. PICK s \in Ids : InBatches!StoreSummary(s, listed[w])
    BY <1>3 DEF InBatches!DistillSession
  <2> QED
    BY <1>3, <2>1, BatchesStoreAlike
       DEF InBatches!DistillSession, DistillSession, InBatches!Worker!Step, InBatches!Worker!Goto,
           Worker!Step, Worker!Goto
<1>4. ASSUME NEW w \in Workers, InBatches!SettleJob(w) PROVE SettleJob(w)
  BY <1>4 DEF InBatches!SettleJob, SettleJob, InBatches!Outcome, Outcome,
              InBatches!Worker!Settle, InBatches!Worker!Goto, InBatches!Worker!First,
              InBatches!Worker!Queue!Settle, InBatches!Worker!Queue!Move,
              InBatches!Worker!Queue!Give,
              Worker!Settle, Worker!Goto, Worker!First,
              Worker!Queue!Settle, Worker!Queue!Move, Worker!Queue!Give
<1>5. ASSUME NEW w \in Workers,
             InBatches!LostLease(w) \/ InBatches!Abort(w) \/ InBatches!DistillFails(w)
      PROVE  LostLease(w) \/ Abort(w) \/ DistillFails(w)
  BY <1>5 DEF InBatches!LostLease, InBatches!Abort, InBatches!DistillFails,
              LostLease, Abort, DistillFails,
              InBatches!Worker!LostLease, InBatches!Worker!Leave, InBatches!Worker!Step,
              InBatches!Worker!Goto, InBatches!Worker!First,
              InBatches!Worker!Queue!Lose, InBatches!Worker!Queue!Give,
              Worker!LostLease, Worker!Leave, Worker!Step, Worker!Goto, Worker!First,
              Worker!Queue!Lose, Worker!Queue!Give
<1>6. InBatches!LapseLeases => LapseLeases
  BY DEF InBatches!LapseLeases, LapseLeases, InBatches!Worker!Lapse, Worker!Lapse,
         InBatches!Worker!Queue!Lapse, InBatches!Worker!Queue!Move,
         Worker!Queue!Lapse, Worker!Queue!Move
<1>7. InBatches!ListByHand \/ InBatches!HandGivesUp => ListByHand \/ HandGivesUp
  BY BatchesCountAlike
     DEF InBatches!ListByHand, InBatches!HandGivesUp, ListByHand, HandGivesUp,
         InBatches!Events, InBatches!Active, Events, Active
<1>8. ASSUME InBatches!DistillByHand PROVE DistillByHand
  <2>1. PICK s \in Ids : InBatches!StoreSummary(s, picked)
    BY <1>8 DEF InBatches!DistillByHand
  <2> QED
    BY <1>8, <2>1, BatchesStoreAlike DEF InBatches!DistillByHand, DistillByHand
<1>9. InBatches!ListForCleaning \/ InBatches!DeleteBatch => ListForCleaning \/ DeleteBatch
  BY DEF InBatches!ListForCleaning, InBatches!DeleteBatch, ListForCleaning, DeleteBatch,
         InBatches!Candidates, Candidates
<1> QED
  BY <1>1, <1>2, <1>3, <1>4, <1>5, <1>6, <1>7, <1>8, <1>9 DEF InBatches!Next, InBatches!Proceed

\* A claim of the larger batch keeps the invariant of distillation.
LEMMA LargeClaimKeeps ==
  ASSUME IInv, NEW w \in Workers, InBatches!ClaimDistillJobs(w)
  PROVE  IInv'
<1>1. QueueOK'
  BY DEF IInv, TypeOK, QueueOK, InBatches!ClaimDistillJobs, Worker!TypeOK, Point,
         InBatches!Worker!Claim, InBatches!Worker!Goto, InBatches!Worker!Ready,
         InBatches!Worker!Queue!Grant, InBatches!Worker!Queue!Move,
         InBatches!Worker!Queue!Give, Worker!Queue!Phase, InBatches!Ids, Ids
<1>2. UNCHANGED <<memories, hooks, listed, picked, doomed, faults>>
  BY DEF InBatches!ClaimDistillJobs, InBatches!memories, InBatches!hooks, memories, hooks
<1>3. (MemoriesOK /\ ListsOK /\ SourcesAreEvents /\ RetiredWithEvidence)'
  BY <1>2, TableUnchanged
     DEF memories, hooks, IInv, TypeOK, ListsOK, SourcesAreEvents, Lists
<1> QED
  BY <1>1, <1>3 DEF IInv, TypeOK, QueueOK, MemoriesOK, ListsOK

\* Every step of Cognition keeps the invariant of distillation.
LEMMA DistillNext == IInv /\ [CognitionNext]_everything => IInv'
<1>1. IInv /\ [Next]_vars => IInv'
  <2>1. IInv => QueueOK
    BY DEF IInv, TypeOK, QueueOK
  <2>2. (QueueOK /\ MemoriesOK /\ ListsOK /\ SourcesAreEvents /\ RetiredWithEvidence)' => IInv'
    BY DEF IInv, TypeOK, QueueOK, MemoriesOK, ListsOK
  <2> QED
    BY <2>1, <2>2, NextQueueOK, NextRetires
<1>2. OtherSteps => [Next]_vars
  BY DEF OtherSteps, Next
<1> QED
  BY <1>1, <1>2, DistillStep, BatchesAlike, LargeClaimKeeps

\* RetiredWithEvidence however many jobs a claim takes, whether or not a worker
\* outlasts its lease.
THEOREM BatchesRetireWithEvidence == CognitionSpec => []RetiredWithEvidence
<1>1. CognitionInit => IInv
  BY InitIInv DEF CognitionInit
<1>2. IInv => RetiredWithEvidence
  BY DEF IInv
<1> QED
  BY <1>1, <1>2, DistillNext, PTL DEF CognitionSpec, everything

\* A claim of the larger batch takes no more jobs than it says.
LEMMA LargeClaimIsFew ==
  ASSUME NEW w \in Workers, InBatches!ClaimDistillJobs(w)
  PROVE  ClaimFew(w, LargeBatch)
<1> DEFINE S == {j \in Worker!Ready : Cardinality({k \in Worker!Ready : k < j}) < LargeBatch}
<1>1. InBatches!Worker!Ready = Worker!Ready /\ Worker!Ready \in SUBSET Ids
  BY DEF InBatches!Worker!Ready, Worker!Ready, InBatches!Ids, Ids
<1>2. /\ pc[w] = "idle" /\ S # {}
      /\ InBatches!Worker!Queue!Grant(w, S) /\ batch' = [batch EXCEPT ![w] = S]
      /\ pc' = [pc EXCEPT ![w] = "list"]
  <2>1. \A U : InBatches!Worker!Cardinality(U) = Cardinality(U)
    BY Zenon DEF InBatches!Worker!Cardinality, Cardinality
  <2>2. {j \in InBatches!Worker!Ready :
          InBatches!Worker!Cardinality({k \in InBatches!Worker!Ready : k < j}) < LargeBatch} = S
    BY <1>1, <2>1
  <2> HIDE DEF S
  <2> QED
    BY <2>2 DEF InBatches!ClaimDistillJobs, InBatches!Worker!Claim, InBatches!Worker!Goto
<1>3. S \in SUBSET Worker!Ready /\ Cardinality(S) <= LargeBatch
  BY <1>1, FirstFew, BatchAssumption
<1> HIDE DEF S
<1>4. Worker!Queue!Grant(w, S)
  BY <1>2 DEF InBatches!Worker!Queue!Grant, InBatches!Worker!Queue!Move,
     InBatches!Worker!Queue!Give, Worker!Queue!Grant, Worker!Queue!Move, Worker!Queue!Give,
     InBatches!Ids, Ids
<1>5. UNCHANGED <<memories, hooks, listed, picked, doomed, faults>>
  BY DEF InBatches!ClaimDistillJobs, InBatches!memories, InBatches!hooks, memories, hooks
<1> QED
  BY <1>2, <1>3, <1>4, <1>5 DEF ClaimFew, Worker!Goto

\* The part stays the same, and its steps are those of its batch.
LEMMA PartSteps ==
  ASSUME IInv, [CognitionNext]_everything
  PROVE  /\ part' = part
         /\ part = "batches" => StepsOf(LargeBatch)
         /\ part # "batches" => StepsOf(BatchSize)
<1>1. InBatches!Next => StepsOf(LargeBatch)
  BY BatchesAlike, LargeClaimIsFew DEF StepsOf
<1>2. UNCHANGED vars => OtherSteps
  BY DEF OtherSteps
<1>3. CASE part = "distill" /\ Next /\ UNCHANGED part
  BY <1>3, StepsAre
<1>4. CASE part = "batches" /\ InBatches!Next /\ UNCHANGED part
  BY <1>1, <1>4
<1>5. CASE UNCHANGED part /\ UNCHANGED vars
  BY <1>2, <1>5 DEF StepsOf
<1>6. \/ part = "distill" /\ Next /\ UNCHANGED part
      \/ part = "batches" /\ InBatches!Next /\ UNCHANGED part
      \/ UNCHANGED part /\ UNCHANGED vars
  BY DEF CognitionNext, everything, vars
<1> QED
  BY <1>3, <1>4, <1>5, <1>6

\* QuietIsDistilled however many jobs a claim takes, as long as they are few.
THEOREM SmallBatchesAreDistilled ==
  ASSUME SmallBatches(BatchSize), SmallBatches(LargeBatch)
  PROVE  CognitionSpec => []QuietIsDistilled
<1> DEFINE J == /\ part = "batches" => QuietIInv(LargeBatch)
                /\ part # "batches" => QuietIInv(BatchSize)
<1>1. /\ BatchSize \in Nat \ {0} /\ BatchSize \in Nat
      /\ LargeBatch \in Nat \ {0} /\ LargeBatch \in Nat
  BY DistillAssumption, BatchAssumption
<1>2. CognitionInit => J
  BY <1>1, QuietInit DEF CognitionInit
<1>3. J /\ [CognitionNext]_everything => J'
  <2> SUFFICES ASSUME J, [CognitionNext]_everything PROVE J'
    OBVIOUS
  <2>1. IInv
    BY DEF QuietIInv
  <2>2. IInv'
    BY <2>1, DistillNext
  <2>3. /\ part' = part
        /\ part = "batches" => StepsOf(LargeBatch)
        /\ part # "batches" => StepsOf(BatchSize)
    BY <2>1, PartSteps
  <2>4. CASE part = "batches"
    <3>1. QuietIInv(LargeBatch)'
      BY <1>1, <2>2, <2>3, <2>4, QuietKept
    <3> QED
      BY <2>3, <2>4, <3>1
  <2>5. CASE part # "batches"
    <3>1. QuietIInv(BatchSize)'
      BY <1>1, <2>2, <2>3, <2>5, QuietKept
    <3> QED
      BY <2>3, <2>5, <3>1
  <2> QED
    BY <2>4, <2>5
<1>4. J => QuietIsDistilled
  BY <1>1, QuietMeansDistilled
<1> HIDE DEF J
<1> QED
  BY <1>2, <1>3, <1>4, PTL DEF CognitionSpec, everything

\* The variables of all the parts have their types.
THEOREM CognitionTypeCorrect == CognitionSpec => []CognitionTypeOK
<1>1. CognitionInit => IInv
  BY InitIInv DEF CognitionInit
<1>2. IInv => TypeOK
  BY DEF IInv
<1>3. TypeOK /\ Derive!TypeOK /\ Reflect!TypeOK /\ Ask!TypeOK /\ Run!TypeOK => CognitionTypeOK
  BY DEF CognitionTypeOK
<1> QED
  BY <1>1, <1>2, <1>3, DistillNext, DeriveTypes, ReflectTypes, AskTypes, RunTypes, PTL
     DEF CognitionSpec, everything
=============================================================================
