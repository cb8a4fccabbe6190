------------------------- MODULE ServicesProofs -------------------------
(***************************************************************************)
(* Proofs about Services, for every value of its constants: a section for  *)
(* each component, with its inductive invariant and what follows from it.  *)
(* HooksProofs has those of the hooks.                                     *)
(***************************************************************************)
EXTENDS HooksProofs, FiniteSetTheorems, SequenceTheorems

-----------------------------------------------------------------------------
(* FallbackClient: what has refused a request are the first places of the   *)
(* ring from where the request entered it.                                  *)

\* A step of the services is a step of the fallback clients or leaves them alone.
LEMMA FallbackStep == [ServicesNext]_all => [Fallback!Next]_fallbackVars
  BY DEF ServicesNext, Only, all

\* The ring: i places after s.
Place(s, i) == (s + i) % Total

\* What has refused a request are the first places of the ring from where it
\* entered, wherever the preferred client has moved to.
RefusedInOrder ==
  \A r \in Requests :
    /\ fallbackPc[r] = "asking" =>
         /\ offset[r] < Total
         /\ \A i \in 0 .. offset[r] - 1 : Place(fallbackStart[r], i) \in refused[r]
    /\ fallbackPc[r] = "quota" => \A i \in 0 .. Total - 1 : Place(fallbackStart[r],
      i) \in refused[r]

FallbackInv == Fallback!TypeOK /\ RefusedInOrder

\* Every offset from a client is at a client of the ring.
LEMMA PlaceIsClient ==
  ASSUME NEW s \in Fallback!Clients, NEW i \in 0 .. Total
  PROVE  Place(s, i) \in Fallback!Clients
  BY CountsAssumption DEF Fallback!Clients, Place

\* Every client has a place in the ring, from wherever it is entered.
LEMMA RingIsClosed ==
  ASSUME NEW s \in Fallback!Clients, NEW c \in Fallback!Clients
  PROVE  \E i \in 0 .. Total - 1 : Place(s, i) = c
<1> USE CountsAssumption DEF Fallback!Clients, Place
<1>1. CASE s <= c
  <2>1. c - s \in 0 .. Total - 1 /\ s + (c - s) = c
    BY <1>1
  <2>2. c % Total = c
    OBVIOUS
  <2> QED BY <2>1, <2>2
<1>2. CASE s > c
  <2>1. Total + c - s \in 0 .. Total - 1 /\ s + (Total + c - s) = Total + c
    BY <1>2
  <2>2. (Total + c) % Total = c
    OBVIOUS
  <2> QED BY <2>1, <2>2
<1> QED
  BY <1>1, <1>2

\* The invariant of the fallback holds before the first request.
LEMMA FallbackInit == Fallback!Init => FallbackInv
  BY CountsAssumption DEF Fallback!Init, FallbackInv, Fallback!TypeOK, RefusedInOrder,
                            Fallback!Clients

\* Every step of the fallback clients keeps their invariant.
LEMMA FallbackNext == FallbackInv /\ [Fallback!Next]_fallbackVars => FallbackInv'
<1> SUFFICES ASSUME FallbackInv, [Fallback!Next]_fallbackVars PROVE FallbackInv'
  OBVIOUS
<1>1. CASE UNCHANGED fallbackVars
  BY <1>1 DEF fallbackVars, FallbackInv, Fallback!TypeOK, RefusedInOrder
<1>2. ASSUME NEW r \in Requests, Fallback!Generate(r) PROVE FallbackInv'
  BY <1>2, CountsAssumption DEF Fallback!Generate, FallbackInv, Fallback!TypeOK, RefusedInOrder
<1>3. ASSUME NEW r \in Requests, Fallback!Answer(r) PROVE FallbackInv'
  <2>1. Fallback!Idx(r) \in Fallback!Clients
    BY PlaceIsClient DEF FallbackInv, Fallback!TypeOK, Fallback!Idx, Place
  <2> QED BY <1>3, <2>1 DEF Fallback!Answer, FallbackInv, Fallback!TypeOK, RefusedInOrder
<1>4. ASSUME NEW r \in Requests, Fallback!Refuse(r) PROVE FallbackInv'
  <2>1. Fallback!Idx(r) = Place(fallbackStart[r],
    offset[r]) /\ Fallback!Idx(r) \in Fallback!Clients
    BY PlaceIsClient DEF FallbackInv, Fallback!TypeOK, Fallback!Idx, Place
  <2>2. offset[r] \in 0 .. Total /\ offset[r] < Total
    BY <1>4 DEF Fallback!Refuse, FallbackInv, Fallback!TypeOK, RefusedInOrder
  <2>3. Fallback!TypeOK'
    BY <1>4, <2>1, <2>2, CountsAssumption DEF Fallback!Refuse, FallbackInv, Fallback!TypeOK
  <2>4. \A i \in 0 .. offset[r] : Place(fallbackStart[r], i) \in refused'[r]
    BY <1>4, <2>1, <2>2 DEF Fallback!Refuse, FallbackInv, Fallback!TypeOK, RefusedInOrder
  <2>5. RefusedInOrder'
    BY <1>4, <2>2, <2>4, CountsAssumption DEF Fallback!Refuse, FallbackInv, Fallback!TypeOK,
                                                RefusedInOrder
  <2> QED BY <2>3, <2>5 DEF FallbackInv
<1>5. ASSUME NEW r \in Requests, Fallback!Fail(r) PROVE FallbackInv'
  BY <1>5 DEF Fallback!Fail, FallbackInv, Fallback!TypeOK, RefusedInOrder
<1> QED
  BY <1>1, <1>2, <1>3, <1>4, <1>5 DEF Fallback!Next

\* The types of the shared client and of the requests.
THEOREM FallbackTypes == ServicesSpec => []Fallback!TypeOK
<1>1. ServicesInit => FallbackInv
  BY FallbackInit DEF ServicesInit
<1>2. FallbackInv /\ [ServicesNext]_all => FallbackInv'
  BY FallbackNext, FallbackStep
<1>3. FallbackInv => Fallback!TypeOK
  BY DEF FallbackInv
<1> QED
  BY <1>1, <1>2, <1>3, PTL DEF ServicesSpec

\* A request fails with a quota error only if every client has refused it,
\* while other requests move the preferred client under it (fallback.rs:68).
THEOREM QuotaMeansAllHolds == ServicesSpec => []QuotaMeansAll
<1>1. ServicesInit => FallbackInv
  BY FallbackInit DEF ServicesInit
<1>2. FallbackInv /\ [ServicesNext]_all => FallbackInv'
  BY FallbackNext, FallbackStep
<1>3. FallbackInv => QuotaMeansAll
  <2> SUFFICES ASSUME FallbackInv, NEW r \in Requests, fallbackPc[r] = "quota"
               PROVE  refused[r] = Fallback!Clients
    BY DEF QuotaMeansAll, Fallback!QuotaMeansAll
  <2>1. refused[r] \subseteq Fallback!Clients /\ fallbackStart[r] \in Fallback!Clients
    BY DEF FallbackInv, Fallback!TypeOK
  <2>2. \A c \in Fallback!Clients : c \in refused[r]
    BY <2>1, RingIsClosed DEF FallbackInv, RefusedInOrder
  <2> QED BY <2>1, <2>2
<1> QED
  BY <1>1, <1>2, <1>3, PTL DEF ServicesSpec

-----------------------------------------------------------------------------
(* Inbox: scans that do not overlap and that know what is completed.        *)

\* A step of the services is a step of the inbox or leaves it alone.
LEMMA InboxStep == [ServicesNext]_all => [Scan!Next]_inboxVars
  BY DEF ServicesNext, Only, all

\* A scanner that is busy is at a file, which its walk has left behind.
ScannersKnow ==
  \A s \in Scanners :
    /\ inboxPc[s] \in {"idle", "next"} <=> inboxAt[s] = None
    /\ inboxPc[s] = "idle" => inboxTodo[s] = {}
    /\ inboxAt[s] \notin inboxTodo[s]

OneScanner ==
  \A s, t \in Scanners : inboxPc[s] # "idle" /\ inboxPc[t] # "idle" => s = t

\* A memory of a file is stored by whoever is at the file, or the file is
\* completed; what is still to be stored has none.
StoredOnce(f) ==
  /\ copies[f] <= 1
  /\ copies[f] = 1 =>
       row[f] = "completed" \/ \E s \in Scanners : inboxAt[s] = f /\ Scan!Stored(s)
  /\ \A s \in Scanners :
       f \in inboxTodo[s] \/ (inboxAt[s] = f /\ inboxPc[s] \in {"read", "store"}) =>
         copies[f] = 0

InboxInv ==
  /\ Scan!TypeOK
  /\ ScannersKnow
  /\ ~inboxOverlapped => OneScanner
  /\ ~inboxOverlapped /\ ~blind => \A f \in Files \ inboxCut : StoredOnce(f)

\* The invariant of the inbox holds before the first scan.
LEMMA InboxInit == Scan!Init => InboxInv
<1> SUFFICES ASSUME Scan!Init PROVE InboxInv
  OBVIOUS
<1>1. inboxOverlapped \in BOOLEAN /\ blind \in BOOLEAN
  BY Zenon DEF Scan!Init
<1>2. Scan!TypeOK
  BY <1>1, CountsAssumption
     DEF Scan!Init, Scan!TypeOK, Scan!Status, Scan!Point
<1> QED
  BY <1>2, NoneAssumption DEF Scan!Init, InboxInv, ScannersKnow, OneScanner, StoredOnce

\* Every step of the inbox keeps its invariant.
LEMMA InboxNext == InboxInv /\ [Scan!Next]_inboxVars => InboxInv'
<1> SUFFICES ASSUME InboxInv, [Scan!Next]_inboxVars PROVE InboxInv'
  OBVIOUS
<1> USE NoneAssumption DEF InboxInv, Scan!TypeOK, Scan!Status, Scan!Point
<1> DEFINE Alone == ~inboxOverlapped' => OneScanner'
           Once  == ~inboxOverlapped' /\ ~blind' => \A f \in Files \ inboxCut' : StoredOnce(f)'
           All   == Scan!TypeOK' /\ ScannersKnow' /\ Alone /\ Once
<1>1. CASE UNCHANGED inboxVars
  BY <1>1 DEF inboxVars, ScannersKnow, OneScanner, StoredOnce, Scan!Stored
<1>2. ASSUME NEW f \in Files, Scan!Drop(f) PROVE All
  BY <1>2 DEF Scan!Drop, Scan!scan, Scan!history, ScannersKnow, OneScanner, StoredOnce,
              Scan!Stored
<1>3. ASSUME NEW s \in Scanners, Scan!StartScan(s) \/ Scan!StartScanBlindly(s) PROVE All
  <2>1. PICK skip :
          Scan!Walk(s, skip) /\ (~blind' => ~blind /\ skip = Scan!CompletedPaths)
    <3>1. CASE Scan!StartScan(s)
      <4>1. Scan!Walk(s, Scan!CompletedPaths) /\ blind' = blind
        BY <3>1, Zenon DEF Scan!StartScan
      <4> QED BY <4>1, Zenon
    <3>2. CASE Scan!StartScanBlindly(s)
      <4>1. Scan!Walk(s, {}) /\ blind'
        BY <3>2, Zenon DEF Scan!StartScanBlindly
      <4> QED BY <4>1
    <3> QED BY <1>3, <3>1, <3>2
  <2>2. /\ inboxOverlapped' \in BOOLEAN
        /\ ~inboxOverlapped' => ~inboxOverlapped /\ \A t \in Scanners : inboxPc[t] = "idle"
    BY <2>1, Zenon DEF Scan!Walk
  <2>3. blind' \in BOOLEAN /\ inboxFaults' \in 0 .. MaxFaults
    <3>1. blind' = blind \/ blind' = TRUE
      BY <1>3, Zenon DEF Scan!StartScan, Scan!StartScanBlindly
    <3>2. inboxFaults' = inboxFaults \/ Scan!Fault
      BY <1>3, Zenon DEF Scan!StartScan, Scan!StartScanBlindly
    <3>3. blind' \in BOOLEAN
      BY <3>1, Zenon
    <3>4. inboxFaults' \in 0 .. MaxFaults
      BY <3>2, CountsAssumption DEF Scan!Fault
    <3> QED BY <3>3, <3>4
  <2>4. Scan!TypeOK' /\ ScannersKnow'
    BY <2>1, <2>2, <2>3 DEF Scan!Walk, Scan!Goto, ScannersKnow
  <2>5. Alone
    BY <2>1, <2>2 DEF Scan!Walk, Scan!Goto, OneScanner
  <2>6. Once
    <3> SUFFICES ASSUME ~inboxOverlapped', ~blind', NEW f \in Files \ inboxCut'
                 PROVE  StoredOnce(f)'
      OBVIOUS
    <3>1. StoredOnce(f) /\ (row[f] # "completed" => copies[f] = 0)
      BY <2>1, <2>2 DEF Scan!Walk, StoredOnce, Scan!Stored, ScannersKnow
    <3>2. inboxTodo' = [inboxTodo EXCEPT ![s] = present \ Scan!CompletedPaths]
            /\ UNCHANGED <<row, copies, inboxAt>> /\ inboxPc' = [inboxPc EXCEPT ![s] = "next"]
      BY <2>1 DEF Scan!Walk, Scan!Goto
    <3>3. ASSUME NEW t \in Scanners,
                 f \in inboxTodo'[t] \/ (inboxAt'[t] = f /\ inboxPc'[t] \in {"read", "store"})
          PROVE  copies[f] = 0
      BY <3>1, <3>2, <3>3, <2>2 DEF StoredOnce, ScannersKnow, Scan!CompletedPaths
    <3> QED BY <3>1, <3>2, <3>3 DEF StoredOnce
  <2> QED BY <2>4, <2>5, <2>6
<1>4. ASSUME NEW s \in Scanners, Scan!MarkProcessing(s) PROVE All
  <2>1. PICK f \in inboxTodo[s] :
          /\ row' = [row EXCEPT ![f] = "processing"]
          /\ inboxTodo' = [inboxTodo EXCEPT ![s] = @ \ {f}]
          /\ inboxAt' = [inboxAt EXCEPT ![s] = f]
    BY <1>4 DEF Scan!MarkProcessing
  <2>2. /\ inboxPc[s] = "next" /\ inboxPc' = [inboxPc EXCEPT ![s] = "read"] /\ inboxAt[s] = None
        /\ UNCHANGED <<present, copies, derived, Scan!history>>
    BY <1>4 DEF Scan!MarkProcessing, Scan!Goto, ScannersKnow
  <2>3. Scan!TypeOK' /\ ScannersKnow' /\ Alone
    BY <2>1, <2>2 DEF Scan!history, ScannersKnow, OneScanner
  <2>4. Once
    <3> SUFFICES ASSUME ~inboxOverlapped, ~blind, NEW g \in Files \ inboxCut
                 PROVE  StoredOnce(g)'
      BY <2>2 DEF Scan!history
    <3>1. StoredOnce(g)
      OBVIOUS
    <3> QED BY <2>1, <2>2, <3>1 DEF StoredOnce, Scan!Stored
  <2> QED BY <2>3, <2>4
<1>5. ASSUME NEW s \in Scanners, Scan!MarkProcessingFails(s) PROVE All
  <2>1. PICK f \in inboxTodo[s] :
          /\ inboxTodo' = [inboxTodo EXCEPT ![s] = @ \ {f}]
          /\ inboxPc' = [inboxPc EXCEPT ![s] = IF inboxTodo[s] = {f} THEN "idle" ELSE "next"]
    BY <1>5 DEF Scan!MarkProcessingFails, Scan!Goto
  <2>2. /\ inboxPc[s] = "next" /\ inboxAt[s] = None /\ inboxFaults' \in 0 .. MaxFaults
        /\ UNCHANGED <<present, row, copies, derived, inboxAt, inboxOverlapped, blind, inboxCut>>
    BY <1>5, CountsAssumption DEF Scan!MarkProcessingFails, Scan!Fault, ScannersKnow
  <2>3. Scan!TypeOK' /\ ScannersKnow' /\ Alone
    BY <2>1, <2>2 DEF ScannersKnow, OneScanner
  <2>4. Once
    BY <2>1, <2>2 DEF StoredOnce, Scan!Stored
  <2> QED BY <2>3, <2>4
<1>6. ASSUME NEW s \in Scanners, Scan!Reject(s) \/ Scan!LeaveProcessing(s) \/ Scan!IngestFails(s)
                                 \/ Scan!MarkProcessed(s) \/ Scan!MarkProcessedFails(s)
      PROVE  All
  <2>1. /\ inboxPc[s] \notin {"idle", "next"} /\ inboxAt[s] \in Files
        /\ Scan!Advance(s)
        /\ UNCHANGED <<present, copies, derived, inboxOverlapped, blind>>
    BY <1>6 DEF Scan!Reject, Scan!LeaveProcessing, Scan!IngestFails, Scan!MarkProcessed,
                Scan!MarkProcessedFails, Scan!history, ScannersKnow
  <2>2. inboxFaults' \in 0 .. MaxFaults
    BY <1>6, CountsAssumption
       DEF Scan!Reject, Scan!LeaveProcessing, Scan!IngestFails, Scan!MarkProcessed,
           Scan!MarkProcessedFails, Scan!history, Scan!Fault
  <2>3. PICK st \in {"failed", "completed", row[inboxAt[s]]} :
          /\ row' = [row EXCEPT ![inboxAt[s]] = st]
          /\ st = "completed" \/ inboxPc[s] \in {"read", "store"} \/ inboxAt[s] \in inboxCut'
    <3>1. CASE Scan!Reject(s) \/ Scan!IngestFails(s)
      BY <3>1, <2>1 DEF Scan!Reject, Scan!IngestFails, Scan!SetRow, Scan!CutShort, Scan!Stored
    <3>2. CASE Scan!MarkProcessed(s)
      BY <3>2, <2>1 DEF Scan!MarkProcessed, Scan!SetRow
    <3>3. CASE Scan!LeaveProcessing(s) \/ Scan!MarkProcessedFails(s)
      <4>1. row' = [row EXCEPT ![inboxAt[s]] = row[inboxAt[s]]]
        BY <3>3, <2>1 DEF Scan!LeaveProcessing, Scan!MarkProcessedFails
      <4> QED BY <4>1, <3>3 DEF Scan!LeaveProcessing, Scan!MarkProcessedFails, Scan!CutShort,
                                Scan!Stored
    <3> QED BY <1>6, <3>1, <3>2, <3>3
  <2>4. inboxCut \subseteq inboxCut' /\ inboxCut' \subseteq Files
    BY <1>6, <2>1 DEF Scan!Reject, Scan!LeaveProcessing, Scan!IngestFails, Scan!MarkProcessed,
                Scan!MarkProcessedFails, Scan!history, Scan!CutShort
  <2>5. Scan!TypeOK' /\ ScannersKnow' /\ Alone
    BY <2>1, <2>2, <2>3, <2>4 DEF Scan!Advance, ScannersKnow, OneScanner
  <2>6. Once
    <3> SUFFICES ASSUME ~inboxOverlapped, ~blind, NEW f \in Files \ inboxCut'
                 PROVE  StoredOnce(f)'
      BY <2>1
    <3>1. StoredOnce(f)
      BY <2>4
    <3>2. /\ inboxTodo' = inboxTodo /\ inboxAt' = [inboxAt EXCEPT ![s] = None]
          /\ \A t \in Scanners : t # s => inboxPc'[t] = inboxPc[t]
          /\ copies' = copies
      BY <2>1 DEF Scan!Advance
    <3>3. ASSUME copies[f] = 1
          PROVE  row'[f] = "completed" \/ \E t \in Scanners : inboxAt'[t] = f /\ Scan!Stored(t)'
      <4>1. CASE f = inboxAt[s]
        BY <4>1, <3>1, <3>3, <2>1, <2>3 DEF StoredOnce
      <4>2. CASE f # inboxAt[s]
        BY <4>2, <3>1, <3>2, <3>3, <2>1, <2>3 DEF StoredOnce, Scan!Stored
      <4> QED BY <4>1, <4>2
    <3> QED BY <3>1, <3>2, <3>3 DEF StoredOnce
  <2> QED BY <2>5, <2>6
<1>7. ASSUME NEW s \in Scanners, Scan!Extract(s) \/ Scan!EnqueueDerive(s) PROVE All
  <2>1. PICK from \in {"read", "enqueue"} :
          /\ inboxPc[s] = from /\ inboxAt[s] \in Files
          /\ inboxPc' = [inboxPc EXCEPT ![s] = IF from = "read" THEN "store" ELSE "complete"]
          /\ derived' \subseteq Files
          /\ UNCHANGED <<present, row, copies, inboxTodo, inboxAt, Scan!history>>
    BY <1>7 DEF Scan!Extract, Scan!EnqueueDerive, Scan!Goto, ScannersKnow
  <2>2. Scan!TypeOK' /\ ScannersKnow' /\ Alone
    BY <2>1 DEF Scan!history, ScannersKnow, OneScanner
  <2>3. Once
    BY <2>1 DEF Scan!history, StoredOnce, Scan!Stored
  <2> QED BY <2>2, <2>3
<1>8. ASSUME NEW s \in Scanners, Scan!StoreMemory(s) PROVE All
  <2>1. /\ inboxPc[s] = "store" /\ inboxAt[s] \in Files
        /\ copies' = [copies EXCEPT ![inboxAt[s]] = IF @ = 0 THEN 1 ELSE 2]
        /\ inboxPc' = [inboxPc EXCEPT ![s] = "enqueue"]
        /\ UNCHANGED <<present, row, derived, inboxTodo, inboxAt, Scan!history>>
    BY <1>8 DEF Scan!StoreMemory, Scan!Goto, ScannersKnow
  <2>2. Scan!TypeOK' /\ ScannersKnow' /\ Alone
    BY <2>1 DEF Scan!history, ScannersKnow, OneScanner
  <2>3. Once
    <3> SUFFICES ASSUME ~inboxOverlapped, ~blind, NEW f \in Files \ inboxCut
                 PROVE  StoredOnce(f)'
      BY <2>1 DEF Scan!history
    <3>1. StoredOnce(f)
      OBVIOUS
    <3>2. CASE f # inboxAt[s]
      BY <3>1, <3>2, <2>1 DEF StoredOnce, Scan!Stored
    <3>3. CASE f = inboxAt[s]
      <4>1. copies'[f] = 1 /\ Scan!Stored(s)' /\ inboxAt'[s] = f
        BY <3>1, <3>3, <2>1 DEF StoredOnce, Scan!Stored
      <4>2. \A t \in Scanners : t # s => inboxPc[t] = "idle"
        BY <2>1 DEF OneScanner
      <4>3. ASSUME NEW t \in Scanners
            PROVE  ~(f \in inboxTodo'[t] \/ (inboxAt'[t] = f /\ inboxPc'[t] \in {"read", "store"}))
        BY <4>2, <3>3, <2>1 DEF ScannersKnow
      <4> QED BY <4>1, <4>3 DEF StoredOnce
    <3> QED BY <3>2, <3>3
  <2> QED BY <2>2, <2>3
<1>9. ASSUME NEW s \in Scanners, Scan!Kill(s) PROVE All
  <2>1. /\ inboxPc' = [inboxPc EXCEPT ![s] = "idle"] /\ inboxTodo' = [inboxTodo EXCEPT ![s] = {}]
        /\ inboxAt' = [inboxAt EXCEPT ![s] = None] /\ inboxFaults' \in 0 .. MaxFaults
        /\ UNCHANGED <<present, row, copies, derived, inboxOverlapped, blind>>
    BY <1>9, CountsAssumption DEF Scan!Kill, Scan!Goto, Scan!Fault
  <2>2. inboxCut \subseteq inboxCut' /\ inboxCut' \subseteq Files
          /\ (Scan!Stored(s) => inboxAt[s] \in inboxCut')
    BY <1>9 DEF Scan!Kill, Scan!CutShort, Scan!Stored, ScannersKnow
  <2>3. Scan!TypeOK' /\ ScannersKnow' /\ Alone
    BY <2>1, <2>2 DEF ScannersKnow, OneScanner
  <2>4. Once
    BY <2>1, <2>2 DEF StoredOnce, Scan!Stored
  <2> QED BY <2>3, <2>4
<1> QED
  BY <1>1, <1>2, <1>3, <1>4, <1>5, <1>6, <1>7, <1>8, <1>9 DEF Scan!Next, Scan!Proceed

\* The types of the scanners and of processed_files.
THEOREM InboxTypes == ServicesSpec => []Scan!TypeOK
<1>1. ServicesInit => InboxInv
  BY InboxInit DEF ServicesInit
<1>2. InboxInv /\ [ServicesNext]_all => InboxInv'
  BY InboxNext, InboxStep
<1>3. InboxInv => Scan!TypeOK
  BY DEF InboxInv
<1> QED
  BY <1>1, <1>2, <1>3, PTL DEF ServicesSpec

\* No file is ingested twice, however often a file that failed or is left
\* "processing" is scanned again, as long as scans do not overlap and know what
\* is completed, except one an attempt stored and did not complete
\* (inbox.rs:136).
THEOREM IngestedOnceHolds == ServicesSpec => []IngestedOnce
<1>1. ServicesInit => InboxInv
  BY InboxInit DEF ServicesInit
<1>2. InboxInv /\ [ServicesNext]_all => InboxInv'
  BY InboxNext, InboxStep
<1>3. InboxInv => IngestedOnce
  BY DEF InboxInv, StoredOnce, Scan!IngestedOnce, IngestedOnce
<1> QED
  BY <1>1, <1>2, <1>3, PTL DEF ServicesSpec

-----------------------------------------------------------------------------
(* ActivityMonitor: the copies of a file that several processes save whole. *)

\* A step of the services is a step of the activity monitor or leaves it alone.
LEMMA MonitorStep == [ServicesNext]_all => [Monitor!Next]_monitorVars
  BY DEF ServicesNext, Only, all

\* The latest dream is recorded on disk, or whoever holds its record has yet to
\* save it; and the supervisor and the command take turns.
DreamIsRecorded ==
  /\ disk.last = latest \/ Monitor!SavedAgain
  /\ monitorPc[Monitor!Supervisor] # "idle" =>
       copy[Monitor!Supervisor].last = latest /\ monitorPc[Monitor!Rebuild] = "idle"
  /\ monitorPc[Monitor!Rebuild] = "dreamt" => copy[Monitor!Rebuild].last = latest

MonitorInv ==
  /\ Monitor!TypeOK
  /\ latest = Monitor!Never \/ latest <= now
  /\ ~raced => DreamIsRecorded /\ ~early

\* The invariant of the monitor holds when nothing has been observed.
LEMMA MonitorInit == Monitor!Init => MonitorInv
<1> SUFFICES ASSUME Monitor!Init PROVE MonitorInv
  OBVIOUS
<1>1. early \in BOOLEAN /\ raced \in BOOLEAN /\ ~early
  BY Zenon DEF Monitor!Init
<1>2. Monitor!Default \in Monitor!Monitor /\ Monitor!Default.last = Monitor!Never
  BY DEF Monitor!Default, Monitor!Monitor
<1>3. now \in Monitor!Time /\ during \in SUBSET Monitor!Time
  BY CountsAssumption DEF Monitor!Init, Monitor!Time
<1>4. Monitor!Supervisor \in Monitor!Process /\ Monitor!Rebuild \in Monitor!Process
  BY DEF Monitor!Process
<1> QED
  BY <1>1, <1>2, <1>3, <1>4
     DEF Monitor!Init, Monitor!TypeOK, MonitorInv, DreamIsRecorded, Monitor!SavedAgain

\* A monitor by whose leave a dream begins, if its record is the latest's, has
\* cooled down since.
LEMMA LeaveIsGiven ==
  ASSUME Monitor!TypeOK, NEW m \in Monitor!Monitor, m.last = latest, Monitor!ShouldDeepDream(m)
  PROVE  ~(latest # Monitor!Never /\ now < latest + Cooldown)
<1>1. now \in Nat /\ (latest # Monitor!Never => latest \in Nat)
  BY CountsAssumption DEF Monitor!TypeOK, Monitor!Time
<1>2. latest # Monitor!Never => now >= latest + Cooldown
  BY DEF Monitor!ShouldDeepDream, Monitor!CooledDown
<1> QED
  BY <1>1, <1>2, CountsAssumption

\* Every step of the activity monitor keeps its invariant.
LEMMA MonitorNext == MonitorInv /\ [Monitor!Next]_monitorVars => MonitorInv'
<1> SUFFICES ASSUME MonitorInv, [Monitor!Next]_monitorVars PROVE MonitorInv'
  OBVIOUS
<1> DEFINE Sup == Monitor!Supervisor
           Reb == Monitor!Rebuild
           Aged == latest' = Monitor!Never \/ latest' <= now'
           Good == ~raced' => DreamIsRecorded' /\ ~early'
<1>t. Monitor!TypeOK /\ Sup \in Monitor!Process /\ Reb \in Monitor!Process
        /\ Sup \notin Hooks /\ Reb \notin Hooks /\ Reb # Sup /\ Hooks \subseteq Monitor!Process
  BY HooksAssumption
     DEF MonitorInv, Monitor!Process, Monitor!Supervisor, Monitor!Rebuild
<1>n. now \in Nat /\ now <= MaxTime /\ now # Monitor!Never
        /\ (latest # Monitor!Never => latest \in Nat) /\ latest \in Monitor!Time \cup {Monitor!Never}
  BY <1>t, CountsAssumption DEF Monitor!TypeOK, Monitor!Time, Monitor!Never
<1>d. Monitor!Default \in Monitor!Monitor /\ disk \in Monitor!Monitor
        /\ \A p \in Monitor!Process : copy[p] \in Monitor!Monitor
  BY <1>t DEF Monitor!Default, Monitor!Monitor, Monitor!TypeOK
<1>g. Good /\ Monitor!TypeOK' /\ Aged => MonitorInv'
  BY DEF MonitorInv
<1>1. CASE UNCHANGED monitorVars
  BY <1>1 DEF monitorVars, MonitorInv, Monitor!TypeOK, DreamIsRecorded, Monitor!SavedAgain
<1>2. CASE Monitor!Tick
  <2>1. now' = now + 1 /\ now < MaxTime
          /\ UNCHANGED <<disk, copy, monitorPc, during, latest, early, raced>>
    BY <1>2 DEF Monitor!Tick
  <2>2. Monitor!TypeOK'
    BY <2>1, <1>t, CountsAssumption DEF Monitor!TypeOK, Monitor!Time
  <2>3. Aged
    BY <2>1, <1>n DEF MonitorInv
  <2>4. Good
    BY <2>1 DEF MonitorInv, DreamIsRecorded, Monitor!SavedAgain
  <2> QED BY <2>2, <2>3, <2>4, <1>g
<1>3. ASSUME NEW h \in Hooks, Monitor!HookLoads(h) PROVE MonitorInv'
  <2>1. h \in Monitor!Process /\ h # Sup /\ h # Reb
    BY <1>t
  <2>2. /\ copy' = [copy EXCEPT ![h] = disk] /\ monitorPc' = [monitorPc EXCEPT ![h] = "loaded"]
        /\ UNCHANGED <<now, disk, during, latest, early, raced>>
    BY <1>3 DEF Monitor!HookLoads, Monitor!Load, Monitor!Goto
  <2>3. Monitor!TypeOK' /\ Aged
    BY <2>1, <2>2, <1>t, <1>d DEF Monitor!TypeOK, MonitorInv
  <2>4. Good
    BY <2>1, <2>2, <1>t DEF MonitorInv, DreamIsRecorded, Monitor!SavedAgain, Monitor!TypeOK
  <2> QED BY <2>3, <2>4, <1>g
<1>4. ASSUME NEW h \in Hooks, Monitor!HookSaves(h) PROVE MonitorInv'
  <2>1. h \in Monitor!Process /\ h # Sup /\ h # Reb
    BY <1>t
  <2> DEFINE m == [copy[h] EXCEPT !.log = {t \in @ \cup {now} : t + Retention > now}]
  <2>2. m \in Monitor!Monitor /\ m.last = copy[h].last
    BY <2>1, <1>d, <1>t DEF Monitor!TypeOK, Monitor!Monitor
  <2>3. /\ disk' = m
        /\ copy' = [copy EXCEPT ![h] = Monitor!Default] /\ monitorPc' = [monitorPc EXCEPT ![h] = "idle"]
        /\ during' \in SUBSET Monitor!Time
        /\ UNCHANGED <<now, latest, early>>
    BY <1>4, <1>t DEF Monitor!HookSaves, Monitor!Save, Monitor!Forget, Monitor!Goto, Monitor!TypeOK
  <2>4. /\ raced' \in BOOLEAN
        /\ ~raced' => ~raced /\ (copy[h].last = latest \/ Monitor!SavedAgain)
    BY <1>4, Zenon DEF Monitor!HookSaves
  <2>5. Monitor!TypeOK' /\ Aged
    BY <2>1, <2>2, <2>3, <2>4, <1>d, <1>t DEF Monitor!TypeOK, MonitorInv
  <2>6. Good
    BY <2>1, <2>2, <2>3, <2>4, <1>t
       DEF MonitorInv, Monitor!TypeOK, DreamIsRecorded, Monitor!SavedAgain
  <2> QED BY <2>5, <2>6, <1>g
<1>5. CASE Monitor!SupervisorLoads
  <2>1. /\ monitorPc[Sup] = "idle" /\ copy' = [copy EXCEPT ![Sup] = disk]
        /\ monitorPc' = [monitorPc EXCEPT ![Sup] = "loaded"]
        /\ UNCHANGED <<now, disk, during, latest, early>>
    BY <1>5 DEF Monitor!SupervisorLoads, Monitor!Load, Monitor!Goto
  <2>2. raced' \in BOOLEAN /\ (~raced' => ~raced /\ monitorPc[Reb] = "idle")
    BY <1>5, Zenon DEF Monitor!SupervisorLoads
  <2>3. Monitor!TypeOK' /\ Aged
    BY <2>1, <2>2, <1>t, <1>d DEF Monitor!TypeOK, MonitorInv
  <2>4. Good
    BY <2>1, <2>2, <1>t DEF MonitorInv, DreamIsRecorded, Monitor!SavedAgain, Monitor!TypeOK
  <2> QED BY <2>3, <2>4, <1>g
<1>6. CASE Monitor!DeepDream
  <2>1. /\ monitorPc[Sup] = "loaded" /\ Monitor!ShouldDeepDream(copy[Sup])
        /\ monitorPc' = [monitorPc EXCEPT ![Sup] = "dreaming"]
        /\ UNCHANGED <<now, disk, copy, during, latest, raced>>
    BY <1>6 DEF Monitor!DeepDream, Monitor!Goto
  <2>2. early' \in BOOLEAN /\ (early' => early \/ (latest # Monitor!Never /\ now < latest + Cooldown))
    BY <1>6, Zenon DEF Monitor!DeepDream, Monitor!BeginDream
  <2>3. Monitor!TypeOK' /\ Aged
    BY <2>1, <2>2, <1>t DEF Monitor!TypeOK, MonitorInv
  <2>4. ~raced => copy[Sup].last = latest /\ ~early
    BY <2>1 DEF MonitorInv, DreamIsRecorded
  <2>5. ~raced => ~early'
    BY <2>1, <2>2, <2>4, <1>t, <1>d, LeaveIsGiven
  <2>6. Good
    BY <2>1, <2>5, <1>t DEF MonitorInv, DreamIsRecorded, Monitor!SavedAgain, Monitor!TypeOK
  <2> QED BY <2>3, <2>6, <1>g
<1>7. CASE Monitor!DeepDreamEnds
  <2> DEFINE m == [copy[Sup] EXCEPT !.last = now]
  <2>1. m \in Monitor!Monitor /\ m.last = now
    BY <1>t DEF Monitor!TypeOK, Monitor!Monitor
  <2>2. /\ monitorPc[Sup] = "dreaming" /\ copy' = [copy EXCEPT ![Sup] = m]
        /\ monitorPc' = [monitorPc EXCEPT ![Sup] = "dreamt"]
        /\ latest' = IF latest = Monitor!Never \/ latest < now THEN now ELSE latest
        /\ UNCHANGED <<now, during, early, raced>>
    BY <1>7 DEF Monitor!DeepDreamEnds, Monitor!Goto, Monitor!Record
  <2>3. copy'[Sup] = m /\ monitorPc'[Sup] = "dreamt" /\ monitorPc'[Reb] = monitorPc[Reb]
    BY <2>2, <1>t DEF Monitor!TypeOK
  <2>4. disk' = copy'[Sup] \/ disk' = disk
    BY <1>7 DEF Monitor!DeepDreamEnds, Monitor!Save
  <2>5. latest' = now
    BY <2>2, <1>n DEF MonitorInv
  <2>6. Monitor!TypeOK' /\ Aged
    BY <2>1, <2>2, <2>3, <2>4, <2>5, <1>n, <1>t, <1>d DEF Monitor!TypeOK
  <2>7. Good
    BY <2>1, <2>2, <2>3, <2>5 DEF MonitorInv, DreamIsRecorded, Monitor!SavedAgain
  <2> QED BY <2>6, <2>7, <1>g
<1>8. CASE Monitor!DeepDreamFails \/ Monitor!NoDeepDream
  <2>1. /\ monitorPc[Sup] # "idle" /\ monitorPc' = [monitorPc EXCEPT ![Sup] = "dreamt"]
        /\ UNCHANGED <<now, disk, copy, during, latest, early, raced>>
    BY <1>8 DEF Monitor!DeepDreamFails, Monitor!NoDeepDream, Monitor!Goto
  <2>2. Monitor!TypeOK' /\ Aged
    BY <2>1, <1>t DEF Monitor!TypeOK, MonitorInv
  <2>3. Good
    BY <2>1, <1>t DEF MonitorInv, DreamIsRecorded, Monitor!SavedAgain, Monitor!TypeOK
  <2> QED BY <2>2, <2>3, <1>g
<1>9. CASE Monitor!MergeLog
  <2>1. Monitor!Reload \in Monitor!Monitor /\ Monitor!Reload.last = copy[Sup].last
    BY <1>t DEF Monitor!Reload, Monitor!TypeOK, Monitor!Monitor
  <2>2. /\ monitorPc[Sup] = "dreamt" /\ copy' = [copy EXCEPT ![Sup] = Monitor!Reload]
        /\ monitorPc' = [monitorPc EXCEPT ![Sup] = "merged"]
        /\ UNCHANGED <<now, disk, during, latest, early, raced>>
    BY <1>9 DEF Monitor!MergeLog, Monitor!Goto
  <2>3. Monitor!TypeOK' /\ Aged
    BY <2>1, <2>2, <1>t DEF Monitor!TypeOK, MonitorInv
  <2>4. Good
    BY <2>1, <2>2, <1>t DEF MonitorInv, DreamIsRecorded, Monitor!SavedAgain, Monitor!TypeOK
  <2> QED BY <2>3, <2>4, <1>g
<1>10. CASE Monitor!SupervisorSaves
  <2>1. /\ monitorPc[Sup] = "merged" /\ disk' = copy[Sup]
        /\ copy' = [copy EXCEPT ![Sup] = Monitor!Default] /\ monitorPc' = [monitorPc EXCEPT ![Sup] = "idle"]
        /\ during' = {} /\ UNCHANGED <<now, latest, early, raced>>
    BY <1>10 DEF Monitor!SupervisorSaves, Monitor!Save, Monitor!Forget, Monitor!Goto
  <2>2. Monitor!TypeOK' /\ Aged
    BY <2>1, <1>t, <1>d DEF Monitor!TypeOK, MonitorInv
  <2>3. Good
    BY <2>1, <1>t DEF MonitorInv, DreamIsRecorded, Monitor!SavedAgain, Monitor!TypeOK
  <2> QED BY <2>2, <2>3, <1>g
<1>11. CASE Monitor!SupervisorStops
  <2>1. /\ copy' = [copy EXCEPT ![Sup] = Monitor!Default] /\ monitorPc' = [monitorPc EXCEPT ![Sup] = "idle"]
        /\ during' = {} /\ UNCHANGED <<now, disk, latest, early>>
    BY <1>11 DEF Monitor!SupervisorStops, Monitor!Forget, Monitor!Goto
  <2>2. raced' \in BOOLEAN /\ (~raced' => ~raced /\ disk.last = latest)
    BY <1>11, Zenon DEF Monitor!SupervisorStops
  <2>3. Monitor!TypeOK' /\ Aged
    BY <2>1, <2>2, <1>t, <1>d DEF Monitor!TypeOK, MonitorInv
  <2>4. Good
    BY <2>1, <2>2, <1>t DEF MonitorInv, DreamIsRecorded, Monitor!SavedAgain, Monitor!TypeOK
  <2> QED BY <2>3, <2>4, <1>g
<1>12. ASSUME Monitor!Begin(Reb), early' \in BOOLEAN,
              early' => early \/ (Monitor!ShouldDeepDream(disk) /\
                                  latest # Monitor!Never /\ now < latest + Cooldown)
       PROVE  MonitorInv'
  <2>1. /\ monitorPc[Reb] = "idle" /\ monitorPc' = [monitorPc EXCEPT ![Reb] = "dreaming"]
        /\ UNCHANGED <<now, disk, copy, during, latest>>
    BY <1>12 DEF Monitor!Begin, Monitor!Goto
  <2>2. raced' \in BOOLEAN /\ (~raced' => ~raced /\ monitorPc[Sup] = "idle")
    BY <1>12, Zenon DEF Monitor!Begin
  <2>3. Monitor!TypeOK' /\ Aged
    BY <2>1, <2>2, <1>12, <1>t DEF Monitor!TypeOK, MonitorInv
  <2>4. ~raced' => disk.last = latest /\ ~early
    BY <2>1, <2>2 DEF MonitorInv, DreamIsRecorded, Monitor!SavedAgain
  <2>5. ~raced' => ~early'
    BY <2>4, <1>12, <1>t, <1>d, LeaveIsGiven
  <2>6. Good
    BY <2>1, <2>2, <2>4, <2>5, <1>t
       DEF MonitorInv, DreamIsRecorded, Monitor!SavedAgain, Monitor!TypeOK
  <2> QED BY <2>3, <2>6, <1>g
<1>13. CASE Monitor!RebuildBegins
  <2>1. Monitor!Begin(Reb) /\ Monitor!ShouldDeepDream(disk)
    BY <1>13 DEF Monitor!RebuildBegins
  <2>2. early' \in BOOLEAN /\ (early' => early \/ (latest # Monitor!Never /\ now < latest + Cooldown))
    BY <1>13, Zenon DEF Monitor!RebuildBegins, Monitor!BeginDream
  <2> QED BY <2>1, <2>2, <1>12
<1>14. CASE Monitor!ForcedRebuild
  <2>1. Monitor!Begin(Reb) /\ early' = early
    BY <1>14 DEF Monitor!ForcedRebuild
  <2>2. early' \in BOOLEAN
    BY <2>1, <1>t DEF Monitor!TypeOK
  <2> QED BY <2>1, <2>2, <1>12
<1>15. CASE Monitor!RebuildLoads
  <2> DEFINE m == [disk EXCEPT !.last = now]
  <2>1. m \in Monitor!Monitor /\ m.last = now
    BY <1>t DEF Monitor!TypeOK, Monitor!Monitor
  <2>2. /\ monitorPc[Reb] = "dreaming" /\ copy' = [copy EXCEPT ![Reb] = m]
        /\ monitorPc' = [monitorPc EXCEPT ![Reb] = "dreamt"]
        /\ latest' = IF latest = Monitor!Never \/ latest < now THEN now ELSE latest
        /\ UNCHANGED <<now, disk, during, early, raced>>
    BY <1>15 DEF Monitor!RebuildLoads, Monitor!Goto, Monitor!Record
  <2>3. latest' = now
    BY <2>2, <1>n DEF MonitorInv
  <2>4. Monitor!TypeOK' /\ Aged
    BY <2>1, <2>2, <2>3, <1>n, <1>t DEF Monitor!TypeOK
  <2>5. copy'[Reb] = m /\ monitorPc'[Reb] = "dreamt" /\ monitorPc'[Sup] = monitorPc[Sup]
    BY <2>2, <1>t DEF Monitor!TypeOK
  <2>6. Good
    BY <2>1, <2>2, <2>3, <2>5 DEF MonitorInv, DreamIsRecorded, Monitor!SavedAgain
  <2> QED BY <2>4, <2>6, <1>g
<1>16. CASE Monitor!RebuildSaves
  <2>1. /\ monitorPc[Reb] = "dreamt" /\ disk' = copy[Reb]
        /\ copy' = [copy EXCEPT ![Reb] = Monitor!Default] /\ monitorPc' = [monitorPc EXCEPT ![Reb] = "idle"]
        /\ UNCHANGED <<now, during, latest, early, raced>>
    BY <1>16 DEF Monitor!RebuildSaves, Monitor!Save, Monitor!Forget, Monitor!Goto
  <2>2. Monitor!TypeOK' /\ Aged
    BY <2>1, <1>t, <1>d DEF Monitor!TypeOK, MonitorInv
  <2>3. Good
    BY <2>1, <1>t DEF MonitorInv, DreamIsRecorded, Monitor!SavedAgain, Monitor!TypeOK
  <2> QED BY <2>2, <2>3, <1>g
<1>17. CASE Monitor!RebuildFails
  <2>1. /\ copy' = [copy EXCEPT ![Reb] = Monitor!Default] /\ monitorPc' = [monitorPc EXCEPT ![Reb] = "idle"]
        /\ UNCHANGED <<now, disk, during, latest, early>>
    BY <1>17 DEF Monitor!RebuildFails, Monitor!Forget, Monitor!Goto
  <2>2. raced' \in BOOLEAN /\ (~raced' => ~raced /\ monitorPc[Reb] # "dreamt")
    BY <1>17, Zenon DEF Monitor!RebuildFails
  <2>3. Monitor!TypeOK' /\ Aged
    BY <2>1, <2>2, <1>t, <1>d DEF Monitor!TypeOK, MonitorInv
  <2>4. Good
    BY <2>1, <2>2, <1>t DEF MonitorInv, DreamIsRecorded, Monitor!SavedAgain, Monitor!TypeOK
  <2> QED BY <2>3, <2>4, <1>g
<1> QED
  BY <1>1, <1>2, <1>3, <1>4, <1>5, <1>6, <1>7, <1>8, <1>9, <1>10, <1>11, <1>13, <1>14, <1>15,
     <1>16, <1>17
     DEF Monitor!Next

\* The types of the monitor's file, its copies and the clock.
THEOREM MonitorTypes == ServicesSpec => []Monitor!TypeOK
<1>1. ServicesInit => MonitorInv
  BY MonitorInit DEF ServicesInit
<1>2. MonitorInv /\ [ServicesNext]_all => MonitorInv'
  BY MonitorNext, MonitorStep
<1>3. MonitorInv => Monitor!TypeOK
  BY DEF MonitorInv
<1> QED
  BY <1>1, <1>2, <1>3, PTL DEF ServicesSpec

\* No dream begins by the monitor's leave within the cooldown of a dream completed
\* before (activity_monitor.rs:19), whichever process completed it and whatever
\* hooks have saved over its record since, but after the races that are named.
THEOREM CooldownKeptHolds == ServicesSpec => []CooldownKept
<1>1. ServicesInit => MonitorInv
  BY MonitorInit DEF ServicesInit
<1>2. MonitorInv /\ [ServicesNext]_all => MonitorInv'
  BY MonitorNext, MonitorStep
<1>3. MonitorInv => CooldownKept
  BY DEF MonitorInv, Monitor!CooldownKept, CooldownKept
<1> QED
  BY <1>1, <1>2, <1>3, PTL DEF ServicesSpec

-----------------------------------------------------------------------------
(* Migrations: what is recorded is complete, and what an earlier start was  *)
(* interrupted in is not recorded by its table.                             *)

\* A step of the services is a step of the schema migrations or leaves them alone.
LEMMA MigrationsStep == [ServicesNext]_all => [Schema!Next]_migrationsVars
  BY DEF ServicesNext, Only, all

\* The versions count from 1, and each has a number of statements.
LEMMA VersionsAreNumbers ==
  /\ Len(Statements) \in Nat \ {0} /\ Schema!Versions = 1 .. Len(Statements)
  /\ \A v \in Schema!Versions : Statements[v] \in Nat \ {0}
  BY StatementsAssumption DEF Schema!Versions

\* A process knows which migration and which statement it is at.
Known(p) ==
  /\ migrationsPc[p] \in {"probe", "heal", "found", "record"} => version[p] \in Schema!Versions
  /\ migrationsPc[p] = "apply" =>
       \/ version[p] \in Schema!Versions /\ next[p] \in 1 .. Statements[version[p]]
       \/ version[p] = Len(Statements) + 1 /\ next[p] = 1
  /\ migrationsPc[p] = "heal" => version[p] \in Healed

ProcessesKnow == \A p \in Processes : Known(p)

OneProcess ==
  \A p, q \in Processes :
    migrationsPc[p] \notin Schema!Resting /\ migrationsPc[q] \notin Schema!Resting => p = q

IsComplete(v) == Schema!Parts(v) \subseteq done

\* Of a migration whose table is there all is there, but for the healed column.
IsWhole(v) ==
  <<v, 1>> \in done =>
    \A i \in 1 .. Statements[v] : <<v, i>> \in done \/ (v \in Healed /\ i = Statements[v])

\* As long as nothing is recorded, and below what is being probed for, tables
\* are whole: the only migration that is applied before something is recorded is
\* the first, which has one statement.
ProgressOf(p) ==
  /\ migrationsPc[p] = "probe" => \A t \in Tables : t <= version[p] => IsWhole(t)
  /\ migrationsPc[p] \in {"heal", "found"} =>
       \A t \in Tables : t < version[p] => IsWhole(t)
  /\ migrationsPc[p] = "heal" => \A i \in 1 .. Statements[version[p]] - 1 : <<version[p], i>> \in done
  /\ migrationsPc[p] = "found" => IsComplete(version[p])
  /\ migrationsPc[p] \in {"apply", "record"} =>
       /\ \A v \in Schema!Versions : v < version[p] => IsComplete(v)
       /\ recorded = {} => version[p] = 1
  /\ migrationsPc[p] = "apply" /\ version[p] \in Schema!Versions =>
       \A i \in 1 .. next[p] - 1 : <<version[p], i>> \in done
  /\ migrationsPc[p] = "record" => IsComplete(version[p])
  /\ migrationsPc[p] = "ready" => done = Schema!Schema

SchemaGrows ==
  /\ OneProcess
  /\ \A v \in recorded : IsComplete(v)
  /\ recorded = {} => \A t \in Tables : IsWhole(t)
  /\ \A p \in Processes : ProgressOf(p)

MigrationsInv ==
  /\ Schema!TypeOK
  /\ ProcessesKnow
  /\ ~migrationsOverlapped => SchemaGrows

\* The invariant of the migrations holds of a database without tables.
LEMMA MigrationsInit == Schema!Init => MigrationsInv
<1> SUFFICES ASSUME Schema!Init PROVE MigrationsInv
  OBVIOUS
<1> USE VersionsAreNumbers, StatementsAssumption
<1>1. done = {} \/ \E k \in Schema!Versions :
        done = UNION {Schema!Parts(v) \ {<<h, Statements[h]>> : h \in Healed} : v \in Tables \cap (1 .. k)}
  BY DEF Schema!Init, Schema!Legacy
<1>2. done \subseteq Schema!Schema
  BY <1>1 DEF Schema!Schema, Schema!Versions
<1>3. migrationsOverlapped \in BOOLEAN
  BY Zenon DEF Schema!Init
<1>4. Schema!TypeOK
  BY <1>2, <1>3, CountsAssumption DEF Schema!Init, Schema!TypeOK
<1>5. ASSUME NEW t \in Tables, <<t, 1>> \in done, NEW i \in 1 .. Statements[t]
      PROVE  <<t, i>> \in done \/ (t \in Healed /\ i = Statements[t])
  <2>1. PICK k \in Schema!Versions :
          done = UNION {Schema!Parts(v) \ {<<h, Statements[h]>> : h \in Healed} : v \in Tables \cap (1 .. k)}
    BY <1>1, <1>5
  <2>2. PICK v \in Tables \cap (1 .. k) : <<t, 1>> \in Schema!Parts(v)
    BY <2>1, <1>5
  <2>3. t = v /\ <<t, i>> \in Schema!Parts(t)
    BY <2>2 DEF Schema!Parts
  <2>4. <<t, i>> \notin {<<h, Statements[h]>> : h \in Healed} => <<t, i>> \in done
    BY <2>1, <2>2, <2>3
  <2> QED BY <2>4
<1>6. ProcessesKnow
  BY DEF Schema!Init, ProcessesKnow, Known
<1>7. SchemaGrows
  BY <1>5 DEF Schema!Init, SchemaGrows, OneProcess, IsWhole, ProgressOf, Schema!Resting
<1> QED
  BY <1>4, <1>6, <1>7 DEF MigrationsInv

Points == {"idle", "check", "probe", "heal", "found", "apply", "record", "ready"}

\* A move is one process's.
LEMMA MoveIsLocal ==
  ASSUME Schema!TypeOK, ProcessesKnow, NEW p \in Processes, NEW c \in Points,
         NEW v \in Schema!Versions \cup {0, Len(Statements) + 1}, NEW i \in Nat,
         Schema!Move(p, c, v, i)
  PROVE  /\ migrationsPc' \in [Processes -> Points]
         /\ version' \in [Processes -> Schema!Versions \cup {0, Len(Statements) + 1}]
         /\ next' \in [Processes -> Nat]
         /\ migrationsPc'[p] = c /\ version'[p] = v /\ next'[p] = i
         /\ \A q \in Processes : q # p => migrationsPc'[q] = migrationsPc[q]
         /\ Known(p)' => ProcessesKnow'
<1>1. /\ migrationsPc' = [migrationsPc EXCEPT ![p] = c] /\ migrationsPc \in [Processes -> Points]
      /\ version' = [version EXCEPT ![p] = v]
      /\ next' = [next EXCEPT ![p] = i] /\ next \in [Processes -> Nat]
      /\ version \in [Processes -> Schema!Versions \cup {0, Len(Statements) + 1}]
  BY DEF Schema!Move, Schema!TypeOK, Points
<1>2. \A q \in Processes : q # p => migrationsPc'[q] = migrationsPc[q]
                               /\ version'[q] = version[q] /\ next'[q] = next[q]
  BY <1>1
<1>3. Known(p)' => ProcessesKnow'
  BY <1>2 DEF ProcessesKnow, Known
<1> QED
  BY <1>1, <1>2, <1>3

\* As the others rest, what a process makes of the schema is its own affair.
LEMMA OneProceeds ==
  ASSUME NEW p \in Processes, SchemaGrows, migrationsPc[p] \notin Schema!Resting,
         \A q \in Processes : q # p => migrationsPc'[q] = migrationsPc[q],
         done \subseteq done', done' \subseteq Schema!Schema,
         \A v \in recorded' : IsComplete(v)',
         recorded' = {} => \A t \in Tables : IsWhole(t)',
         ProgressOf(p)'
  PROVE  SchemaGrows'
<1>1. \A q \in Processes : q # p => migrationsPc[q] \in Schema!Resting
  BY DEF SchemaGrows, OneProcess
<1>2. OneProcess'
  BY <1>1 DEF OneProcess
<1>3. \A q \in Processes : q # p => ProgressOf(q)'
  BY <1>1 DEF SchemaGrows, ProgressOf, Schema!Resting
<1>4. \A q \in Processes : ProgressOf(q)'
  BY <1>3
<1> QED
  BY <1>2, <1>4 DEF SchemaGrows

\* Every step of the migrations keeps their invariant.
LEMMA MigrationsNext == MigrationsInv /\ [Schema!Next]_migrationsVars => MigrationsInv'
<1> SUFFICES ASSUME MigrationsInv, [Schema!Next]_migrationsVars PROVE MigrationsInv'
  OBVIOUS
<1>t. Schema!TypeOK /\ ProcessesKnow /\ \A p \in Processes : Known(p)
  BY DEF MigrationsInv, ProcessesKnow
<1>v. /\ Len(Statements) \in Nat \ {0} /\ Schema!Versions = 1 .. Len(Statements)
      /\ \A v \in Schema!Versions : Statements[v] \in Nat \ {0}
  BY VersionsAreNumbers
<1>s. Tables \subseteq 1 .. Len(Statements) /\ (1 \in Tables => Statements[1] = 1)
  BY StatementsAssumption
<1>g. ~migrationsOverlapped => SchemaGrows /\ \A p \in Processes : ProgressOf(p)
  BY DEF MigrationsInv, SchemaGrows
<1>1. CASE UNCHANGED migrationsVars
  BY <1>1 DEF migrationsVars, MigrationsInv, Schema!TypeOK, ProcessesKnow, Known, SchemaGrows,
              OneProcess, IsComplete, IsWhole, ProgressOf
<1>2. ASSUME NEW p \in Processes, Schema!Start(p) PROVE MigrationsInv'
  <2>1. /\ migrationsPc[p] = "idle" /\ Schema!Move(p, "check", 0, 1)
        /\ UNCHANGED <<done, recorded, crashes>>
    BY <1>2 DEF Schema!Start
  <2>2. /\ migrationsOverlapped' \in BOOLEAN
        /\ ~migrationsOverlapped' =>
             ~migrationsOverlapped /\ \A q \in Processes : migrationsPc[q] \in Schema!Resting
    BY <1>2, Zenon DEF Schema!Start
  <2>3. /\ migrationsPc' \in [Processes -> Points]
        /\ version' \in [Processes -> Schema!Versions \cup {0, Len(Statements) + 1}]
        /\ next' \in [Processes -> Nat] /\ migrationsPc'[p] = "check"
        /\ \A q \in Processes : q # p => migrationsPc'[q] = migrationsPc[q]
        /\ Known(p)' => ProcessesKnow'
    BY <2>1, <1>t, MoveIsLocal DEF Points
  <2>4. Known(p)'
    BY <2>3 DEF Known
  <2>5. ASSUME ~migrationsOverlapped' PROVE SchemaGrows'
    <3>1. SchemaGrows
      BY <2>2, <2>5, <1>g
    <3>2. OneProcess'
      BY <2>2, <2>3, <2>5 DEF OneProcess
    <3>3. ASSUME NEW q \in Processes PROVE ProgressOf(q)'
      <4>1. q # p => ProgressOf(q) /\ migrationsPc'[q] \in Schema!Resting
        BY <3>1, <2>2, <2>3, <2>5 DEF SchemaGrows
      <4> QED BY <4>1, <2>1, <2>3 DEF ProgressOf, Schema!Resting
    <3> QED BY <3>1, <3>2, <3>3, <2>1 DEF SchemaGrows, IsComplete, IsWhole
  <2> QED BY <2>1, <2>2, <2>3, <2>4, <2>5, <1>t DEF MigrationsInv, Schema!TypeOK, Points
<1>4. ASSUME NEW p \in Processes, Schema!CountApplied(p) PROVE MigrationsInv'
  <2>1. /\ migrationsPc[p] = "check" /\ UNCHANGED <<done, recorded, crashes, migrationsOverlapped>>
        /\ \/ recorded = {} /\ Schema!Move(p, "probe", Len(Statements), 1)
           \/ recorded # {} /\ Schema!Move(p, "apply", 1, 1)
    BY <1>4 DEF Schema!CountApplied
  <2>2. PICK c \in {"probe", "apply"} :
          /\ Schema!Move(p, c, IF c = "probe" THEN Len(Statements) ELSE 1, 1)
          /\ c = "probe" <=> recorded = {}
    BY <2>1
  <2> DEFINE v == IF c = "probe" THEN Len(Statements) ELSE 1
  <2>3. /\ migrationsPc' \in [Processes -> Points]
        /\ version' \in [Processes -> Schema!Versions \cup {0, Len(Statements) + 1}]
        /\ next' \in [Processes -> Nat] /\ (Known(p)' => ProcessesKnow')
        /\ migrationsPc'[p] = c /\ version'[p] = v /\ next'[p] = 1
        /\ \A q \in Processes : q # p => migrationsPc'[q] = migrationsPc[q]
    BY <2>2, <1>t, <1>v, MoveIsLocal DEF Points
  <2>4. Known(p)'
    BY <2>3, <1>v DEF Known
  <2>5. ASSUME ~migrationsOverlapped PROVE SchemaGrows'
    <3>1. ProgressOf(p)'
      BY <2>1, <2>2, <2>3, <2>5, <1>g, <1>v DEF SchemaGrows, ProgressOf, IsComplete, IsWhole
    <3>2. (\A w \in recorded' : IsComplete(w)') /\ (recorded' = {} => \A t \in Tables : IsWhole(t)')
      BY <2>1, <2>5, <1>g DEF SchemaGrows, IsComplete, IsWhole
    <3> QED BY <2>1, <2>3, <2>5, <3>1, <3>2, <1>g, <1>t, OneProceeds
            DEF Schema!Resting, Schema!TypeOK
  <2> QED BY <2>1, <2>3, <2>4, <2>5, <1>t DEF MigrationsInv, Schema!TypeOK, Points
\* Probing goes on below, or migrating begins.
<1>5. ASSUME NEW p \in Processes, migrationsPc[p] \in {"probe", "found"}, Schema!Below(p)
      PROVE  /\ migrationsPc' \in [Processes -> Points]
             /\ version' \in [Processes -> Schema!Versions \cup {0, Len(Statements) + 1}]
             /\ next' \in [Processes -> Nat]
             /\ \A q \in Processes : q # p => migrationsPc'[q] = migrationsPc[q]
             /\ ProcessesKnow' /\ version[p] \in Schema!Versions
             /\ \/ migrationsPc'[p] = "apply" /\ version'[p] = 1 /\ next'[p] = 1
                \/ migrationsPc'[p] = "probe" /\ version'[p] = version[p] - 1
  <2>1. PICK c \in {"apply", "probe"} :
          /\ Schema!Move(p, c, IF c = "apply" THEN 1 ELSE version[p] - 1, 1)
          /\ c = "apply" <=> version[p] = 1
    BY <1>5 DEF Schema!Below
  <2> DEFINE v == IF c = "apply" THEN 1 ELSE version[p] - 1
  <2>2. version[p] \in Schema!Versions /\ v \in Schema!Versions
    BY <1>5, <2>1, <1>t, <1>v DEF Known
  <2>3. /\ migrationsPc' \in [Processes -> Points]
        /\ version' \in [Processes -> Schema!Versions \cup {0, Len(Statements) + 1}]
        /\ next' \in [Processes -> Nat] /\ (Known(p)' => ProcessesKnow')
        /\ migrationsPc'[p] = c /\ version'[p] = v /\ next'[p] = 1
        /\ \A q \in Processes : q # p => migrationsPc'[q] = migrationsPc[q]
    BY <2>1, <2>2, <1>t, MoveIsLocal DEF Points
  <2>4. Known(p)'
    BY <2>2, <2>3, <1>v DEF Known
  <2> QED BY <2>1, <2>2, <2>3, <2>4
<1>6. ASSUME NEW p \in Processes, Schema!Probe(p) PROVE MigrationsInv'
  <2>1. /\ migrationsPc[p] = "probe" /\ version[p] \in Schema!Versions
        /\ UNCHANGED <<done, recorded, crashes, migrationsOverlapped>>
    BY <1>6, <1>t DEF Schema!Probe, Known
  <2>2. CASE version[p] \in Tables /\ <<version[p], 1>> \in done
    <3>1. PICK c \in {"heal", "found"} :
            (c = "heal" <=> version[p] \in Healed) /\ Schema!Move(p, c, version[p], 1)
      BY <1>6, <2>2 DEF Schema!Probe, Schema!LacksColumn
    <3>2. /\ migrationsPc' \in [Processes -> Points]
          /\ version' \in [Processes -> Schema!Versions \cup {0, Len(Statements) + 1}]
          /\ next' \in [Processes -> Nat] /\ (Known(p)' => ProcessesKnow')
          /\ migrationsPc'[p] = c /\ version'[p] = version[p] /\ next'[p] = 1
          /\ \A q \in Processes : q # p => migrationsPc'[q] = migrationsPc[q]
      BY <2>1, <3>1, <1>t, MoveIsLocal DEF Points
    <3>3. Known(p)'
      BY <2>1, <3>1, <3>2 DEF Known
    <3>4. ASSUME ~migrationsOverlapped PROVE SchemaGrows'
      <4>1. IsWhole(version[p]) /\ \A t \in Tables : t < version[p] => IsWhole(t)
        BY <2>1, <2>2, <3>4, <1>g, <1>v, StatementsAssumption DEF ProgressOf
      <4>2. \A i \in 1 .. Statements[version[p]] :
              <<version[p], i>> \in done \/ (c = "heal" /\ i = Statements[version[p]])
        BY <4>1, <2>2, <3>1 DEF IsWhole
      <4>3. c = "heal" => \A i \in 1 .. Statements[version[p]] - 1 : <<version[p], i>> \in done
        BY <4>2, <2>1, <1>v
      <4>4. c = "found" => Schema!Parts(version[p]) \subseteq done
        BY <4>2 DEF Schema!Parts
      <4>5. ProgressOf(p)'
        BY <4>1, <4>3, <4>4, <2>1, <3>2 DEF ProgressOf, IsWhole, IsComplete
      <4>6. (\A v \in recorded' : IsComplete(v)') /\ (recorded' = {} => \A t \in Tables : IsWhole(t)')
        BY <2>1, <3>4, <1>g DEF SchemaGrows, IsComplete, IsWhole
      <4> QED BY <2>1, <3>2, <3>4, <4>5, <4>6, <1>g, <1>t, OneProceeds
              DEF Schema!Resting, Schema!TypeOK
    <3> QED BY <2>1, <3>2, <3>3, <3>4, <1>t DEF MigrationsInv, Schema!TypeOK, Points
  <2>3. CASE ~(version[p] \in Tables /\ <<version[p], 1>> \in done)
    <3>1. Schema!Below(p)
      BY <1>6, <2>3 DEF Schema!Probe
    <3>2. /\ migrationsPc' \in [Processes -> Points]
          /\ version' \in [Processes -> Schema!Versions \cup {0, Len(Statements) + 1}]
          /\ next' \in [Processes -> Nat]
          /\ \A q \in Processes : q # p => migrationsPc'[q] = migrationsPc[q]
          /\ ProcessesKnow' /\ version[p] \in Schema!Versions
          /\ \/ migrationsPc'[p] = "apply" /\ version'[p] = 1 /\ next'[p] = 1
             \/ migrationsPc'[p] = "probe" /\ version'[p] = version[p] - 1
      BY <1>5, <2>1, <3>1
    <3>3. ASSUME ~migrationsOverlapped PROVE SchemaGrows'
      <4>1. \A t \in Tables : t <= version[p] => IsWhole(t)
        BY <2>1, <3>3, <1>g DEF ProgressOf
      <4>2. ProgressOf(p)'
        <5>1. CASE migrationsPc'[p] = "apply" /\ version'[p] = 1 /\ next'[p] = 1
          BY <5>1, <1>v DEF ProgressOf
        <5>2. CASE migrationsPc'[p] = "probe" /\ version'[p] = version[p] - 1
          <6>1. \A t \in Tables : t <= version[p] - 1 => IsWhole(t)'
            BY <4>1, <2>1, <3>2, <1>v, <1>s DEF IsWhole
          <6> QED BY <5>2, <6>1 DEF ProgressOf
        <5> QED BY <3>2, <5>1, <5>2
      <4>3. (\A v \in recorded' : IsComplete(v)') /\ (recorded' = {} => \A t \in Tables : IsWhole(t)')
        BY <2>1, <3>3, <1>g DEF SchemaGrows, IsComplete, IsWhole
      <4> QED BY <2>1, <3>2, <3>3, <4>2, <4>3, <1>g, <1>t, OneProceeds
              DEF Schema!Resting, Schema!TypeOK
    <3> QED BY <2>1, <3>2, <3>3, <1>t DEF MigrationsInv, Schema!TypeOK, Points
  <2> QED BY <2>2, <2>3
<1>7. ASSUME NEW p \in Processes, Schema!Heal(p) PROVE MigrationsInv'
  <2>1. /\ migrationsPc[p] = "heal" /\ version[p] \in Healed /\ version[p] \in Schema!Versions
        /\ done' = done \cup {<<version[p], Statements[version[p]]>>}
        /\ Schema!Move(p, "found", version[p], 1)
        /\ UNCHANGED <<recorded, crashes, migrationsOverlapped>>
    BY <1>7, <1>t DEF Schema!Heal, Known
  <2>2. <<version[p], Statements[version[p]]>> \in Schema!Schema
    BY <2>1, <1>v DEF Schema!Schema, Schema!Parts
  <2>3. /\ migrationsPc' \in [Processes -> Points]
        /\ version' \in [Processes -> Schema!Versions \cup {0, Len(Statements) + 1}]
        /\ next' \in [Processes -> Nat] /\ (Known(p)' => ProcessesKnow')
        /\ migrationsPc'[p] = "found" /\ version'[p] = version[p] /\ next'[p] = 1
        /\ \A q \in Processes : q # p => migrationsPc'[q] = migrationsPc[q]
    BY <2>1, <1>t, MoveIsLocal DEF Points
  <2>4. Known(p)'
    BY <2>1, <2>3 DEF Known
  <2>5. ASSUME ~migrationsOverlapped PROVE SchemaGrows'
    <3>1. \A i \in 1 .. Statements[version[p]] : <<version[p], i>> \in done'
      BY <2>1, <2>5, <1>g, <1>v DEF ProgressOf
    <3>2. ASSUME NEW t \in Tables, IsWhole(t) PROVE IsWhole(t)'
      BY <3>1, <3>2, <2>1 DEF IsWhole
    <3>3. Schema!Parts(version[p]) \subseteq done'
      BY <3>1 DEF Schema!Parts
    <3>4. ProgressOf(p)'
      BY <3>2, <3>3, <2>1, <2>3, <2>5, <1>g DEF ProgressOf, IsComplete
    <3>5. (\A v \in recorded' : IsComplete(v)') /\ (recorded' = {} => \A t \in Tables : IsWhole(t)')
      BY <2>1, <2>5, <3>2, <1>g DEF SchemaGrows, IsComplete
    <3> QED BY <2>1, <2>2, <2>3, <2>5, <3>4, <3>5, <1>g, <1>t, OneProceeds
            DEF Schema!Resting, Schema!TypeOK
  <2> QED BY <2>1, <2>2, <2>3, <2>4, <2>5, <1>t DEF MigrationsInv, Schema!TypeOK, Points
<1>8. ASSUME NEW p \in Processes, Schema!RecordFound(p) PROVE MigrationsInv'
  <2>1. /\ migrationsPc[p] = "found" /\ Schema!Below(p) /\ recorded' = recorded \cup {version[p]}
        /\ UNCHANGED <<done, crashes, migrationsOverlapped>>
    BY <1>8 DEF Schema!RecordFound
  <2>2. /\ migrationsPc' \in [Processes -> Points]
        /\ version' \in [Processes -> Schema!Versions \cup {0, Len(Statements) + 1}]
        /\ next' \in [Processes -> Nat]
        /\ \A q \in Processes : q # p => migrationsPc'[q] = migrationsPc[q]
        /\ ProcessesKnow' /\ version[p] \in Schema!Versions
        /\ \/ migrationsPc'[p] = "apply" /\ version'[p] = 1 /\ next'[p] = 1
           \/ migrationsPc'[p] = "probe" /\ version'[p] = version[p] - 1
    BY <1>5, <2>1
  <2>3. ASSUME ~migrationsOverlapped PROVE SchemaGrows'
    <3>1. (\A t \in Tables : t < version[p] => IsWhole(t)) /\ IsComplete(version[p])
      BY <2>1, <2>3, <1>g DEF ProgressOf
    <3>2. ProgressOf(p)'
      <4>1. CASE migrationsPc'[p] = "apply" /\ version'[p] = 1 /\ next'[p] = 1
        BY <4>1, <1>v DEF ProgressOf
      <4>2. CASE migrationsPc'[p] = "probe" /\ version'[p] = version[p] - 1
        <5>1. \A t \in Tables : t <= version[p] - 1 => IsWhole(t)'
          <6>1. \A t \in Tables : t <= version[p] - 1 => t < version[p]
            BY <2>2, <1>v, <1>s
          <6> QED BY <3>1, <2>1, <6>1 DEF IsWhole
        <5> QED BY <4>2, <5>1 DEF ProgressOf
      <4> QED BY <2>2, <4>1, <4>2
    <3>3. (\A v \in recorded' : IsComplete(v)') /\ (recorded' = {} => \A t \in Tables : IsWhole(t)')
      BY <2>1, <2>3, <3>1, <1>g DEF SchemaGrows, IsComplete
    <3> QED BY <2>1, <2>2, <2>3, <3>2, <3>3, <1>g, <1>t, OneProceeds
            DEF Schema!Resting, Schema!TypeOK
  <2> QED BY <2>1, <2>2, <2>3, <1>t DEF MigrationsInv, Schema!TypeOK, Points
<1>9. ASSUME NEW p \in Processes, Schema!SkipApplied(p) \/ Schema!Record(p) PROVE MigrationsInv'
  <2>1. /\ migrationsPc[p] \in {"apply", "record"} /\ version[p] \in Schema!Versions
        /\ Schema!Move(p, "apply", version[p] + 1, 1)
        /\ recorded' = recorded \cup {version[p]}
        /\ migrationsPc[p] = "apply" => version[p] \in recorded
        /\ UNCHANGED <<done, crashes, migrationsOverlapped>>
    <3>1. CASE Schema!SkipApplied(p)
      BY <3>1, <1>t DEF Schema!SkipApplied, Schema!TypeOK
    <3>2. CASE Schema!Record(p)
      BY <3>2, <1>t DEF Schema!Record, Known
    <3> QED BY <1>9, <3>1, <3>2
  <2>2. /\ migrationsPc' \in [Processes -> Points]
        /\ version' \in [Processes -> Schema!Versions \cup {0, Len(Statements) + 1}]
        /\ next' \in [Processes -> Nat] /\ (Known(p)' => ProcessesKnow')
        /\ migrationsPc'[p] = "apply" /\ version'[p] = version[p] + 1 /\ next'[p] = 1
        /\ \A q \in Processes : q # p => migrationsPc'[q] = migrationsPc[q]
    BY <2>1, <1>t, <1>v, MoveIsLocal DEF Points
  <2>3. Known(p)'
    BY <2>1, <2>2, <1>v DEF Known
  <2>4. ASSUME ~migrationsOverlapped PROVE SchemaGrows'
    <3>1. IsComplete(version[p]) /\ \A v \in Schema!Versions : v < version[p] => IsComplete(v)
      BY <2>1, <2>4, <1>g DEF SchemaGrows, ProgressOf
    <3>2. \A v \in Schema!Versions : v < version[p] + 1 => Schema!Parts(v) \subseteq done'
      BY <3>1, <2>1, <1>v DEF IsComplete
    <3>3. recorded' # {}
      BY <2>1
    <3>4. ProgressOf(p)'
      BY <3>2, <3>3, <2>2 DEF ProgressOf, IsComplete
    <3>5. \A v \in recorded' : IsComplete(v)'
      BY <2>1, <2>4, <3>1, <1>g DEF SchemaGrows, IsComplete
    <3> QED BY <2>1, <2>2, <2>4, <3>3, <3>4, <3>5, <1>g, <1>t, OneProceeds
            DEF Schema!Resting, Schema!TypeOK
  <2> QED BY <2>1, <2>2, <2>3, <2>4, <1>t DEF MigrationsInv, Schema!TypeOK, Points
<1>10. ASSUME NEW p \in Processes, Schema!Apply(p) PROVE MigrationsInv'
  <2>1. /\ migrationsPc[p] = "apply" /\ version[p] \in Schema!Versions
        /\ next[p] \in 1 .. Statements[version[p]]
        /\ done' = done \cup {<<version[p], next[p]>>}
        /\ UNCHANGED <<recorded, crashes, migrationsOverlapped>>
    BY <1>10, <1>t, <1>v DEF Schema!Apply, Known
  <2>2. PICK c \in {"apply", "record"} :
          (c = "record" <=> next[p] = Statements[version[p]])
            /\ Schema!Move(p, c, version[p], next[p] + 1)
    BY <1>10 DEF Schema!Apply
  <2>3. <<version[p], next[p]>> \in Schema!Schema
    BY <2>1 DEF Schema!Schema, Schema!Parts
  <2>4. /\ migrationsPc' \in [Processes -> Points]
        /\ version' \in [Processes -> Schema!Versions \cup {0, Len(Statements) + 1}]
        /\ next' \in [Processes -> Nat] /\ (Known(p)' => ProcessesKnow')
        /\ migrationsPc'[p] = c /\ version'[p] = version[p] /\ next'[p] = next[p] + 1
        /\ \A q \in Processes : q # p => migrationsPc'[q] = migrationsPc[q]
    BY <2>1, <2>2, <1>t, <1>v, MoveIsLocal DEF Points
  <2>5. Known(p)'
    BY <2>1, <2>2, <2>4, <1>v DEF Known
  <2>6. ASSUME ~migrationsOverlapped PROVE SchemaGrows'
    <3>1. \A i \in 1 .. next[p] : <<version[p], i>> \in done'
      BY <2>1, <2>6, <1>g, <1>v DEF ProgressOf
    <3>2. c = "record" => Schema!Parts(version[p]) \subseteq done'
      BY <3>1, <2>2 DEF Schema!Parts
    <3>3. ProgressOf(p)'
      BY <3>1, <3>2, <2>1, <2>2, <2>4, <2>6, <1>g DEF ProgressOf, IsComplete
    <3>4. \A v \in recorded' : IsComplete(v)'
      BY <2>1, <2>6, <1>g DEF SchemaGrows, IsComplete
    <3>5. ASSUME recorded' = {}, NEW t \in Tables PROVE IsWhole(t)'
      <4>1. version[p] = 1 /\ IsWhole(t)
        BY <3>5, <2>1, <2>6, <1>g DEF ProgressOf, SchemaGrows
      <4>2. CASE t = 1
        <5>1. \A i \in 1 .. Statements[t] : i = 1
          BY <4>2, <1>s
        <5> QED BY <5>1 DEF IsWhole
      <4>3. CASE t # 1
        BY <4>1, <4>3, <2>1 DEF IsWhole
      <4> QED BY <4>2, <4>3
    <3> QED BY <2>1, <2>3, <2>4, <2>6, <3>3, <3>4, <3>5, <1>g, <1>t, OneProceeds
            DEF Schema!Resting, Schema!TypeOK
  <2> QED BY <2>1, <2>3, <2>4, <2>5, <2>6, <1>t DEF MigrationsInv, Schema!TypeOK, Points
<1>11. ASSUME NEW p \in Processes, Schema!Finish(p) PROVE MigrationsInv'
  <2>1. /\ migrationsPc[p] = "apply" /\ version[p] = Len(Statements) + 1
        /\ Schema!Move(p, "ready", 0, 1)
        /\ UNCHANGED <<done, recorded, crashes, migrationsOverlapped>>
    BY <1>11 DEF Schema!Finish
  <2>2. /\ migrationsPc' \in [Processes -> Points]
        /\ version' \in [Processes -> Schema!Versions \cup {0, Len(Statements) + 1}]
        /\ next' \in [Processes -> Nat] /\ (Known(p)' => ProcessesKnow')
        /\ migrationsPc'[p] = "ready" /\ version'[p] = 0 /\ next'[p] = 1
        /\ \A q \in Processes : q # p => migrationsPc'[q] = migrationsPc[q]
    BY <2>1, <1>t, MoveIsLocal DEF Points
  <2>3. Known(p)'
    BY <2>2 DEF Known
  <2>4. ASSUME ~migrationsOverlapped PROVE SchemaGrows'
    <3>1. \A v \in Schema!Versions : IsComplete(v)
      BY <2>1, <2>4, <1>g, <1>v DEF ProgressOf
    <3>2. done = Schema!Schema
      BY <3>1, <1>t DEF IsComplete, Schema!Schema, Schema!TypeOK
    <3>3. Schema!Schema' = Schema!Schema
      BY DEF Schema!Schema, Schema!Parts, Schema!Versions
    <3>4. ProgressOf(p)'
      BY <3>2, <3>3, <2>1, <2>2 DEF ProgressOf
    <3>5. (\A v \in recorded' : IsComplete(v)') /\ (recorded' = {} => \A t \in Tables : IsWhole(t)')
      BY <2>1, <2>4, <1>g DEF SchemaGrows, IsComplete, IsWhole
    <3> QED BY <2>1, <2>2, <2>4, <3>4, <3>5, <1>g, <1>t, OneProceeds
            DEF Schema!Resting, Schema!TypeOK
  <2> QED BY <2>1, <2>2, <2>3, <2>4, <1>t DEF MigrationsInv, Schema!TypeOK, Points
<1>12. ASSUME NEW p \in Processes, Schema!Crash(p) PROVE MigrationsInv'
  <2>1. /\ migrationsPc[p] \notin Schema!Resting /\ Schema!Move(p, "idle", 0, 1)
        /\ crashes' \in 0 .. MaxCrashes
        /\ UNCHANGED <<done, recorded, migrationsOverlapped>>
    BY <1>12, <1>t, CountsAssumption DEF Schema!Crash, Schema!TypeOK
  <2>2. /\ migrationsPc' \in [Processes -> Points]
        /\ version' \in [Processes -> Schema!Versions \cup {0, Len(Statements) + 1}]
        /\ next' \in [Processes -> Nat] /\ (Known(p)' => ProcessesKnow')
        /\ migrationsPc'[p] = "idle" /\ version'[p] = 0 /\ next'[p] = 1
        /\ \A q \in Processes : q # p => migrationsPc'[q] = migrationsPc[q]
    BY <2>1, <1>t, MoveIsLocal DEF Points
  <2>3. Known(p)'
    BY <2>2 DEF Known
  <2>4. ASSUME ~migrationsOverlapped PROVE SchemaGrows'
    <3>1. ProgressOf(p)'
      BY <2>2 DEF ProgressOf
    <3>2. (\A v \in recorded' : IsComplete(v)') /\ (recorded' = {} => \A t \in Tables : IsWhole(t)')
      BY <2>1, <2>4, <1>g DEF SchemaGrows, IsComplete, IsWhole
    <3> QED BY <2>1, <2>2, <2>4, <3>1, <3>2, <1>g, <1>t, OneProceeds
            DEF Schema!TypeOK
  <2> QED BY <2>1, <2>2, <2>3, <2>4, <1>t DEF MigrationsInv, Schema!TypeOK, Points
<1> QED
  BY <1>1, <1>2, <1>4, <1>6, <1>7, <1>8, <1>9, <1>10, <1>11, <1>12 DEF Schema!Next

\* The types of the schema and of the processes that migrate it.
THEOREM MigrationsTypes == ServicesSpec => []Schema!TypeOK
<1>1. ServicesInit => MigrationsInv
  BY MigrationsInit DEF ServicesInit
<1>2. MigrationsInv /\ [ServicesNext]_all => MigrationsInv'
  BY MigrationsNext, MigrationsStep
<1>3. MigrationsInv => Schema!TypeOK
  BY DEF MigrationsInv
<1> QED
  BY <1>1, <1>2, <1>3, PTL DEF ServicesSpec

\* Whoever has opened the database finds all of the schema, for any list of
\* migrations the first of which has one statement if it is probed for, wherever
\* earlier starts were interrupted, unless two processes migrated at the same
\* time (migrations.rs:176).
THEOREM ReadyIsCompleteHolds == ServicesSpec => []ReadyIsComplete
<1>1. ServicesInit => MigrationsInv
  BY MigrationsInit DEF ServicesInit
<1>2. MigrationsInv /\ [ServicesNext]_all => MigrationsInv'
  BY MigrationsNext, MigrationsStep
<1>3. MigrationsInv => ReadyIsComplete
  BY DEF MigrationsInv, SchemaGrows, ProgressOf, Schema!ReadyIsComplete, ReadyIsComplete
<1> QED
  BY <1>1, <1>2, <1>3, PTL DEF ServicesSpec

-----------------------------------------------------------------------------
(* DataMigration: which databases can pass a validation by their counts.    *)

\* A step of the services is a step of the data migration or leaves it alone.
LEMMA DataStep == [ServicesNext]_all => [Copy!Next]_dataVars
  BY DEF ServicesNext, Only, all

\* FiniteSets, as the module that is instantiated sees it.
LEMMA CopyCountsAlike == \A S : Copy!Cardinality(S) = Cardinality(S)
<1>1. \A S : Copy!IsFiniteSet(S) = IsFiniteSet(S)
  BY Zenon DEF Copy!IsFiniteSet, IsFiniteSet
<1> QED
  BY <1>1, Zenon DEF Copy!Cardinality, Cardinality

\* A database has finitely many rows, and how many is a number.
LEMMA RowsAreFinite ==
  ASSUME NEW db \in Copy!Databases
  PROVE  IsFiniteSet(Copy!Rows(db)) /\ Cardinality(Copy!Rows(db)) \in Nat
<1>1. IsFiniteSet(1 .. MaxRuns)
  BY FS_Interval, CountsAssumption
<1>2. IsFiniteSet(Memories \X (1 .. MaxRuns))
  BY <1>1, FS_Product, MemoriesAssumption
<1>3. IsFiniteSet(Copy!Rows(db))
  BY <1>2, FS_Subset DEF Copy!Rows
<1> QED
  BY <1>3, FS_CardinalityType

\* As many rows as memories, and no memory twice: each of them once.
LEMMA AllCounted ==
  ASSUME NEW db \in Copy!Databases, db.own = 0, \A m \in Memories : db.rows[m] <= 1,
         Copy!Count(db) = Cardinality(Memories)
  PROVE  \A m \in Memories : db.rows[m] = 1
<1> DEFINE Once == Memories \X {1}
<1>1. db.rows \in [Memories -> 0 .. MaxRuns]
  BY DEF Copy!Databases
<1>2. Cardinality(Copy!Rows(db)) = Cardinality(Memories)
  BY RowsAreFinite, CopyCountsAlike DEF Copy!Count
<1>3. IsFiniteSet({1}) /\ Cardinality({1}) = 1
  BY FS_Singleton
<1>4. IsFiniteSet(Once) /\ Cardinality(Once) = Cardinality(Memories) * 1
  BY <1>3, FS_Product, MemoriesAssumption
<1>5. Cardinality(Memories) \in Nat
  BY MemoriesAssumption, FS_CardinalityType
<1>6. Copy!Rows(db) \in SUBSET Once
  BY <1>1 DEF Copy!Rows
<1>7. Copy!Rows(db) = Once
  BY <1>2, <1>4, <1>5, <1>6, FS_Subset
<1> TAKE m \in Memories
<1>8. <<m, 1>> \in Copy!Rows(db)
  BY <1>7
<1> QED
  BY <1>1, <1>8 DEF Copy!Rows

\* Of a database whose contents are certain and on which no run was begun when it
\* had copies, or failed: no memory is there twice.
Clean(db) == db # NoDatabase /\ ~db.tainted => \A m \in Memories : db.rows[m] <= 1

\* A memory is copied once by a run.
AtMost(db, n) == db # NoDatabase => \A m \in Memories : db.rows[m] <= n

DataInv ==
  /\ Copy!TypeOK
  /\ dataPc \in {"namespaces", "memories"} => target # NoDatabase
  /\ Clean(target) /\ Clean(backup)
  /\ AtMost(target, runs) /\ AtMost(backup, runs)
  /\ dataPc \in {"schema", "namespaces"} => runs > 0 /\ AtMost(target, runs - 1)
  /\ dataPc = "memories" => runs > 0 /\ \A m \in dataTodo : target.rows[m] <= runs - 1
  /\ dataPc = "namespaces" /\ ~target.tainted => \A m \in Memories : target.rows[m] = 0
  /\ dataPc = "memories" /\ ~target.tainted => \A m \in dataTodo : target.rows[m] = 0
  /\ passed => dataPc = "idle" /\ target # NoDatabase
  /\ passed /\ ~target.tainted /\ target.own = 0 => \A m \in Memories : target.rows[m] = 1

\* An empty database is one, and so is a target that is opened.
LEMMA EmptyIsDatabase == Copy!Empty \in Copy!Databases
<1>1. FALSE \in BOOLEAN /\ 0 \in 0 .. MaxRuns /\ 0 \in 0 .. 1 /\ "none" \in {"none", "some", "all"}
  BY CountsAssumption
<1> QED
  BY <1>1 DEF Copy!Empty, Copy!Databases

\* A target that is opened is a database, with what the target had.
LEMMA OpenedIsDatabase ==
  ASSUME DataInv
  PROVE  /\ Copy!Opened \in Copy!Databases /\ Clean(Copy!Opened)
         /\ \A n \in Nat : AtMost(target, n) => \A m \in Memories : Copy!Opened.rows[m] <= n
         /\ target # NoDatabase => Copy!Opened = target
         /\ target = NoDatabase => \A m \in Memories : Copy!Opened.rows[m] = 0
<1>1. CASE target = NoDatabase
  <2>1. Copy!Opened = Copy!Empty /\ \A m \in Memories : Copy!Opened.rows[m] = 0
    BY <1>1 DEF Copy!Opened, Copy!Empty
  <2> QED BY <1>1, <2>1, EmptyIsDatabase DEF Clean
<1>2. CASE target # NoDatabase
  BY <1>2 DEF Copy!Opened, DataInv, Copy!TypeOK, Copy!Contents, AtMost
<1> QED BY <1>1, <1>2

\* A file that is copied alone may hold any database but makes no promise.
LEMMA UncertainIsClean ==
  ASSUME NEW db \in Copy!Uncertain
  PROVE  db \in Copy!Databases /\ db.tainted /\ Clean(db) /\ AtMost(db, runs)
BY DEF Copy!Uncertain, Clean, AtMost

\* The invariant of the data migration holds before the first run.
LEMMA DataInit == Copy!Init => DataInv
<1> SUFFICES ASSUME Copy!Init PROVE DataInv
  OBVIOUS
<1>1. ~passed /\ passed \in BOOLEAN
  BY Zenon DEF Copy!Init
<1>2. target \in {NoDatabase, Copy!Empty} /\ backup = NoDatabase
        /\ dataPc = "idle" /\ dataTodo = {} /\ dataFaults = 0 /\ runs = 0 /\ orphans \subseteq Memories
  BY DEF Copy!Init
<1>3. Copy!TypeOK
  BY <1>1, <1>2, EmptyIsDatabase, CountsAssumption DEF Copy!TypeOK, Copy!Contents
<1>4. Clean(target) /\ Clean(backup) /\ AtMost(target, runs) /\ AtMost(backup, runs)
  BY <1>2 DEF Clean, AtMost, Copy!Empty
<1> QED
  BY <1>1, <1>2, <1>3, <1>4 DEF DataInv

\* Every step of the data migration keeps its invariant.
LEMMA DataNext == DataInv /\ [Copy!Next]_dataVars => DataInv'
<1> SUFFICES ASSUME DataInv, [Copy!Next]_dataVars PROVE DataInv'
  OBVIOUS
<1>t. Copy!TypeOK /\ runs \in Nat
  BY CountsAssumption DEF DataInv, Copy!TypeOK
<1>d. NoDatabase \notin Copy!Databases
  BY NoDatabaseAssumption DEF Copy!Databases
<1>1. CASE UNCHANGED dataVars
  BY <1>1 DEF dataVars, DataInv, Copy!TypeOK, Clean, AtMost
<1>2. CASE Copy!Run
  <2>1. /\ dataPc = "idle" /\ runs < MaxRuns /\ runs' = runs + 1 /\ dataPc' = "schema"
        /\ backup' \in Copy!Saved \cup {backup}
        /\ UNCHANGED <<orphans, target, dataTodo, dataFaults>>
    BY <1>2 DEF Copy!Run
  <2>2. ~passed' /\ passed' \in BOOLEAN
    BY <1>2, Zenon DEF Copy!Run
  <2>3. backup' = backup \/ backup' = target \/ backup' \in Copy!Uncertain
    BY <2>1 DEF Copy!Saved
  <2>4. /\ target' \in Copy!Contents /\ backup' \in Copy!Contents
        /\ Clean(target') /\ Clean(backup') /\ AtMost(target', runs) /\ AtMost(backup', runs)
    BY <2>1, <2>3, <1>t, UncertainIsClean DEF DataInv, Copy!TypeOK, Copy!Contents
  <2>5. Copy!TypeOK'
    BY <2>1, <2>2, <2>4, <1>t, CountsAssumption DEF Copy!TypeOK
  <2>6. \A db \in Copy!Contents : AtMost(db, runs) => AtMost(db, runs')
    BY <2>1, <1>t, <1>d, CountsAssumption DEF AtMost, Copy!Contents, Copy!Databases
  <2>7. AtMost(target', runs') /\ AtMost(backup', runs') /\ AtMost(target', runs' - 1) /\ runs' > 0
    BY <2>1, <2>4, <2>6, <1>t
  <2> QED BY <2>1, <2>2, <2>4, <2>5, <2>7 DEF DataInv, Clean, AtMost
<1>3. CASE Copy!PrepareTarget
  <2>1. /\ dataPc = "schema" /\ dataPc' = "namespaces" /\ ~passed
        /\ UNCHANGED <<orphans, backup, dataTodo, passed, dataFaults, runs>>
    BY <1>3 DEF Copy!PrepareTarget, DataInv
  <2> DEFINE db == Copy!Opened
  <2>2. db \in Copy!Databases /\ Clean(db) /\ \A m \in Memories : db.rows[m] <= runs - 1
    BY <2>1, <1>t, OpenedIsDatabase DEF DataInv
  <2>3. target' = [db EXCEPT !.tainted = db.tainted \/ Copy!Copied(db)]
    BY <1>3, Zenon DEF Copy!PrepareTarget
  <2>4. /\ target' \in Copy!Databases /\ target'.rows = db.rows
        /\ ~target'.tainted => ~Copy!Copied(db)
    <3>1. (db.tainted \/ Copy!Copied(db)) \in BOOLEAN
      BY Zenon
    <3> HIDE DEF db
    <3> QED BY <2>2, <2>3, <3>1 DEF Copy!Databases
  <2>5. ~target'.tainted => \A m \in Memories : target'.rows[m] = 0
    BY <2>2, <2>4 DEF Copy!Copied, Copy!Databases
  <2>6. Copy!TypeOK' /\ target' # NoDatabase
    BY <2>1, <2>4, <1>t, <1>d DEF Copy!TypeOK, Copy!Contents
  <2>7. \A m \in Memories : target'.rows[m] <= runs - 1 /\ target'.rows[m] <= runs
    BY <2>2, <2>4, <1>t DEF Copy!Databases
  <2>8. Clean(target)' /\ AtMost(target, runs)' /\ AtMost(target, runs - 1)'
    BY <2>1, <2>5, <2>7 DEF Clean, AtMost
  <2> QED BY <2>1, <2>5, <2>6, <2>8 DEF DataInv, Clean, AtMost
<1>4. CASE Copy!MigrateNamespaces
  <2>1. /\ dataPc = "namespaces" /\ dataPc' = "memories" /\ dataTodo' = Memories
        /\ target' \in {target, [target EXCEPT !.spaces = "all"]}
        /\ dataFaults' \in 0 .. MaxFaults /\ ~passed
        /\ UNCHANGED <<orphans, backup, passed, runs>>
    BY <1>4, <1>t, CountsAssumption DEF Copy!MigrateNamespaces, DataInv, Copy!TypeOK
  <2>2. target \in Copy!Databases
    BY <2>1, <1>t DEF DataInv, Copy!TypeOK, Copy!Contents
  <2>3. target' \in Copy!Databases /\ target'.rows = target.rows /\ target'.own = target.own
          /\ target'.tainted = target.tainted
    BY <2>1, <2>2 DEF Copy!Databases
  <2>4. Copy!TypeOK' /\ target' # NoDatabase /\ target # NoDatabase
    BY <2>1, <2>2, <2>3, <1>t, <1>d DEF Copy!TypeOK, Copy!Contents
  <2>5. Clean(target)' /\ AtMost(target, runs)'
    BY <2>1, <2>3, <2>4, <1>t DEF Clean, AtMost, DataInv
  <2> QED BY <2>1, <2>3, <2>4, <2>5 DEF DataInv, Clean, AtMost
<1>5. CASE Copy!InsertMemory
  <2>1. /\ dataPc = "memories" /\ dataTodo # {} /\ dataPc' = dataPc
        /\ target' = [target EXCEPT !.rows[Copy!First] = @ + 1]
        /\ dataTodo' = dataTodo \ {Copy!First} /\ ~passed
        /\ UNCHANGED <<orphans, backup, passed, dataFaults, runs>>
    BY <1>5 DEF Copy!InsertMemory, DataInv
  <2>2. Copy!First \in dataTodo
    BY <2>1, <1>t, MemoriesAssumption DEF Copy!First, Copy!TypeOK
  <2>3. target \in Copy!Databases /\ Copy!First \in Memories
    BY <2>1, <2>2, <1>t DEF DataInv, Copy!TypeOK, Copy!Contents
  <2> DEFINE f == Copy!First
  <2>4. target.rows \in [Memories -> 0 .. MaxRuns] /\ target.rows[f] + 1 <= runs /\ runs <= MaxRuns
          /\ f \in Memories
    BY <2>1, <2>2, <2>3, <1>t, CountsAssumption DEF DataInv, Copy!Databases, Copy!TypeOK
  <2>5. /\ target'.rows = [target.rows EXCEPT ![f] = @ + 1] /\ target'.own = target.own
        /\ target'.tainted = target.tainted /\ target'.spaces = target.spaces
        /\ target' \in Copy!Databases
    <3> HIDE DEF f
    <3>1. target' = [target EXCEPT !.rows = [target.rows EXCEPT ![f] = @ + 1]]
      BY <2>1, <2>3 DEF Copy!Databases, f
    <3>2. [target.rows EXCEPT ![f] = @ + 1] \in [Memories -> 0 .. MaxRuns]
      <4>1. target.rows[f] + 1 \in 0 .. MaxRuns
        BY <2>3, <2>4, CountsAssumption, <1>t
      <4> QED BY <2>3, <2>4, <4>1
    <3> QED BY <2>3, <3>1, <3>2 DEF Copy!Databases
  <2>6. \A m \in Memories : target'.rows[m] = IF m = f THEN target.rows[f] + 1 ELSE target.rows[m]
    BY <2>4, <2>5
  <2>7. Copy!TypeOK' /\ target' # NoDatabase /\ target # NoDatabase
    BY <2>1, <2>3, <2>5, <1>t, <1>d DEF Copy!TypeOK, Copy!Contents
  <2>8. AtMost(target, runs)'
    BY <2>1, <2>4, <2>6, <2>7, <1>t DEF AtMost, DataInv
  <2>9. Clean(target)'
    BY <2>1, <2>2, <2>5, <2>6, <2>7 DEF Clean, DataInv
  <2>10. /\ \A m \in dataTodo' : target'.rows[m] <= runs - 1
         /\ ~target'.tainted => \A m \in dataTodo' : target'.rows[m] = 0
    BY <2>1, <2>5, <2>6, <1>t DEF DataInv, Copy!TypeOK
  <2> QED BY <2>1, <2>7, <2>8, <2>9, <2>10 DEF DataInv, Clean, AtMost
<1>6. CASE Copy!SkipMemory \/ Copy!Complete \/ Copy!ReadFails
  <2>1. /\ dataPc = "memories" /\ ~passed /\ dataPc' \in {"memories", "idle"}
        /\ dataTodo' \subseteq dataTodo /\ dataFaults' \in 0 .. MaxFaults
        /\ UNCHANGED <<orphans, target, backup, passed, runs>>
    BY <1>6, <1>t, CountsAssumption
       DEF Copy!SkipMemory, Copy!Complete, Copy!ReadFails, DataInv, Copy!TypeOK
  <2>2. Copy!TypeOK'
    BY <2>1, <1>t DEF Copy!TypeOK
  <2> QED BY <2>1, <2>2 DEF DataInv, Clean, AtMost
<1>7. CASE Copy!RunFails
  <2>1. /\ dataPc # "idle" /\ dataPc' = "idle" /\ dataTodo' = {} /\ ~passed
        /\ dataFaults' \in 0 .. MaxFaults
        /\ UNCHANGED <<orphans, backup, passed, runs>>
    BY <1>7, <1>t, CountsAssumption DEF Copy!RunFails, DataInv, Copy!TypeOK
  <2>2. target' \in Copy!Contents /\ Clean(target)' /\ AtMost(target, runs)'
    <3>1. CASE target = NoDatabase
      BY <1>7, <2>1, <3>1, <1>t DEF Copy!RunFails, DataInv, Clean, AtMost, Copy!Contents
    <3>2. CASE target # NoDatabase
      <4>0. PICK sp \in {target.spaces, "some"} :
              target' = [target EXCEPT !.spaces = sp, !.tainted = TRUE]
        BY <1>7, <3>2, Zenon DEF Copy!RunFails
      <4>1. target \in Copy!Databases
        BY <3>2, <1>t DEF Copy!TypeOK, Copy!Contents
      <4>2. target'.tainted /\ target'.rows = target.rows /\ target' \in Copy!Databases
        BY <4>0, <4>1 DEF Copy!Databases
      <4> QED BY <2>1, <3>2, <4>2 DEF DataInv, Clean, AtMost, Copy!Contents
    <3> QED BY <3>1, <3>2
  <2>3. Copy!TypeOK'
    BY <2>1, <2>2, <1>t DEF Copy!TypeOK
  <2> QED BY <2>1, <2>2, <2>3 DEF DataInv, Clean, AtMost
<1>8. CASE Copy!Rollback
  <2>1. /\ dataPc = "idle" /\ backup # NoDatabase /\ target' \in {backup} \cup Copy!Uncertain
        /\ UNCHANGED <<orphans, backup, dataPc, dataTodo, dataFaults, runs>>
    BY <1>8 DEF Copy!Rollback
  <2>2. ~passed' /\ passed' \in BOOLEAN
    BY <1>8, Zenon DEF Copy!Rollback
  <2>3. target' \in Copy!Contents /\ Clean(target') /\ AtMost(target', runs)
    BY <2>1, <1>t, UncertainIsClean DEF DataInv, Copy!TypeOK, Copy!Contents
  <2>4. Copy!TypeOK'
    BY <2>1, <2>2, <2>3, <1>t DEF Copy!TypeOK
  <2> QED BY <2>1, <2>2, <2>3, <2>4 DEF DataInv, Clean, AtMost
<1>9. CASE Copy!Validate
  <2>1. /\ dataPc = "idle" /\ UNCHANGED <<orphans, target, backup, dataPc, dataTodo, dataFaults, runs>>
    BY <1>9 DEF Copy!Validate
  <2>2. passed' \in BOOLEAN /\ (passed' => target # NoDatabase /\ Copy!Matches(target))
    BY <1>9, Zenon DEF Copy!Validate
  <2>3. Copy!TypeOK'
    BY <2>1, <2>2, <1>t DEF Copy!TypeOK
  <2>4. ASSUME passed', ~target.tainted, target.own = 0
        PROVE  \A m \in Memories : target.rows[m] = 1
    <3>1. target \in Copy!Databases
      BY <2>2, <2>4, <1>t DEF Copy!TypeOK, Copy!Contents
    <3>2. target # NoDatabase /\ Copy!Count(target) = Cardinality(Memories)
      BY <2>2, <2>4, CopyCountsAlike, Zenon DEF Copy!Matches
    <3>3. \A m \in Memories : target.rows[m] <= 1
      BY <3>2, <2>4 DEF DataInv, Clean
    <3> QED BY <2>4, <3>1, <3>2, <3>3, AllCounted
  <2> QED BY <2>1, <2>2, <2>3, <2>4 DEF DataInv, Clean, AtMost
<1>10. CASE Copy!Store
  <2> DEFINE db == Copy!Opened
  <2>1. db \in Copy!Databases /\ Clean(db) /\ \A m \in Memories : db.rows[m] <= runs
    BY <1>t, OpenedIsDatabase DEF DataInv
  <2>2. /\ target' = [db EXCEPT !.own = 1, !.spaces = IF @ = "all" THEN @ ELSE "some"]
        /\ UNCHANGED <<orphans, backup, dataPc, dataTodo, dataFaults, runs>>
    BY <1>10 DEF Copy!Store
  <2>3. ~passed' /\ passed' \in BOOLEAN
    BY <1>10, Zenon DEF Copy!Store
  <2>4. target' \in Copy!Databases /\ target'.rows = db.rows /\ target'.tainted = db.tainted
    <3> DEFINE sp == IF db.spaces = "all" THEN db.spaces ELSE "some"
    <3>1. target' = [db EXCEPT !.own = 1, !.spaces = sp] /\ sp \in {"none", "some", "all"}
            /\ db \in Copy!Databases
      BY <2>1, <2>2
    <3> HIDE DEF db, sp
    <3>2. target' = [rows |-> db.rows, own |-> 1, spaces |-> sp, tainted |-> db.tainted]
      BY <3>1 DEF Copy!Databases
    <3>3. db.rows \in [Memories -> 0 .. MaxRuns] /\ db.tainted \in BOOLEAN /\ 1 \in 0 .. 1
      BY <3>1 DEF Copy!Databases
    <3> QED BY <3>1, <3>2, <3>3 DEF Copy!Databases
  <2>5. Copy!TypeOK' /\ target' # NoDatabase
    BY <2>2, <2>3, <2>4, <1>t, <1>d DEF Copy!TypeOK, Copy!Contents
  <2>6. Clean(target)' /\ AtMost(target, runs)'
    BY <2>1, <2>2, <2>4, <1>d DEF Clean, AtMost
  <2>7. CASE target = NoDatabase
    <3>1. \A m \in Memories : target'.rows[m] = 0
      BY <2>4, <2>7, OpenedIsDatabase
    <3>2. AtMost(target, runs - 1)' \/ ~(runs > 0)
      BY <2>2, <3>1, <1>t DEF AtMost
    <3> QED BY <2>2, <2>3, <2>5, <2>6, <2>7, <3>1, <3>2, <1>t DEF DataInv, Clean, AtMost
  <2>8. CASE target # NoDatabase
    <3>1. target'.rows = target.rows /\ target'.tainted = target.tainted
      BY <2>4, <2>8, OpenedIsDatabase
    <3> QED BY <2>2, <2>3, <2>5, <2>6, <2>8, <3>1 DEF DataInv, Clean, AtMost
  <2> QED BY <2>7, <2>8
<1>11. CASE Copy!Delete
  <2>1. /\ target # NoDatabase
        /\ UNCHANGED <<orphans, backup, dataPc, dataTodo, dataFaults, runs>>
    BY <1>11 DEF Copy!Delete
  <2>2. ~passed' /\ passed' \in BOOLEAN
    BY <1>11, Zenon DEF Copy!Delete
  <2>3. target \in Copy!Databases
    BY <2>1, <1>t DEF Copy!TypeOK, Copy!Contents
  <2> DEFINE Fewer ==
               /\ target' \in Copy!Databases /\ target'.tainted = target.tainted
               /\ \A m \in Memories : target'.rows[m] <= target.rows[m] /\ target'.rows[m] \in Nat
                                      /\ target.rows[m] \in Nat
  <2>4. Fewer
    <3>1. CASE target.own > 0 /\ target' = [target EXCEPT !.own = @ - 1]
      BY <2>3, <3>1, CountsAssumption DEF Copy!Databases
    <3>2. ASSUME NEW x \in Memories, target.rows[x] > 0, target' = [target EXCEPT !.rows[x] = @ - 1]
          PROVE  Fewer
      <4>1. target.rows \in [Memories -> 0 .. MaxRuns] /\ target.rows[x] - 1 \in 0 .. MaxRuns
        BY <2>3, <3>2, CountsAssumption DEF Copy!Databases
      <4>2. target' = [target EXCEPT !.rows = [target.rows EXCEPT ![x] = @ - 1]]
        BY <2>3, <3>2 DEF Copy!Databases
      <4>3. [target.rows EXCEPT ![x] = @ - 1] \in [Memories -> 0 .. MaxRuns]
        BY <4>1
      <4>4. target' \in Copy!Databases /\ target'.tainted = target.tainted
              /\ target'.rows = [target.rows EXCEPT ![x] = @ - 1]
        BY <2>3, <4>2, <4>3 DEF Copy!Databases
      <4> QED BY <4>1, <4>4, CountsAssumption
    <3> QED BY <1>11, <3>1, <3>2 DEF Copy!Delete
  <2>5. Copy!TypeOK' /\ target' # NoDatabase
    BY <2>1, <2>2, <2>4, <1>t, <1>d DEF Copy!TypeOK, Copy!Contents
  <2>6. Clean(target)'
    BY <2>1, <2>4 DEF Clean, DataInv
  <2>7. \A n \in Int : AtMost(target, n) => AtMost(target', n)
    BY <2>1, <2>4 DEF AtMost
  <2>8. /\ AtMost(target, runs)'
        /\ dataPc \in {"schema", "namespaces"} => AtMost(target, runs - 1)'
    BY <2>1, <2>7, <1>t DEF AtMost, DataInv
  <2>9. /\ dataPc = "memories" => \A m \in dataTodo : target'.rows[m] <= runs - 1
        /\ dataPc = "namespaces" /\ ~target'.tainted => \A m \in Memories : target'.rows[m] = 0
        /\ dataPc = "memories" /\ ~target'.tainted => \A m \in dataTodo : target'.rows[m] = 0
    BY <2>4, <1>t DEF DataInv, Copy!TypeOK
  <2> QED BY <2>1, <2>2, <2>5, <2>6, <2>8, <2>9 DEF DataInv, Clean, AtMost
<1> QED
  BY <1>1, <1>2, <1>3, <1>4, <1>5, <1>6, <1>7, <1>8, <1>9, <1>10, <1>11 DEF Copy!Next

\* The types of the databases and of the run.
THEOREM DataTypes == ServicesSpec => []Copy!TypeOK
<1>1. ServicesInit => DataInv
  BY DataInit DEF ServicesInit
<1>2. DataInv /\ [ServicesNext]_all => DataInv'
  BY DataNext, DataStep
<1>3. DataInv => Copy!TypeOK
  BY DEF DataInv
<1> QED
  BY <1>1, <1>2, <1>3, PTL DEF ServicesSpec

\* A target that passes validation by its counts and has no memories of others has
\* every memory of the source once, for any number of memories and of runs and
\* whatever others stored and deleted, unless a run was begun on a target that had
\* copies, or failed, or a file was copied without its -wal file (migrate.rs:1820).
THEOREM ValidatedMeansMigratedHolds == ServicesSpec => []ValidatedMeansMigrated
<1>1. ServicesInit => DataInv
  BY DataInit DEF ServicesInit
<1>2. DataInv /\ [ServicesNext]_all => DataInv'
  BY DataNext, DataStep
<1>3. DataInv => ValidatedMeansMigrated
  BY DEF DataInv, Copy!ValidatedMeansMigrated, ValidatedMeansMigrated
<1> QED
  BY <1>1, <1>2, <1>3, PTL DEF ServicesSpec

-----------------------------------------------------------------------------
(* EmbeddingCache: the locks have an order, the map's before that of the hits *)
(* and both before that of the misses.  A caller that holds a lock goes on    *)
(* with a release or with a later lock.                                       *)

\* A step of the services is a step of the embedding cache or leaves it alone.
LEMMA CacheStep == [ServicesNext]_all => [Cache!Next]_cacheVars
  BY DEF ServicesNext, Only, all

Locks == {"cache", "hits", "misses"}
Takes == Locks \X {"read", "write"}
Steps == Locks \X {"read", "write", "release"}

\* Nobody who holds a lock waits for it or for an earlier one.
After(lock) ==
  CASE lock = "cache" -> {"hits", "misses"}
    [] lock = "hits"  -> {"misses"}
    [] OTHER          -> {}

\* What the steps of op before step i leave held.
HeldAt(op, i) ==
  {h \in Takes : \E j \in 1 .. Len(op) :
     /\ j < i /\ op[j] = h
     /\ \A k \in 1 .. Len(op) : j < k /\ k < i => op[k] # <<h[1], "release">>}

\* Caller c stands before step i of op.
At(c, op, i) ==
  /\ i \in 1 .. Len(op) + 1
  /\ cacheTodo[c] = SubSeq(op, i, Len(op))
  /\ holds[c] = HeldAt(op, i)

CacheInv ==
  /\ cacheTodo \in [Callers -> Seq(Steps)] /\ holds \in [Callers -> SUBSET Takes]
  /\ \A c \in Callers : \E op \in Cache!Operations, i \in Nat : At(c, op, i)

\* The operations of the cache are sequences of steps.
LEMMA OperationsAre ==
  /\ Cache!Operations \subseteq Seq(Steps)
  /\ Cache!Operations # {}
<1> USE DEF Cache!Operations, Cache!Read, Cache!Write, Cache!Release, Steps, Locks
<1>1. Cache!Miss \in Seq(Steps)
  BY DEF Cache!Miss
<1>2. Cache!Hit \in Seq(Steps)
  BY DEF Cache!Hit
<1>3. Cache!Put \in Seq(Steps)
  BY DEF Cache!Put
<1>4. Cache!Stats \in Seq(Steps)
  BY DEF Cache!Stats
<1>5. Cache!Size \in Seq(Steps)
  BY DEF Cache!Size
<1>6. Cache!Clear \in Seq(Steps)
  BY DEF Cache!Clear
<1> HIDE DEF Cache!Read, Cache!Write, Cache!Release, Steps, Locks
<1> QED BY <1>1, <1>2, <1>3, <1>4, <1>5, <1>6

\* What is left of an operation at its i-th step, and its first step.
LEMMA RestIs ==
  ASSUME NEW op \in Seq(Steps), NEW i \in 1 .. Len(op) + 1
  PROVE  /\ SubSeq(op, i, Len(op)) \in Seq(Steps)
         /\ SubSeq(op, i, Len(op)) = << >> <=> i = Len(op) + 1
         /\ i <= Len(op) => /\ Head(SubSeq(op, i, Len(op))) = op[i]
                            /\ Tail(SubSeq(op, i, Len(op))) = SubSeq(op, i + 1, Len(op))
                            /\ op[i] \in Steps
<1>1. Len(op) \in Nat /\ i \in Int /\ \A j \in i .. Len(op) : op[j] \in Steps
  OBVIOUS
<1>2. SubSeq(op, i, Len(op)) \in Seq(Steps)
      /\ Len(SubSeq(op, i, Len(op))) = (IF i <= Len(op) THEN Len(op) - i + 1 ELSE 0)
  BY <1>1, SubSeqProperties
<1>3. SubSeq(op, i, Len(op)) = << >> <=> i = Len(op) + 1
  <2>1. CASE i = Len(op) + 1
    BY <1>1, <2>1, SubSeqEmpty
  <2>2. CASE i # Len(op) + 1
    <3>1. i <= Len(op) /\ Len(op) - i + 1 # 0
      BY <1>1, <2>2
    <3>2. Len(SubSeq(op, i, Len(op))) # 0 /\ Len(<< >>) = 0
      BY <1>2, <3>1
    <3> QED BY <2>2, <3>2
  <2> QED BY <2>1, <2>2
<1>4. ASSUME i <= Len(op)
      PROVE  /\ Head(SubSeq(op, i, Len(op))) = op[i]
             /\ Tail(SubSeq(op, i, Len(op))) = SubSeq(op, i + 1, Len(op))
             /\ op[i] \in Steps
  BY <1>1, <1>4, HeadTailOfSubSeq
<1> QED BY <1>2, <1>3, <1>4

\* Whoever holds a lock goes on with a release or with a later lock.
Leads(op) ==
  \A i \in 1 .. Len(op) + 1 : \A h \in HeldAt(op, i) :
    i <= Len(op) /\ (op[i][2] = "release" \/ op[i][1] \in After(h[1]))

\* In every operation, whoever holds a lock goes on to a release or to a later lock.
LEMMA OperationsLead == \A op \in Cache!Operations : Leads(op)
<1> USE DEF Leads, HeldAt, Takes, Locks, After, Cache!Read, Cache!Write, Cache!Release
<1>1. Leads(Cache!Miss)
  BY DEF Cache!Miss
<1>2. Leads(Cache!Hit)
  BY DEF Cache!Hit
<1>3. Leads(Cache!Put)
  BY DEF Cache!Put
<1>4. Leads(Cache!Stats)
  BY DEF Cache!Stats
<1>5. Leads(Cache!Size)
  BY DEF Cache!Size
<1>6. Leads(Cache!Clear)
  BY DEF Cache!Clear
<1> HIDE DEF Leads
<1> QED BY <1>1, <1>2, <1>3, <1>4, <1>5, <1>6 DEF Cache!Operations

\* A release lets go of its lock, a take adds it.
LEMMA HeldNext ==
  ASSUME NEW op \in Seq(Steps), NEW i \in 1 .. Len(op)
  PROVE  HeldAt(op, i + 1) =
           IF op[i][2] = "release" THEN {h \in HeldAt(op, i) : h[1] # op[i][1]}
           ELSE HeldAt(op, i) \cup {op[i]}
<1>0. \A k \in 1 .. Len(op) : k < i + 1 <=> k < i \/ k = i
  OBVIOUS
<1>1. op[i] \in Steps
  OBVIOUS
<1>2. PICK lock \in Locks, mode \in {"read", "write", "release"} : op[i] = <<lock, mode>>
  BY <1>1 DEF Steps
<1>3. CASE mode = "release"
  <2>1. \A h \in Takes : op[i] # h
    BY <1>2, <1>3 DEF Takes
  <2>2. ASSUME NEW h \in HeldAt(op, i + 1) PROVE h \in HeldAt(op, i) /\ h[1] # lock
    <3>1. PICK j \in 1 .. Len(op) :
            /\ j < i /\ op[j] = h
            /\ \A k \in 1 .. Len(op) : j < k /\ k < i + 1 => op[k] # <<h[1], "release">>
      BY <1>0, <2>1, <2>2 DEF HeldAt
    <3>2. op[i] # <<h[1], "release">>
      BY <1>0, <3>1
    <3>3. h \in HeldAt(op, i)
      BY <1>0, <2>2, <3>1 DEF HeldAt
    <3> QED BY <1>2, <1>3, <3>2, <3>3
  <2>3. ASSUME NEW h \in HeldAt(op, i), h[1] # lock PROVE h \in HeldAt(op, i + 1)
    <3>1. op[i] # <<h[1], "release">>
      BY <1>2, <2>3
    <3> QED BY <1>0, <2>3, <3>1 DEF HeldAt
  <2>4. op[i][1] = lock /\ op[i][2] = "release"
    BY <1>2, <1>3
  <2> QED BY <2>2, <2>3, <2>4
<1>4. CASE mode # "release"
  <2>1. op[i] \in Takes /\ \A l : op[i] # <<l, "release">>
    BY <1>2, <1>4 DEF Takes
  <2>2. ASSUME NEW h \in HeldAt(op, i + 1) PROVE h \in HeldAt(op, i) \cup {op[i]}
    BY <1>0, <2>2 DEF HeldAt
  <2>3. ASSUME NEW h \in HeldAt(op, i) PROVE h \in HeldAt(op, i + 1)
    BY <1>0, <2>1, <2>3 DEF HeldAt
  <2>4. op[i] \in HeldAt(op, i + 1)
    BY <1>0, <2>1 DEF HeldAt
  <2>5. op[i][2] # "release"
    BY <1>2, <1>4
  <2> QED BY <2>2, <2>3, <2>4, <2>5
<1> QED BY <1>3, <1>4

\* No lock is held before an operation or after it.
LEMMA NothingHeld ==
  /\ \A op : HeldAt(op, 1) = {}
  /\ \A op \in Cache!Operations : HeldAt(op, Len(op) + 1) = {}
<1>1. \A op : HeldAt(op, 1) = {}
  BY DEF HeldAt
<1>2. ASSUME NEW op \in Cache!Operations, NEW h \in HeldAt(op, Len(op) + 1) PROVE FALSE
  <2>1. Len(op) \in Nat
    BY OperationsAre
  <2> QED BY <1>2, <2>1, OperationsLead DEF Leads
<1> QED BY <1>1, <1>2

\* The invariant of the embedding cache holds before any caller comes.
LEMMA CacheInit == Cache!Init => CacheInv
<1> SUFFICES ASSUME Cache!Init PROVE CacheInv
  OBVIOUS
<1>1. cacheTodo = [c \in Callers |-> << >>] /\ holds = [c \in Callers |-> {}]
  BY DEF Cache!Init
<1>2. PICK op \in Cache!Operations : op \in Seq(Steps)
  BY OperationsAre
<1>3. Len(op) + 1 \in 1 .. Len(op) + 1 /\ Len(op) + 1 \in Nat
  BY <1>2
<1>4. SubSeq(op, Len(op) + 1, Len(op)) = << >> /\ HeldAt(op, Len(op) + 1) = {}
  BY <1>2, <1>3, RestIs, NothingHeld
<1>5. \A c \in Callers : At(c, op, Len(op) + 1)
  BY <1>1, <1>3, <1>4 DEF At
<1> QED BY <1>1, <1>2, <1>3, <1>5 DEF CacheInv

\* Every step of the embedding cache keeps its invariant.
LEMMA CacheNext == CacheInv /\ [Cache!Next]_cacheVars => CacheInv'
<1> SUFFICES ASSUME CacheInv, [Cache!Next]_cacheVars PROVE CacheInv'
  OBVIOUS
<1>1. ASSUME NEW c \in Callers, Cache!Call(c) PROVE CacheInv'
  <2>1. PICK op \in Cache!Operations : cacheTodo' = [cacheTodo EXCEPT ![c] = op]
    BY <1>1 DEF Cache!Call
  <2>2. op \in Seq(Steps) /\ 1 \in 1 .. Len(op) + 1
    BY OperationsAre
  <2>3. holds' = holds /\ cacheTodo[c] = << >>
    BY <1>1 DEF Cache!Call
  <2>4. holds[c] = {}
    <3>1. PICK o \in Cache!Operations, i \in Nat : At(c, o, i)
      BY DEF CacheInv
    <3>2. o \in Seq(Steps)
      BY OperationsAre
    <3> QED BY <2>3, <3>1, <3>2, RestIs, NothingHeld DEF At
  <2>5. cacheTodo'[c] = SubSeq(op, 1, Len(op)) /\ holds'[c] = HeldAt(op, 1)
    BY <2>1, <2>2, <2>3, <2>4, SubSeqFull, NothingHeld DEF CacheInv
  <2>6. At(c, op, 1)'
    BY <2>2, <2>5 DEF At
  <2>7. \A d \in Callers \ {c} : \A o, i : At(d, o, i) => At(d, o, i)'
    BY <2>1, <2>3 DEF At, CacheInv
  <2>8. cacheTodo' \in [Callers -> Seq(Steps)] /\ holds' \in [Callers -> SUBSET Takes]
    BY <2>1, <2>2, <2>3 DEF CacheInv
  <2> QED BY <2>6, <2>7, <2>8 DEF CacheInv
<1>2. ASSUME NEW c \in Callers, Cache!Go(c) PROVE CacheInv'
  <2>1. PICK op \in Cache!Operations, i \in Nat : At(c, op, i)
    BY DEF CacheInv
  <2>2. op \in Seq(Steps) /\ i \in 1 .. Len(op) + 1
    BY <2>1, OperationsAre DEF At
  <2>3. cacheTodo[c] # << >> /\ cacheTodo[c] = SubSeq(op, i, Len(op))
    BY <1>2, <2>1 DEF Cache!Go, Cache!MayGo, At
  <2>4. i \in 1 .. Len(op)
    BY <2>2, <2>3, RestIs
  <2>5. /\ Head(cacheTodo[c]) = op[i] /\ Tail(cacheTodo[c]) = SubSeq(op, i + 1, Len(op))
        /\ op[i] \in Steps
    BY <2>2, <2>3, <2>4, RestIs
  <2>6. /\ cacheTodo' = [cacheTodo EXCEPT ![c] = SubSeq(op, i + 1, Len(op))]
        /\ holds' = [holds EXCEPT ![c] = HeldAt(op, i + 1)]
    <3>1. holds[c] = HeldAt(op, i)
      BY <2>1 DEF At
    <3>2. HeldAt(op, i + 1) = (IF op[i][2] = "release" THEN {h \in holds[c] : h[1] # op[i][1]}
                               ELSE holds[c] \cup {op[i]})
      BY <2>2, <2>4, <3>1, HeldNext
    <3> QED BY <1>2, <2>5, <3>2 DEF Cache!Go, CacheInv
  <2>7. i + 1 \in 1 .. Len(op) + 1 /\ i + 1 \in Nat /\ SubSeq(op, i + 1, Len(op)) \in Seq(Steps)
    BY <2>2, <2>4, RestIs
  <2>8. At(c, op, i + 1)'
    BY <2>6, <2>7 DEF At, CacheInv
  <2>9. \A d \in Callers \ {c} : \A o, j : At(d, o, j) => At(d, o, j)'
    BY <2>6 DEF At, CacheInv
  <2>10. HeldAt(op, i + 1) \in SUBSET Takes
    BY DEF HeldAt
  <2>11. cacheTodo' \in [Callers -> Seq(Steps)] /\ holds' \in [Callers -> SUBSET Takes]
    BY <2>6, <2>7, <2>10 DEF CacheInv
  <2> QED BY <2>7, <2>8, <2>9, <2>11 DEF CacheInv
<1>3. CASE UNCHANGED cacheVars
  BY <1>3 DEF CacheInv, At, cacheVars
<1> QED BY <1>1, <1>2, <1>3 DEF Cache!Next

\* The invariant of the embedding cache contains its types.
LEMMA CacheTyped == CacheInv => Cache!TypeOK
<1> SUFFICES ASSUME CacheInv, NEW c \in Callers
             PROVE  /\ \E op \in Cache!Operations :
                         cacheTodo[c] \in {SubSeq(op, i, Len(op)) : i \in 1 .. Len(op) + 1}
                    /\ holds[c] \subseteq {"cache", "hits", "misses"} \X {"read", "write"}
  BY DEF Cache!TypeOK
<1> QED BY DEF CacheInv, At, Takes, Locks

\* Callers who hold a lock that others want, and what they do next.
HolderOf(c, lock) == \E mode \in {"read", "write"} : <<lock, mode>> \in holds[c]
Wanting(c, lock)  == cacheTodo[c] # << >> /\ \E mode \in {"read", "write"} :
                       Head(cacheTodo[c]) = <<lock, mode>>
Releasing(c)      == cacheTodo[c] # << >> /\ Head(cacheTodo[c])[2] = "release"

\* Whoever holds a lock releases it next or wants a later one.
LEMMA HolderGoes ==
  ASSUME CacheInv, NEW c \in Callers, NEW lock \in Locks, HolderOf(c, lock)
  PROVE  Releasing(c) \/ \E later \in After(lock) : Wanting(c, later)
<1>1. PICK op \in Cache!Operations, i \in Nat : At(c, op, i)
  BY DEF CacheInv
<1>2. PICK mode \in {"read", "write"} : <<lock, mode>> \in HeldAt(op, i)
  BY <1>1 DEF HolderOf, At
<1>3. op \in Seq(Steps) /\ i \in 1 .. Len(op) + 1
  BY <1>1, OperationsAre DEF At
<1>4. i <= Len(op) /\ (op[i][2] = "release" \/ op[i][1] \in After(lock))
  BY <1>2, <1>3, OperationsLead DEF Leads
<1>5. cacheTodo[c] # << >> /\ Head(cacheTodo[c]) = op[i] /\ op[i] \in Steps
  BY <1>1, <1>3, <1>4, RestIs DEF At
<1>6. op[i][2] = "release" \/ \E later \in After(lock), m \in {"read", "write"} : op[i] = <<later, m>>
  BY <1>4, <1>5 DEF Steps
<1> QED BY <1>5, <1>6 DEF Releasing, Wanting

\* Whoever is about to release a lock can.
LEMMA ReleasingGoes ==
  ASSUME NEW c \in Callers, Releasing(c)
  PROVE  Cache!MayGo(c)
  BY DEF Releasing, Cache!MayGo

\* Of those who want a lock that is free one may go: a writer if there is one.
LEMMA WantingGoes ==
  ASSUME NEW lock, NEW c \in Callers, Wanting(c, lock),
         \A d \in Callers : ~HolderOf(d, lock)
  PROVE  \E d \in Callers : Cache!MayGo(d)
<1>1. \A d \in Callers : <<lock, "read">> \notin holds[d] /\ <<lock, "write">> \notin holds[d]
  BY DEF HolderOf
<1>2. CASE \E d \in Callers : Cache!Waits(d, Cache!Write(lock))
  <2>1. PICK d \in Callers : cacheTodo[d] # << >> /\ Head(cacheTodo[d]) = <<lock, "write">>
    BY <1>2 DEF Cache!Waits, Cache!Write
  <2>2. Cache!Free(d, lock, "write")
    BY <1>1 DEF Cache!Free, Cache!Write, Cache!Read
  <2> QED BY <2>1, <2>2 DEF Cache!MayGo
<1>3. CASE \A d \in Callers : ~Cache!Waits(d, Cache!Write(lock))
  <2>1. PICK mode : Head(cacheTodo[c]) = <<lock, mode>> /\ cacheTodo[c] # << >>
    BY DEF Wanting
  <2>2. Cache!Free(c, lock, mode)
    BY <1>1, <1>3 DEF Cache!Free, Cache!Write, Cache!Read
  <2> QED BY <2>1, <2>2 DEF Cache!MayGo
<1> QED BY <1>2, <1>3

\* By the order of the locks some caller can always go.
LEMMA CacheSafe == CacheInv => NeverStuck
<1> SUFFICES ASSUME CacheInv, NEW c \in Callers, cacheTodo[c] # << >>,
                    \A d \in Callers : ~Cache!MayGo(d)
             PROVE  FALSE
  BY DEF NeverStuck, Cache!NeverStuck
<1>1. \A d \in Callers : ~Releasing(d)
  BY ReleasingGoes
<1>2. \A d \in Callers : ~HolderOf(d, "misses")
  BY <1>1, HolderGoes DEF Locks, After
<1>3. \A d \in Callers : ~Wanting(d, "misses")
  BY <1>2, WantingGoes
<1>4. \A d \in Callers : ~HolderOf(d, "hits")
  BY <1>1, <1>3, HolderGoes DEF Locks, After
<1>5. \A d \in Callers : ~Wanting(d, "hits")
  BY <1>4, WantingGoes
<1>6. \A d \in Callers : ~HolderOf(d, "cache")
  BY <1>1, <1>3, <1>5, HolderGoes DEF Locks, After
<1>7. \A d \in Callers : ~Wanting(d, "cache")
  BY <1>6, WantingGoes
<1>8. Head(cacheTodo[c]) \in Steps
  BY DEF CacheInv
<1>9. Releasing(c) \/ \E lock \in Locks : Wanting(c, lock)
  BY <1>8 DEF Steps, Releasing, Wanting
<1> QED BY <1>1, <1>3, <1>5, <1>7, <1>9 DEF Locks

\* Every caller stands before a step of one of the operations, and holds locks.
THEOREM CacheTypes == ServicesSpec => []Cache!TypeOK
<1>1. ServicesInit => CacheInv
  BY CacheInit DEF ServicesInit
<1>2. CacheInv /\ [ServicesNext]_all => CacheInv'
  BY CacheStep, CacheNext
<1> QED BY <1>1, <1>2, CacheTyped, PTL DEF ServicesSpec

\* However many callers there are and whichever operations they interleave, one
\* of those that are in an operation can go on (cache.rs:60).
THEOREM NeverStuckHolds == ServicesSpec => []NeverStuck
<1>1. ServicesInit => CacheInv
  BY CacheInit DEF ServicesInit
<1>2. CacheInv /\ [ServicesNext]_all => CacheInv'
  BY CacheStep, CacheNext
<1> QED BY <1>1, <1>2, CacheSafe, PTL DEF ServicesSpec

-----------------------------------------------------------------------------
(* WebSocket: a ping that was read has its pong in the channel, or sent.    *)

\* A step of the services is a step of the web socket or leaves it alone.
LEMMA SocketStep == [ServicesNext]_all => [Socket!Next]_socketVars
  BY DEF ServicesNext, Only, all

SocketInv == Socket!TypeOK /\ answered + direct = read

\* The types of the web socket hold when it opens.
LEMMA SocketInit == Socket!Init => SocketInv
<1> SUFFICES ASSUME Socket!Init PROVE SocketInv
  OBVIOUS
<1>1. sender \in BOOLEAN /\ open \in BOOLEAN
  BY Zenon DEF Socket!Init
<1>2. pinged \in 0 .. MaxPings /\ read \in 0 .. pinged /\ direct \in 0 .. DirectSize
      /\ events \in 0 .. EventSize + 1 /\ answered \in 0 .. MaxPings /\ answered + direct = read
  BY CountsAssumption DEF Socket!Init
<1> QED
  BY <1>1, <1>2, Zenon DEF SocketInv, Socket!TypeOK

\* Every step of the web socket keeps its types.
LEMMA SocketNext == SocketInv /\ [Socket!Next]_socketVars => SocketInv'
<1> SUFFICES ASSUME SocketInv, [Socket!Next]_socketVars PROVE SocketInv'
  OBVIOUS
<1>1. sender' \in BOOLEAN /\ open' \in BOOLEAN
  <2>1. sender \in BOOLEAN /\ open \in BOOLEAN
    BY Zenon DEF SocketInv, Socket!TypeOK
  <2>2. (sender' = sender \/ sender' = FALSE) /\ (open' = open \/ open' = FALSE)
    BY DEF Socket!Next, Socket!Receive, Socket!Send, Socket!Ping, Socket!Publish, Socket!ReadPing,
           Socket!ReadPingFails, Socket!SendPong, Socket!SendEvent, Socket!Lag, Socket!SendFails,
           Socket!Close, socketVars
  <2> QED BY <2>1, <2>2, Zenon
<1>2. /\ pinged' \in 0 .. MaxPings /\ read' \in 0 .. pinged' /\ direct' \in 0 .. DirectSize
      /\ events' \in 0 .. EventSize + 1 /\ answered' \in 0 .. MaxPings
      /\ answered' + direct' = read'
  BY CountsAssumption
     DEF SocketInv, Socket!TypeOK, Socket!Next, Socket!Receive, Socket!Send, Socket!Ping,
         Socket!Publish, Socket!ReadPing, Socket!ReadPingFails, Socket!SendPong,
         Socket!SendEvent, Socket!Lag, Socket!SendFails, Socket!Close, socketVars
<1> QED
  BY <1>1, <1>2, Zenon DEF SocketInv, Socket!TypeOK

\* Neither channel holds more than its capacity, and no more pongs are sent than
\* pings were read (websocket.rs:52).
THEOREM SocketTypes == ServicesSpec => []Socket!TypeOK
<1>1. ServicesInit => SocketInv
  BY SocketInit DEF ServicesInit
<1>2. SocketInv /\ [ServicesNext]_all => SocketInv'
  BY SocketNext, SocketStep
<1>3. SocketInv => Socket!TypeOK
  BY DEF SocketInv
<1> QED
  BY <1>1, <1>2, <1>3, PTL DEF ServicesSpec

-----------------------------------------------------------------------------
(* Query: the buckets keep to their limits, and those to the budget; a      *)
(* memory that the context leaves out did not fit when its section was      *)
(* written, and more is shown ever since.                                   *)

\* A step of the services is a step of the query or leaves it alone.
LEMMA QueryStep == [ServicesNext]_all => [Ask!Next]_queryVars
  BY DEF ServicesNext, Only, all

\* FiniteSets, as the module that is instantiated sees it.
LEMMA AskCountsAlike == \A S : Ask!Cardinality(S) = Cardinality(S)
<1>1. \A S : Ask!IsFiniteSet(S) = IsFiniteSet(S)
  BY Zenon DEF Ask!IsFiniteSet, IsFiniteSet
<1> QED
  BY <1>1, Zenon DEF Ask!Cardinality, Cardinality

\* The members of S that are listed before m, as R lists them.
Ahead(S, R, m) == {k \in S : <<k, m>> \in R}

\* R lists the members of S one after the other.
Lists(R, S) ==
  /\ \A k, m \in S : k # m => <<k, m>> \in R \/ <<m, k>> \in R
  /\ \A k, m, o \in S : <<k, m>> \in R /\ <<m, o>> \in R => <<k, o>> \in R
  /\ \A k \in S : <<k, k>> \notin R

\* The first n of S are at most n: no two of them have as many ahead.
LEMMA FirstAreFew ==
  ASSUME NEW S, IsFiniteSet(S), NEW R, Lists(R, S), NEW n \in Nat
  PROVE  Cardinality({m \in S : Cardinality(Ahead(S, R, m)) < n}) <= n
<1> DEFINE F == {m \in S : Cardinality(Ahead(S, R, m)) < n}
           rank == [m \in F |-> Cardinality(Ahead(S, R, m))]
<1>1. \A m : IsFiniteSet(Ahead(S, R, m)) /\ Cardinality(Ahead(S, R, m)) \in Nat
  BY FS_Subset, FS_CardinalityType DEF Ahead
<1>2. ASSUME NEW k \in S, NEW m \in S, <<k, m>> \in R
      PROVE  Cardinality(Ahead(S, R, k)) < Cardinality(Ahead(S, R, m))
  <2>1. Ahead(S, R, k) \subseteq Ahead(S, R, m) /\ k \in Ahead(S, R, m) /\ k \notin Ahead(S, R, k)
    BY <1>2 DEF Ahead, Lists
  <2>2. Cardinality(Ahead(S, R, k)) <= Cardinality(Ahead(S, R, m))
        /\ Cardinality(Ahead(S, R, k)) # Cardinality(Ahead(S, R, m))
    BY <2>1, <1>1, FS_Subset
  <2> QED BY <2>2, <1>1
<1>3. rank \in [F -> 0 .. n - 1]
  BY <1>1
<1>4. ASSUME NEW k \in F, NEW m \in F, rank[k] = rank[m] PROVE k = m
  <2>1. Cardinality(Ahead(S, R, k)) = Cardinality(Ahead(S, R, m)) /\ k \in S /\ m \in S
    BY <1>4
  <2>2. ~ (<<k, m>> \in R) /\ ~ (<<m, k>> \in R)
    BY <2>1, <1>1, <1>2
  <2> QED BY <2>1, <2>2 DEF Lists
<1>5. rank \in Injection(F, 0 .. n - 1)
  <2> HIDE DEF rank, F
  <2> QED BY <1>3, <1>4 DEF Injection, IsInjective
<1>6. IsFiniteSet(0 .. n - 1) /\ Cardinality(0 .. n - 1) = n
  BY FS_Interval
<1>7. Cardinality(F) <= Cardinality(0 .. n - 1)
  BY <1>5, <1>6, FS_Injection
<1> QED
  BY <1>6, <1>7

\* The same of the operators of the model: by age, ...
LEMMA NewestAreFew ==
  ASSUME NEW S \in SUBSET Nat, IsFiniteSet(S), NEW n \in Nat
  PROVE  /\ Ask!Newest(S, n) \subseteq S
         /\ IsFiniteSet(Ask!Newest(S, n)) /\ Cardinality(Ask!Newest(S, n)) <= n
<1> DEFINE R == {p \in S \X S : p[1] > p[2]}
<1>1. Lists(R, S)
  BY DEF Lists
<1>2. \A m \in S : Ahead(S, R, m) = {k \in S : Ask!Newer(k, m)}
  BY DEF Ahead, Ask!Newer
<1>3. Ask!Newest(S, n) = {m \in S : Cardinality(Ahead(S, R, m)) < n}
  BY <1>2, AskCountsAlike DEF Ask!Newest, Ask!First
<1>4. Cardinality(Ask!Newest(S, n)) <= n
  BY <1>1, <1>3, FirstAreFew
<1> QED
  BY <1>3, <1>4, FS_Subset

\* ... by how often they were reinforced, ...
Firmest(S, n) ==
  {m \in S : Cardinality({k \in S : \/ Table[k].reinforced > Table[m].reinforced
                                    \/ Table[k].reinforced = Table[m].reinforced /\ k > m}) < n}

\* The n firmest of some memories are memories of theirs, n at most.
LEMMA FirmestAreFew ==
  ASSUME NEW S \in SUBSET DOMAIN Table, NEW n \in Nat
  PROVE  /\ Firmest(S, n) \subseteq S
         /\ IsFiniteSet(Firmest(S, n)) /\ Cardinality(Firmest(S, n)) <= n
<1> DEFINE R == {p \in S \X S : \/ Table[p[1]].reinforced > Table[p[2]].reinforced
                                \/ Table[p[1]].reinforced = Table[p[2]].reinforced /\ p[1] > p[2]}
<1>1. \A m \in S : m \in Nat /\ Table[m].reinforced \in Nat
  BY QuestionsAssumption DEF Ask!Row
<1>2. Lists(R, S)
  BY <1>1 DEF Lists
<1>3. \A m \in S : Ahead(S, R, m) =
        {k \in S : \/ Table[k].reinforced > Table[m].reinforced
                   \/ Table[k].reinforced = Table[m].reinforced /\ k > m}
  BY DEF Ahead
<1>4. Firmest(S, n) = {m \in S : Cardinality(Ahead(S, R, m)) < n}
  BY <1>3 DEF Firmest
<1>5. IsFiniteSet(S)
  BY QuestionsAssumption, FS_Subset
<1>6. Cardinality(Firmest(S, n)) <= n
  BY <1>2, <1>4, <1>5, FirstAreFew
<1> QED
  BY <1>4, <1>5, <1>6, FS_Subset

\* ... by how near they are to the question, ...
Nearest(S, n) ==
  {m \in S : Cardinality({k \in S : \/ Table[k].near > Table[m].near
                                    \/ Table[k].near = Table[m].near /\ k > m}) < n}

\* The n nearest of some memories are memories of theirs, n at most.
LEMMA NearestAreFew ==
  ASSUME NEW S \in SUBSET DOMAIN Table, NEW n \in Nat
  PROVE  /\ Nearest(S, n) \subseteq S
         /\ IsFiniteSet(Nearest(S, n)) /\ Cardinality(Nearest(S, n)) <= n
<1> DEFINE R == {p \in S \X S : \/ Table[p[1]].near > Table[p[2]].near
                                \/ Table[p[1]].near = Table[p[2]].near /\ p[1] > p[2]}
<1>1. \A m \in S : m \in Nat /\ Table[m].near \in Nat
  BY QuestionsAssumption, CountsAssumption DEF Ask!Row
<1>2. Lists(R, S)
  BY <1>1 DEF Lists
<1>3. \A m \in S : Ahead(S, R, m) =
        {k \in S : \/ Table[k].near > Table[m].near
                   \/ Table[k].near = Table[m].near /\ k > m}
  BY DEF Ahead
<1>4. Nearest(S, n) = {m \in S : Cardinality(Ahead(S, R, m)) < n}
  BY <1>3 DEF Nearest
<1>5. IsFiniteSet(S)
  BY QuestionsAssumption, FS_Subset
<1>6. Cardinality(Nearest(S, n)) <= n
  BY <1>2, <1>4, <1>5, FirstAreFew
<1> QED
  BY <1>4, <1>5, <1>6, FS_Subset

\* ... and the least of some numbers.
LowestOf(S, n) == {m \in S : Cardinality({k \in S : k < m}) < n}

\* The n lowest of some numbers are numbers of theirs, n at most.
LEMMA LowestAreFew ==
  ASSUME NEW S \in SUBSET Nat, IsFiniteSet(S), NEW n \in Nat
  PROVE  /\ LowestOf(S, n) \subseteq S
         /\ IsFiniteSet(LowestOf(S, n)) /\ Cardinality(LowestOf(S, n)) <= n
<1> DEFINE R == {p \in S \X S : p[1] < p[2]}
<1>1. Lists(R, S)
  BY DEF Lists
<1>2. \A m \in S : Ahead(S, R, m) = {k \in S : k < m}
  BY DEF Ahead
<1>3. LowestOf(S, n) = {m \in S : Cardinality(Ahead(S, R, m)) < n}
  BY <1>2 DEF LowestOf
<1>4. Cardinality(LowestOf(S, n)) <= n
  BY <1>1, <1>3, FirstAreFew
<1> QED
  BY <1>3, <1>4, FS_Subset

\* Sets of one member at most, one for each of T, are no more than T together.
LEMMA OneOfEach ==
  ASSUME NEW T, IsFiniteSet(T), NEW f, NEW D, IsFiniteSet(D),
         \A a \in T : f[a] \subseteq D /\ Cardinality(f[a]) <= 1
  PROVE  Cardinality(UNION {f[a] : a \in T}) <= Cardinality(T)
<1> DEFINE U == UNION {f[a] : a \in T}
           V == {a \in T : f[a] # {}}
           pick == [a \in V |-> CHOOSE d \in f[a] : TRUE]
<1>1. ASSUME NEW a \in T, NEW c \in f[a], NEW d \in f[a] PROVE c = d
  <2>1. IsFiniteSet(f[a]) /\ Cardinality(f[a]) \in Nat /\ Cardinality(f[a]) <= 1
    BY FS_Subset, FS_CardinalityType
  <2>2. Cardinality(f[a]) # 0
    BY <2>1, FS_EmptySet
  <2>3. Cardinality(f[a]) = 1
    BY <2>1, <2>2
  <2> QED BY <2>1, <2>3, FS_Singleton
<1>2. \A a \in V : pick[a] \in f[a]
  OBVIOUS
<1>3. pick \in [V -> U]
  BY <1>2
<1>4. ASSUME NEW d \in U PROVE \E a \in V : pick[a] = d
  <2>1. PICK a \in T : d \in f[a]
    OBVIOUS
  <2>2. a \in V
    BY <2>1
  <2>3. pick[a] \in f[a]
    BY <2>2, <1>2
  <2> QED BY <2>1, <2>2, <2>3, <1>1
<1>5. pick \in Surjection(V, U)
  <2> HIDE DEF pick, U, V
  <2> QED BY <1>3, <1>4 DEF Surjection
<1>6. IsFiniteSet(V) /\ Cardinality(V) <= Cardinality(T)
  BY FS_Subset
<1>7. IsFiniteSet(U) /\ Cardinality(U) <= Cardinality(V)
  <2> HIDE DEF pick, U, V
  <2> QED BY <1>5, <1>6, FS_Surjection
<1>8. Cardinality(U) \in Nat /\ Cardinality(V) \in Nat /\ Cardinality(T) \in Nat
  BY <1>6, <1>7, FS_CardinalityType
<1> QED
  BY <1>6, <1>7, <1>8

\* Whatever the budget, the limits of the buckets add up to it.
LEMMA LimitsAddUp ==
  ASSUME NEW n \in Nat, NEW L, L = Ask!BucketLimits(n)
  PROVE  /\ \A b \in Ask!Buckets : L[b] \in Nat
         /\ L["digests"] + L["recent"] + L["semantic"] + L["derived"] + L["contradictions"] =
              IF n = 0 THEN 1 ELSE n
<1> DEFINE g == Ask!Greatest(n, 1)
           S == Ask!Shares(g)
<1>1. g = (IF n = 0 THEN 1 ELSE n) /\ g \in Nat /\ g >= 1
  BY DEF Ask!Greatest
<1>2. /\ S = [digests |-> S.digests, contradictions |-> S.contradictions, derived |-> S.derived,
               semantic |-> S.semantic, recent |-> S.recent]
      /\ S.digests \in Nat /\ S.contradictions \in Nat /\ S.derived \in Nat
      /\ S.semantic \in Nat /\ S.recent \in Nat
      /\ S.digests + S.recent + S.semantic + S.derived + S.contradictions = g
  <2> HIDE DEF g
  <2>1. PICK ten \in Nat, four \in Nat, three \in Nat, thirds \in Nat :
          /\ ten = g \div 10 /\ four = g \div 4 /\ three = (3 * g) \div 10 /\ thirds = g \div 3
          /\ 10 * ten <= g
    BY <1>1
  <2>2. PICK dig \in Nat : dig = Ask!Least(g, 2)
    BY <1>1 DEF Ask!Least
  <2>3. PICK con \in Nat : con = Ask!Least(ten, 2)
    BY <2>1 DEF Ask!Least
  <2>4. g - dig - con \in Nat
    BY <1>1, <2>1, <2>2, <2>3 DEF Ask!Least
  <2>5. PICK der \in Nat :
          /\ der = Ask!Least(g - dig - con, Ask!Greatest(four, IF g >= 16 THEN 4 ELSE 1))
          /\ der <= g - dig - con
    BY <2>1, <2>4 DEF Ask!Least, Ask!Greatest
  <2>6. PICK sem \in Nat :
          /\ sem = Ask!Least((g - dig - con) - der,
                             IF g >= 16 THEN Ask!Greatest(three, 4) ELSE Ask!Greatest(thirds, 1))
          /\ sem <= (g - dig - con) - der
    BY <2>1, <2>4, <2>5 DEF Ask!Least, Ask!Greatest
  <2>7. S = [digests |-> dig, contradictions |-> con, derived |-> der, semantic |-> sem,
             recent |-> g - dig - con - der - sem]
    BY <2>1, <2>2, <2>3, <2>5, <2>6, Zenon DEF Ask!Shares
  <2> QED BY <1>1, <2>4, <2>5, <2>6, <2>7
<1>3. /\ S.recent > 0 => L = S
      /\ \A giver : /\ ~(S.recent > 0)
                    /\ giver = (CASE S.semantic > 0 -> "semantic"
                                  [] S.semantic = 0 /\ S.derived > 0 -> "derived"
                                  [] S.semantic = 0 /\ S.derived = 0 /\ S.digests > 0 -> "digests"
                                  [] OTHER -> "contradictions")
                    => L = [S EXCEPT ![giver] = Ask!Minus(@, 1), !.recent = 1]
  BY Zenon DEF Ask!BucketLimits
<1> HIDE DEF S, g
<1>4. CASE S.recent > 0
  <2>1. L = S
    BY <1>3, <1>4, Zenon
  <2> QED BY <1>1, <1>2, <2>1 DEF Ask!Buckets
<1>5. CASE ~(S.recent > 0)
  <2>1. /\ (S.semantic > 0 /\ S.semantic # 0) \/ (~(S.semantic > 0) /\ S.semantic = 0)
        /\ (S.derived > 0 /\ S.derived # 0) \/ (~(S.derived > 0) /\ S.derived = 0)
        /\ (S.digests > 0 /\ S.digests # 0) \/ (~(S.digests > 0) /\ S.digests = 0)
    BY <1>2
  <2>2. PICK giver :
          /\ \/ S.semantic > 0 /\ giver = "semantic"
             \/ S.derived > 0 /\ giver = "derived"
             \/ S.digests > 0 /\ giver = "digests"
             \/ S.semantic = 0 /\ S.derived = 0 /\ S.digests = 0 /\ giver = "contradictions"
          /\ L = [S EXCEPT ![giver] = Ask!Minus(@, 1), !.recent = 1]
    <3>1. CASE S.semantic > 0 /\ S.semantic # 0
      BY <1>3, <1>5, <3>1, Zenon
    <3>2. CASE ~(S.semantic > 0) /\ S.semantic = 0 /\ S.derived > 0
      BY <1>3, <1>5, <3>2, Zenon
    <3>3. CASE ~(S.semantic > 0) /\ S.semantic = 0 /\ ~(S.derived > 0) /\ S.derived = 0 /\ S.digests > 0
      BY <1>3, <1>5, <3>3, Zenon
    <3>4. CASE ~(S.semantic > 0) /\ S.semantic = 0 /\ ~(S.derived > 0) /\ S.derived = 0 /\
               ~(S.digests > 0) /\ S.digests = 0
      BY <1>3, <1>5, <3>4, Zenon
    <3> QED BY <2>1, <3>1, <3>2, <3>3, <3>4, Zenon
  <2>3. /\ S["digests"] = S.digests /\ S["contradictions"] = S.contradictions
        /\ S["derived"] = S.derived /\ S["semantic"] = S.semantic
    OBVIOUS
  <2>4. S[giver] \in Nat /\ S[giver] > 0 /\ giver \in Ask!Buckets \ {"recent"}
    <3>1. giver = "contradictions" /\ S.semantic = 0 /\ S.derived = 0 /\ S.digests = 0
            => S.contradictions > 0
      BY <1>1, <1>2, <1>5
    <3>2. CASE giver = "semantic" /\ S.semantic > 0
      BY <1>2, <3>2, <2>3 DEF Ask!Buckets
    <3>3. CASE giver = "derived" /\ S.derived > 0
      BY <1>2, <3>3, <2>3 DEF Ask!Buckets
    <3>4. CASE giver = "digests" /\ S.digests > 0
      BY <1>2, <3>4, <2>3 DEF Ask!Buckets
    <3>5. CASE giver = "contradictions" /\ S.contradictions > 0
      BY <1>2, <3>5, <2>3 DEF Ask!Buckets
    <3> QED BY <2>2, <3>1, <3>2, <3>3, <3>4, <3>5, Zenon
  <2>5. Ask!Minus(S[giver], 1) = S[giver] - 1
    BY <2>4 DEF Ask!Minus, Ask!Least
  <2>6. L = [S EXCEPT ![giver] = S[giver] - 1, !["recent"] = 1]
    BY <2>2, <2>5, <1>2
  <2>7. \A b \in Ask!Buckets \ {giver, "recent"} : L[b] = S[b]
    BY <1>2, <2>6 DEF Ask!Buckets
  <2>8. L["recent"] = 1 /\ L[giver] = S[giver] - 1 /\ S.recent = 0
    BY <1>2, <1>5, <2>4, <2>6 DEF Ask!Buckets
  <2> QED BY <1>1, <1>2, <2>3, <2>4, <2>7, <2>8 DEF Ask!Buckets
<1> QED
  BY <1>4, <1>5

\* What is ranked first was gathered, and is all of it.
RankedFits ==
  /\ Cardinality(included) <= request.items
  /\ request.items > 0 => included = Ask!Gathered

\* The sections that are written left out what did not fit.
LeftOutDidNotFit ==
  \A m \in included \ shown :
    Table[m].phase < phase =>
      Ask!Length(shown \cup Ask!UpTo(m)) + Ask!Headings(LastPhase) > MaxChars

QueryInv ==
  /\ Ask!TypeOK
  /\ \A b \in Ask!Buckets : Cardinality(rep[b]) <= Ask!Limit(b)
  /\ queryPc \in Ask!Buckets \cup {"rank"} => shown = {} /\ phase = 1
  /\ queryPc = "context" => /\ ~request.explain /\ RankedFits /\ phase <= LastPhase
                            /\ shown \subseteq included /\ LeftOutDidNotFit
  /\ queryPc \in {"answer", "refine"} =>
       ~request.explain /\ Ask!NothingGatheredIsCut

\* The limit of every bucket is a number.
LEMMA LimitsAreNumbers ==
  ASSUME request \in Questions
  PROVE  request.items \in Nat /\ \A b \in Ask!Buckets : Ask!Limit(b) \in Nat
<1>1. request.items \in Nat
  BY QuestionsAssumption DEF Ask!Request
<1>2. Ask!Items(request) \in Nat
  BY <1>1 DEF Ask!Items, Ask!Greatest
<1> QED
  BY <1>1, <1>2, LimitsAddUp DEF Ask!Limit

\* The invariant of the query holds before anything is gathered.
LEMMA QueryInit == Ask!Init => QueryInv
<1> SUFFICES ASSUME Ask!Init PROVE QueryInv
  OBVIOUS
<1>1. Ask!TypeOK
  BY CountsAssumption DEF Ask!Init, Ask!TypeOK, Ask!Gathering, Ask!Buckets
<1>2. \A b \in Ask!Buckets : Cardinality(rep[b]) <= Ask!Limit(b)
  <2>1. \A b \in Ask!Buckets : rep[b] = {} /\ Ask!Limit(b) \in Nat
    BY LimitsAreNumbers DEF Ask!Init
  <2> QED BY <2>1, FS_EmptySet
<1> QED
  BY <1>1, <1>2, Zenon DEF QueryInv, Ask!Init

\* A step that fills a bucket with no more than its limit.
LEMMA BucketFilled ==
  ASSUME QueryInv, NEW b \in Ask!Buckets, NEW c, NEW S \in SUBSET DOMAIN Table,
         Cardinality(S) <= Ask!Limit(b), rep' = [rep EXCEPT ![b] = IF c THEN S ELSE {}],
         NEW step \in Ask!Buckets \cup {"rank"}, Ask!Goto(b, step)
  PROVE  QueryInv'
<1> USE DEF QueryInv
<1>1. /\ UNCHANGED <<active, request, included, phase, shown, answer, changes>>
      /\ queryPc = b /\ queryPc' = step
  BY DEF Ask!Goto
<1>2. Ask!TypeOK'
  BY <1>1 DEF Ask!TypeOK, Ask!Rows, Ask!Gathering
<1>3. \A d \in Ask!Buckets : Ask!Limit(d)' = Ask!Limit(d) /\ Ask!Limit(d) \in Nat
  BY <1>1, LimitsAreNumbers DEF Ask!Limit, Ask!TypeOK
<1>4. \A d \in Ask!Buckets : rep'[d] = IF d = b THEN (IF c THEN S ELSE {}) ELSE rep[d]
  BY DEF Ask!TypeOK
<1>5. \A d \in Ask!Buckets : Cardinality(rep'[d]) <= Ask!Limit(d)
  BY <1>3, <1>4, FS_EmptySet
<1>6. queryPc' \notin {"context", "answer", "refine"} /\ shown' = {} /\ phase' = 1
  BY <1>1 DEF Ask!Buckets
<1> QED
  BY <1>2, <1>3, <1>5, <1>6

\* The recent memories that are gathered fit their limit.
LEMMA RecentFit == QueryInv /\ Ask!GatherRecent => QueryInv'
<1> SUFFICES ASSUME QueryInv, Ask!GatherRecent PROVE QueryInv'
  OBVIOUS
<1> DEFINE n == Ask!Limit("recent")
           S == {m \in Ask!Newest(Ask!Listed, Ask!Overfetch(n)) : Ask!IncludeRecent(m)}
<1>1. rep' = [rep EXCEPT !["recent"] = IF "recent" \in request.buckets THEN Ask!Newest(S, n) ELSE {}]
      /\ Ask!Goto("recent", "semantic")
  BY Zenon DEF Ask!GatherRecent
<1>2. S \subseteq DOMAIN Table
  BY DEF Ask!Newest, Ask!First, Ask!Listed, QueryInv, Ask!TypeOK, Ask!Rows
<1>3. n \in Nat /\ "recent" \in Ask!Buckets /\ "semantic" \in Ask!Buckets
  BY LimitsAreNumbers DEF QueryInv, Ask!TypeOK, Ask!Buckets
<1> HIDE DEF n, S
<1>4. S \subseteq Nat /\ IsFiniteSet(S)
  BY <1>2, QuestionsAssumption, FS_Subset
<1>5. Ask!Newest(S, n) \in SUBSET DOMAIN Table /\ Cardinality(Ask!Newest(S, n)) <= n
  BY <1>2, <1>3, <1>4, NewestAreFew
<1> QED
  BY <1>1, <1>3, <1>5, BucketFilled DEF n

\* The contradictions that are gathered fit their limit.
LEMMA ContradictionsFit == QueryInv /\ Ask!GatherContradictions => QueryInv'
<1> SUFFICES ASSUME QueryInv, Ask!GatherContradictions PROVE QueryInv'
  OBVIOUS
<1> DEFINE n == Ask!Limit("contradictions")
           found == Ask!Newest({m \in Ask!Listed : Table[m].level = "contradiction"}, Ask!Overfetch(n))
           S == {m \in found : Table[m].sure}
           c == "contradictions" \in request.buckets /\ n > 0
<1>1. rep' = [rep EXCEPT !["contradictions"] = IF c THEN Ask!Newest(S, n) ELSE {}]
      /\ Ask!Goto("contradictions", "rank")
  BY Zenon DEF Ask!GatherContradictions, Ask!Fill
<1>2. S \subseteq DOMAIN Table
  BY DEF Ask!Newest, Ask!First, Ask!Listed, QueryInv, Ask!TypeOK, Ask!Rows
<1>3. n \in Nat /\ "contradictions" \in Ask!Buckets
  BY LimitsAreNumbers DEF QueryInv, Ask!TypeOK, Ask!Buckets
<1> HIDE DEF n, S, c
<1>4. S \subseteq Nat /\ IsFiniteSet(S)
  BY <1>2, QuestionsAssumption, FS_Subset
<1>5. Ask!Newest(S, n) \in SUBSET DOMAIN Table /\ Cardinality(Ask!Newest(S, n)) <= n
  BY <1>2, <1>3, <1>4, NewestAreFew
<1> QED
  BY <1>1, <1>3, <1>5, BucketFilled DEF n

\* The derived memories that are gathered fit their limit.
LEMMA DerivedFit == QueryInv /\ Ask!GatherDerived => QueryInv'
<1> SUFFICES ASSUME QueryInv, Ask!GatherDerived PROVE QueryInv'
  OBVIOUS
<1> DEFINE n == Ask!Limit("derived")
           level == {m \in Ask!Listed : IF request.mine THEN Table[m].level # "contradiction"
                                                        ELSE Table[m].level = "derived"}
           Firmer(k, m) == \/ Table[k].reinforced > Table[m].reinforced
                           \/ Table[k].reinforced = Table[m].reinforced /\ k > m
           found == Ask!First(level, Ask!Overfetch(n), Firmer)
           S == {m \in found : Table[m].level = "derived" /\ Table[m].sure}
           c == "derived" \in request.buckets /\ n > 0
<1>1. rep' = [rep EXCEPT !["derived"] = IF c THEN Ask!First(S, n, Firmer) ELSE {}]
      /\ Ask!Goto("derived", "contradictions")
  BY Zenon DEF Ask!GatherDerived, Ask!Fill
<1>2. S \subseteq DOMAIN Table
  BY DEF Ask!First, Ask!Listed, QueryInv, Ask!TypeOK, Ask!Rows
<1>3. n \in Nat /\ "contradictions" \in Ask!Buckets /\ "derived" \in Ask!Buckets
  BY LimitsAreNumbers DEF QueryInv, Ask!TypeOK, Ask!Buckets
<1> HIDE DEF n, S, c
<1>4. Ask!First(S, n, Firmer) = Firmest(S, n)
  BY AskCountsAlike DEF Ask!First, Firmest
<1>5. Firmest(S, n) \in SUBSET DOMAIN Table /\ Cardinality(Firmest(S, n)) <= n
  BY <1>2, <1>3, FirmestAreFew
<1> QED
  BY <1>1, <1>3, <1>4, <1>5, BucketFilled DEF n

\* The similar memories that are gathered fit their limit.
LEMMA SemanticFit == QueryInv /\ Ask!GatherSemantic => QueryInv'
<1> SUFFICES ASSUME QueryInv, Ask!GatherSemantic PROVE QueryInv'
  OBVIOUS
<1> DEFINE n == Ask!Limit("semantic")
           vectors == {m \in Ask!Newest({k \in Ask!Listed : Table[k].near > 0}, 8 * Ask!Overfetch(n)) :
                         Ask!IncludeSemantic(m) /\ Table[m].near > 1}
           Nearer(k, m) == \/ Table[k].near > Table[m].near
                           \/ Table[k].near = Table[m].near /\ k > m
           hits == {m \in active : /\ Table[m].home = 0 /\ Table[m].hit
                                   /\ Table[m].level = "raw" => request.raw}
           byVector(embedder) == IF embedder THEN Ask!First(vectors, n, Nearer) ELSE {}
           byText(embedder) ==
             {m \in Ask!Newest(hits, Ask!Overfetch(n)) : Ask!IncludeSemantic(m)} \ byVector(embedder)
           c == "semantic" \in request.buckets /\ n > 0
<1>1. /\ \E embedder \in BOOLEAN :
             rep' = [rep EXCEPT !["semantic"] =
               IF c THEN byVector(embedder) \cup
                         Ask!Newest(byText(embedder),
                                    Ask!Minus(n, Ask!Cardinality(byVector(embedder))))
                    ELSE {}]
      /\ Ask!Goto("semantic", "derived")
  BY Zenon DEF Ask!GatherSemantic, Ask!Fill
<1>2. vectors \subseteq DOMAIN Table /\ hits \subseteq DOMAIN Table
      /\ \A embedder : byText(embedder) \subseteq hits
  BY DEF Ask!First, Ask!Newest, Ask!Listed, QueryInv, Ask!TypeOK, Ask!Rows
<1>3. n \in Nat /\ "semantic" \in Ask!Buckets /\ "derived" \in Ask!Buckets
  BY LimitsAreNumbers DEF QueryInv, Ask!TypeOK, Ask!Buckets
<1> HIDE DEF n, vectors, hits, c
<1>4. Ask!First(vectors, n, Nearer) = Nearest(vectors, n)
  BY AskCountsAlike DEF Ask!First, Nearest
<1>5. PICK V, T : /\ V = Nearest(vectors, n) \/ V = {}
                  /\ T \subseteq hits
                  /\ rep' = [rep EXCEPT !["semantic"] =
                       IF c THEN V \cup Ask!Newest(T, Ask!Minus(n, Cardinality(V))) ELSE {}]
  <2>1. PICK embedder \in BOOLEAN :
             rep' = [rep EXCEPT !["semantic"] =
               IF c THEN byVector(embedder) \cup
                         Ask!Newest(byText(embedder),
                                    Ask!Minus(n, Ask!Cardinality(byVector(embedder))))
                    ELSE {}]
    BY <1>1
  <2>2. byVector(embedder) = Nearest(vectors, n) \/ byVector(embedder) = {}
    BY <1>4
  <2>3. byText(embedder) \subseteq hits
    BY <1>2
  <2> HIDE DEF byVector, byText
  <2> QED BY <2>1, <2>2, <2>3, AskCountsAlike
<1>6. V \subseteq DOMAIN Table /\ IsFiniteSet(V) /\ Cardinality(V) \in Nat /\ Cardinality(V) <= n
  <2>1. Nearest(vectors, n) \subseteq DOMAIN Table /\ Cardinality(Nearest(vectors, n)) <= n
    BY <1>2, <1>3, NearestAreFew
  <2>2. V \subseteq DOMAIN Table /\ Cardinality(V) <= n
    BY <1>3, <1>5, <2>1, FS_EmptySet
  <2> QED BY <2>2, QuestionsAssumption, FS_Subset, FS_CardinalityType
<1>7. Ask!Minus(n, Cardinality(V)) = n - Cardinality(V) /\ n - Cardinality(V) \in Nat
  BY <1>3, <1>6 DEF Ask!Minus, Ask!Least
<1> DEFINE W == Ask!Newest(T, n - Cardinality(V))
<1>8. W \subseteq DOMAIN Table /\ IsFiniteSet(W) /\ Cardinality(W) <= n - Cardinality(V)
  <2>1. T \subseteq DOMAIN Table /\ T \subseteq Nat /\ IsFiniteSet(T)
    BY <1>2, <1>5, QuestionsAssumption, FS_Subset
  <2> QED BY <2>1, <1>7, NewestAreFew
<1>9. Cardinality(V \cup W) <= n /\ V \cup W \in SUBSET DOMAIN Table
  <2>1. Cardinality(V \cup W) = Cardinality(V) + Cardinality(W) - Cardinality(V \cap W)
    BY <1>6, <1>8, FS_Union
  <2>2. Cardinality(W) \in Nat /\ Cardinality(V \cap W) \in Nat
    BY <1>6, <1>8, FS_CardinalityType, FS_Intersection
  <2> HIDE DEF W
  <2> QED BY <2>1, <2>2, <1>3, <1>6, <1>8
<1>10. rep' = [rep EXCEPT !["semantic"] = IF c THEN V \cup W ELSE {}]
  BY <1>5, <1>7
<1> HIDE DEF W
<1> QED
  BY <1>1, <1>3, <1>9, <1>10, BucketFilled DEF n

\* The latest digest of a level is one memory at most.
LEMMA LatestIsOne ==
  ASSUME NEW home, NEW level, NEW own, NEW D, D = Ask!LatestDigest(home, level, own)
  PROVE  D \in SUBSET DOMAIN Table /\ IsFiniteSet(D) /\ Cardinality(D) \in Nat /\ Cardinality(D) <= 1
<1> DEFINE S == {m \in Ask!Rows : /\ Table[m].home = home /\ Table[m].level = level
                                  /\ own => Table[m].mine}
<1>1. D = Ask!Newest(S, 1)
  BY DEF Ask!LatestDigest
<1>2. S \in SUBSET DOMAIN Table
  BY DEF Ask!Rows
<1>3. S \subseteq Nat /\ IsFiniteSet(S)
  BY <1>2, QuestionsAssumption, FS_Subset
<1> HIDE DEF S
<1> QED
  BY <1>1, <1>2, <1>3, NewestAreFew, FS_CardinalityType

\* The digests that are gathered fit their limit.
LEMMA DigestsFit == QueryInv /\ Ask!GatherDigests => QueryInv'
<1> SUFFICES ASSUME QueryInv, Ask!GatherDigests PROVE QueryInv'
  OBVIOUS
<1> DEFINE n == Ask!Limit("digests")
           short == Ask!LatestDigest(0, "short", TRUE)
           long == Ask!LatestDigest(0, "long", TRUE)
           own == IF ~request.mine THEN {}
                  ELSE short \cup (IF Ask!Cardinality(short) < n THEN long ELSE {})
           Of(a) == Ask!LatestDigest(a, "short", request.mine)
           c == "digests" \in request.buckets /\ n > 0
           Lower(k, a) == k < a
<1>1. PICK reached \in SUBSET (1 .. Aliases) :
        /\ rep' = [rep EXCEPT !["digests"] =
             IF c THEN own \cup UNION {Of(a) : a \in Ask!First({a \in reached : Of(a) # {}},
                                                 Ask!Minus(n, Ask!Cardinality(own)), Lower)}
             ELSE {}]
        /\ Ask!Goto("digests", "recent")
  BY Zenon DEF Ask!GatherDigests, Ask!Fill
<1>2. n \in Nat /\ "digests" \in Ask!Buckets /\ "recent" \in Ask!Buckets
  BY LimitsAreNumbers DEF QueryInv, Ask!TypeOK, Ask!Buckets
<1>3. /\ short \in SUBSET DOMAIN Table /\ IsFiniteSet(short) /\ Cardinality(short) \in Nat
      /\ Cardinality(short) <= 1
      /\ long \in SUBSET DOMAIN Table /\ IsFiniteSet(long) /\ Cardinality(long) \in Nat
      /\ Cardinality(long) <= 1
  BY LatestIsOne
<1> HIDE DEF n, short, long
<1>4. own \in SUBSET DOMAIN Table /\ IsFiniteSet(own) /\ Cardinality(own) \in Nat
      /\ (c => Cardinality(own) <= n)
  <2>1. /\ IsFiniteSet(short \cup long)
        /\ Cardinality(short \cup long) = Cardinality(short) + Cardinality(long) - Cardinality(short \cap long)
        /\ Cardinality(short \cap long) \in Nat
    BY <1>3, FS_Union, FS_Intersection, FS_CardinalityType
  <2>2. CASE ~request.mine
    BY <2>2, <1>2, FS_EmptySet
  <2>3. CASE request.mine /\ Cardinality(short) < n
    <3>1. own = short \cup long
      BY <2>3, AskCountsAlike
    <3> HIDE DEF own
    <3>2. Cardinality(own) <= n
      BY <3>1, <2>1, <2>3, <1>2, <1>3
    <3> QED BY <3>1, <3>2, <2>1, <1>3, FS_CardinalityType
  <2>4. CASE request.mine /\ ~(Cardinality(short) < n)
    <3>1. own = short
      BY <2>4, AskCountsAlike
    <3> HIDE DEF own
    <3> QED BY <3>1, <1>2, <1>3
  <2> QED BY <2>2, <2>3, <2>4
<1> HIDE DEF own
<1>5. CASE ~c
  <2>1. rep' = [rep EXCEPT !["digests"] = IF c THEN {} ELSE {}]
    BY <1>1, <1>5
  <2>2. {} \in SUBSET DOMAIN Table /\ Cardinality({}) <= n
    BY <1>2, FS_EmptySet
  <2> HIDE DEF c
  <2> QED BY <1>1, <1>2, <2>1, <2>2, BucketFilled DEF n
<1>6. CASE c
  <2> DEFINE having == {a \in reached : Of(a) # {}}
             k == n - Cardinality(own)
             taken == LowestOf(having, k)
             f == [a \in taken |-> Of(a)]
             D == UNION {f[a] : a \in taken}
  <2>1. Ask!Minus(n, Ask!Cardinality(own)) = k /\ k \in Nat
    BY <1>2, <1>4, <1>6, AskCountsAlike DEF Ask!Minus, Ask!Least
  <2>2. having \subseteq Nat /\ IsFiniteSet(having)
    <3>1. having \subseteq 1 .. Aliases
      OBVIOUS
    <3>2. IsFiniteSet(1 .. Aliases) /\ 1 .. Aliases \subseteq Nat
      BY FS_Interval, CountsAssumption
    <3> HIDE DEF having
    <3> QED BY <3>1, <3>2, FS_Subset
  <2> HIDE DEF k, having
  <2>3. taken \subseteq having /\ IsFiniteSet(taken) /\ Cardinality(taken) <= k
        /\ Cardinality(taken) \in Nat
    BY <2>1, <2>2, LowestAreFew, FS_CardinalityType
  <2>4. Ask!First(having, k, Lower) = taken
    BY AskCountsAlike DEF Ask!First, LowestOf
  <2> HIDE DEF taken
  <2>5. D = UNION {Of(a) : a \in taken}
    OBVIOUS
  <2>6. \A a \in taken : f[a] \subseteq DOMAIN Table /\ Cardinality(f[a]) <= 1
    BY LatestIsOne
  <2> HIDE DEF f
  <2>7. D \subseteq DOMAIN Table /\ IsFiniteSet(D)
    BY <2>6, QuestionsAssumption, FS_Subset
  <2>8. Cardinality(D) <= Cardinality(taken)
    BY <2>3, <2>6, QuestionsAssumption, OneOfEach
  <2>9. rep' = [rep EXCEPT !["digests"] = own \cup D]
    <3>1. Ask!First({a \in reached : Of(a) # {}}, Ask!Minus(n, Ask!Cardinality(own)), Lower) = taken
      BY <2>1, <2>4 DEF having
    <3> HIDE DEF D
    <3> QED BY <1>1, <1>6, <2>5, <3>1
  <2> HIDE DEF D
  <2>10. Cardinality(own \cup D) <= n /\ own \cup D \in SUBSET DOMAIN Table
    <3>1. Cardinality(own \cup D) = Cardinality(own) + Cardinality(D) - Cardinality(own \cap D)
      BY <1>4, <2>7, FS_Union
    <3>2. Cardinality(D) \in Nat /\ Cardinality(own \cap D) \in Nat
      BY <1>4, <2>7, FS_CardinalityType, FS_Intersection
    <3> QED BY <3>1, <3>2, <2>1, <2>3, <2>7, <2>8, <1>2, <1>4 DEF k
  <2>11. rep' = [rep EXCEPT !["digests"] = IF c THEN own \cup D ELSE {}]
    BY <1>6, <2>9
  <2> HIDE DEF c
  <2> QED BY <1>1, <1>2, <2>10, <2>11, BucketFilled DEF n
<1> QED
  BY <1>5, <1>6

\* What the buckets have fits into the budget, except that a budget of nothing
\* has room for one.
LEMMA GatheredFits ==
  ASSUME QueryInv
  PROVE  /\ Ask!Gathered \in SUBSET DOMAIN Table
         /\ IsFiniteSet(Ask!Gathered) /\ Cardinality(Ask!Gathered) \in Nat
         /\ ~request.explain /\ request.items > 0 => Cardinality(Ask!Gathered) <= request.items
<1> DEFINE d == rep["digests"]  r == rep["recent"]  m == rep["semantic"]  e == rep["derived"]
           c == rep["contradictions"]
<1>1. Ask!Gathered = (((d \cup r) \cup m) \cup e) \cup c
  BY DEF Ask!Gathered, Ask!Buckets
<1>2. /\ d \in SUBSET DOMAIN Table /\ r \in SUBSET DOMAIN Table /\ m \in SUBSET DOMAIN Table
      /\ e \in SUBSET DOMAIN Table /\ c \in SUBSET DOMAIN Table
  BY DEF QueryInv, Ask!TypeOK, Ask!Buckets, Ask!Rows
<1>3. /\ Cardinality(d) <= Ask!Limit("digests") /\ Cardinality(r) <= Ask!Limit("recent")
      /\ Cardinality(m) <= Ask!Limit("semantic") /\ Cardinality(e) <= Ask!Limit("derived")
      /\ Cardinality(c) <= Ask!Limit("contradictions")
  BY DEF QueryInv, Ask!Buckets
<1>4. request.items \in Nat
      /\ Ask!Limit("digests") \in Nat /\ Ask!Limit("recent") \in Nat /\ Ask!Limit("semantic") \in Nat
      /\ Ask!Limit("derived") \in Nat /\ Ask!Limit("contradictions") \in Nat
  BY LimitsAreNumbers DEF QueryInv, Ask!TypeOK, Ask!Buckets
<1> HIDE DEF d, r, m, e, c
<1>5. \A S \in SUBSET DOMAIN Table : IsFiniteSet(S) /\ Cardinality(S) \in Nat
  BY QuestionsAssumption, FS_Subset, FS_CardinalityType
<1>6. \A S, T \in SUBSET DOMAIN Table :
        /\ S \cup T \in SUBSET DOMAIN Table
        /\ Cardinality(S \cup T) <= Cardinality(S) + Cardinality(T)
  <2> SUFFICES ASSUME NEW S \in SUBSET DOMAIN Table, NEW T \in SUBSET DOMAIN Table
               PROVE  Cardinality(S \cup T) <= Cardinality(S) + Cardinality(T)
    OBVIOUS
  <2>1. Cardinality(S \cup T) = Cardinality(S) + Cardinality(T) - Cardinality(S \cap T)
    BY <1>5, FS_Union
  <2>2. Cardinality(S) \in Nat /\ Cardinality(T) \in Nat /\ Cardinality(S \cap T) \in Nat
    BY <1>5
  <2> QED BY <2>1, <2>2
<1>7. Ask!Gathered \in SUBSET DOMAIN Table
  BY <1>1, <1>2
<1>8. Cardinality(Ask!Gathered) <=
        Cardinality(d) + Cardinality(r) + Cardinality(m) + Cardinality(e) + Cardinality(c)
  <2>1. /\ d \cup r \in SUBSET DOMAIN Table
        /\ (d \cup r) \cup m \in SUBSET DOMAIN Table
        /\ ((d \cup r) \cup m) \cup e \in SUBSET DOMAIN Table
    BY <1>2
  <2>2. /\ Cardinality(d \cup r) <= Cardinality(d) + Cardinality(r)
        /\ Cardinality((d \cup r) \cup m) <= Cardinality(d \cup r) + Cardinality(m)
        /\ Cardinality(((d \cup r) \cup m) \cup e) <= Cardinality((d \cup r) \cup m) + Cardinality(e)
        /\ Cardinality(Ask!Gathered) <= Cardinality(((d \cup r) \cup m) \cup e) + Cardinality(c)
    BY <1>1, <1>2, <1>6, <2>1
  <2>3. /\ Cardinality(d) \in Nat /\ Cardinality(r) \in Nat /\ Cardinality(m) \in Nat
        /\ Cardinality(e) \in Nat /\ Cardinality(c) \in Nat /\ Cardinality(d \cup r) \in Nat
        /\ Cardinality((d \cup r) \cup m) \in Nat /\ Cardinality(((d \cup r) \cup m) \cup e) \in Nat
        /\ Cardinality(Ask!Gathered) \in Nat
    BY <1>2, <1>5, <1>7, <2>1
  <2> QED BY <2>2, <2>3
<1>9. ASSUME ~request.explain, request.items > 0 PROVE Cardinality(Ask!Gathered) <= request.items
  <2>1. Ask!Items(request) = request.items
    BY <1>9 DEF Ask!Items
  <2>2. Ask!Limit("digests") + Ask!Limit("recent") + Ask!Limit("semantic") + Ask!Limit("derived")
          + Ask!Limit("contradictions") = request.items
    BY <1>4, <1>9, <2>1, LimitsAddUp DEF Ask!Limit
  <2>3. /\ Cardinality(d) \in Nat /\ Cardinality(r) \in Nat /\ Cardinality(m) \in Nat
        /\ Cardinality(e) \in Nat /\ Cardinality(c) \in Nat /\ Cardinality(Ask!Gathered) \in Nat
    BY <1>2, <1>5, <1>7
  <2> QED BY <1>3, <1>4, <1>8, <2>2, <2>3
<1> QED
  BY <1>5, <1>7, <1>9

\* The lines of more memories are no shorter, ...
LEMMA LengthGrows ==
  ASSUME NEW S \in SUBSET DOMAIN Table, NEW T \in SUBSET S
  PROVE  Ask!Length(T) \in Nat /\ Ask!Length(S) \in Nat /\ Ask!Length(T) <= Ask!Length(S)
<1> DEFINE Text(U) == {c \in U \X (1 .. MaxSize) : c[2] <= Table[c[1]].size}
<1>1. IsFiniteSet(S \X (1 .. MaxSize))
  <2>1. IsFiniteSet(S)
    BY QuestionsAssumption, FS_Subset
  <2>2. IsFiniteSet(1 .. MaxSize)
    BY CountsAssumption, FS_Interval
  <2> QED BY <2>1, <2>2, FS_Product
<1>2. IsFiniteSet(Text(S))
  BY <1>1, FS_Subset
<1>3. Text(T) \subseteq Text(S)
  OBVIOUS
<1>4. IsFiniteSet(Text(T)) /\ Cardinality(Text(T)) <= Cardinality(Text(S))
  BY <1>2, <1>3, FS_Subset
<1>5. Cardinality(Text(T)) \in Nat /\ Cardinality(Text(S)) \in Nat
  BY <1>2, <1>4, FS_CardinalityType
<1>6. Ask!Length(T) = Cardinality(Text(T)) /\ Ask!Length(S) = Cardinality(Text(S))
  BY AskCountsAlike DEF Ask!Length
<1> QED
  BY <1>4, <1>5, <1>6

\* ... nor are the headings of more sections.
LEMMA HeadingsGrow ==
  ASSUME NEW p \in 1 .. LastPhase
  PROVE  /\ Ask!Headings(p) \in Nat /\ Ask!Headings(LastPhase) \in Nat
         /\ Ask!Headings(p) <= Ask!Headings(LastPhase)
<1> DEFINE Some(n) == {q \in 1 .. n : Ask!Group(q) # {}}
<1> HIDE DEF Some
<1>1. Some(p) \subseteq Some(LastPhase) /\ Some(LastPhase) \subseteq 1 .. LastPhase
  BY CountsAssumption DEF Some
<1>2. IsFiniteSet(Some(LastPhase))
  BY <1>1, CountsAssumption, FS_Interval, FS_Subset
<1>3. IsFiniteSet(Some(p)) /\ Cardinality(Some(p)) <= Cardinality(Some(LastPhase))
  BY <1>1, <1>2, FS_Subset
<1>4. Cardinality(Some(p)) \in Nat /\ Cardinality(Some(LastPhase)) \in Nat
  BY <1>2, <1>3, FS_CardinalityType
<1>5. Ask!Headings(p) = Cardinality(Some(p))
      /\ Ask!Headings(LastPhase) = Cardinality(Some(LastPhase))
  BY AskCountsAlike DEF Ask!Headings, Some
<1> QED
  BY <1>3, <1>4, <1>5

\* What is ranked was gathered, and is not cut when it fits the limit.
LEMMA RankFits == QueryInv /\ Ask!Rank => QueryInv'
<1> SUFFICES ASSUME QueryInv, Ask!Rank PROVE QueryInv'
  OBVIOUS
<1>1. UNCHANGED <<active, request, rep, phase, shown, answer, changes>> /\ queryPc = "rank"
  BY DEF Ask!Rank
<1>2. (request.explain /\ queryPc' = "explained") \/ (~request.explain /\ queryPc' = "context")
  BY DEF Ask!Rank
<1>3. request.items \in Nat
  BY LimitsAreNumbers DEF QueryInv, Ask!TypeOK
<1>4. \/ included' = Ask!Gathered /\ Cardinality(Ask!Gathered) <= request.items
      \/ /\ ~(Cardinality(Ask!Gathered) <= request.items)
         /\ included' = Ask!First(Ask!Gathered, request.items, Ask!RankedBefore)
  BY AskCountsAlike DEF Ask!Rank
<1>5. included' \subseteq Ask!Gathered
  BY <1>4 DEF Ask!First
<1>6. Ask!TypeOK'
  BY <1>1, <1>2, <1>5, GatheredFits DEF QueryInv, Ask!TypeOK, Ask!Rows
<1>7. \A b \in Ask!Buckets : Cardinality(rep'[b]) <= Ask!Limit(b)'
  BY <1>1 DEF QueryInv, Ask!Limit
<1>8. Ask!Gathered' = Ask!Gathered
  BY <1>1 DEF Ask!Gathered
<1>9. ASSUME ~request.explain
      PROVE  Cardinality(included') <= request.items
             /\ (request.items > 0 => included' = Ask!Gathered)
  <2>1. CASE Cardinality(Ask!Gathered) <= request.items
    BY <1>4, <2>1
  <2>2. CASE ~(Cardinality(Ask!Gathered) <= request.items)
    <3>1. request.items = 0
      BY <1>3, <1>9, <2>2, GatheredFits
    <3>2. \A m : Cardinality({k \in Ask!Gathered : Ask!RankedBefore(k, m)}) \in Nat
      BY GatheredFits, FS_Subset, FS_CardinalityType
    <3>3. included' = {m \in Ask!Gathered :
                         Cardinality({k \in Ask!Gathered : Ask!RankedBefore(k, m)}) < 0}
      BY <1>4, <2>2, <3>1, AskCountsAlike DEF Ask!First
    <3>4. included' = {}
      BY <3>2, <3>3
    <3> QED BY <3>1, <3>4, FS_EmptySet
  <2> QED BY <2>1, <2>2
<1>10. shown' = {} /\ phase' = 1
  BY <1>1 DEF QueryInv
<1>11. LeftOutDidNotFit' /\ (phase <= LastPhase)'
  <2>1. \A m \in included' : Table[m].phase \in 1 .. LastPhase
    BY <1>6, QuestionsAssumption DEF Ask!TypeOK, Ask!Rows, Ask!Row
  <2>2. \A m \in included' : ~(Table[m].phase < phase')
    BY <1>10, <2>1, CountsAssumption
  <2> QED BY <1>10, <2>2, CountsAssumption DEF LeftOutDidNotFit
<1>12. queryPc' = "context" => RankedFits'
  BY <1>1, <1>2, <1>8, <1>9 DEF RankedFits
<1> QED
  BY <1>1, <1>2, <1>6, <1>7, <1>10, <1>11, <1>12 DEF QueryInv, Ask!Buckets

\* A short context shows all that was ranked.
LEMMA LightweightShowsAll == QueryInv /\ Ask!LightweightContext => QueryInv'
<1> SUFFICES ASSUME QueryInv, Ask!LightweightContext PROVE QueryInv'
  OBVIOUS
<1>1. /\ UNCHANGED <<active, request, rep, included, phase, answer, changes>>
      /\ queryPc = "context" /\ queryPc' = "answer" /\ shown' = included
  BY DEF Ask!LightweightContext
<1>2. Ask!TypeOK'
  BY <1>1 DEF QueryInv, Ask!TypeOK
<1>3. \A b \in Ask!Buckets : Cardinality(rep'[b]) <= Ask!Limit(b)'
  BY <1>1 DEF QueryInv, Ask!Limit
<1>4. Ask!NothingGatheredIsCut'
  BY <1>1, AskCountsAlike DEF QueryInv, RankedFits, Ask!NothingGatheredIsCut, Ask!Gathered
<1> QED
  BY <1>1, <1>2, <1>3, <1>4 DEF QueryInv, Ask!Buckets

\* A section leaves out what does not fit, and more is shown later.
LEMMA SectionFits == QueryInv /\ Ask!PhaseContext => QueryInv'
<1> SUFFICES ASSUME QueryInv, Ask!PhaseContext PROVE QueryInv'
  OBVIOUS
<1>1. /\ UNCHANGED <<active, request, rep, included, answer, changes>>
      /\ queryPc = "context" /\ phase' = phase + 1
      /\ shown' = shown \cup Ask!Fitting(phase)
      /\ queryPc' = IF phase = LastPhase THEN "answer" ELSE "context"
      /\ Cardinality(included) >= Ask!PhaseGroupingThreshold
  BY AskCountsAlike DEF Ask!PhaseContext
<1>2. phase \in 1 .. LastPhase /\ shown \subseteq included /\ included \subseteq DOMAIN Table
  BY <1>1, CountsAssumption DEF QueryInv, Ask!TypeOK, Ask!Rows
<1>3. shown' \subseteq included /\ shown \subseteq shown'
  BY <1>1, <1>2 DEF Ask!Fitting, Ask!Group
<1>4. Ask!TypeOK'
  BY <1>1, <1>2, <1>3, CountsAssumption DEF QueryInv, Ask!TypeOK, Ask!Rows
<1>5. \A b \in Ask!Buckets : Cardinality(rep'[b]) <= Ask!Limit(b)'
  BY <1>1 DEF QueryInv, Ask!Limit
<1>6. ASSUME NEW m \in included
      PROVE  /\ Table[m].phase \in 1 .. LastPhase /\ Ask!UpTo(m) \subseteq included
             /\ Ask!UpTo(m)' = Ask!UpTo(m)
             /\ Ask!Headings(LastPhase)' = Ask!Headings(LastPhase)
  BY <1>1, <1>2, QuestionsAssumption
     DEF Ask!Row, Ask!UpTo, Ask!Group, Ask!Headings, Ask!RankedBefore, Ask!Above, Ask!Bucket
<1>7. ASSUME NEW m \in included \ shown', Table[m].phase < phase'
      PROVE  Ask!Length(shown' \cup Ask!UpTo(m)) + Ask!Headings(LastPhase) > MaxChars
  <2> DEFINE before == shown \cup Ask!UpTo(m)
             after  == shown' \cup Ask!UpTo(m)
  <2>1. /\ Ask!Length(before) \in Nat /\ Ask!Length(after) \in Nat
        /\ Ask!Length(before) <= Ask!Length(after)
    BY <1>2, <1>3, <1>6, LengthGrows
  <2>2. /\ Ask!Headings(phase) \in Nat /\ Ask!Headings(LastPhase) \in Nat
        /\ Ask!Headings(phase) <= Ask!Headings(LastPhase)
    BY <1>2, HeadingsGrow
  <2>a. \A a, b, h, k \in Nat : a <= b /\ h <= k /\ ~(a + h <= MaxChars) => b + k > MaxChars
    BY CountsAssumption
  <2>b. \A a, b, k \in Nat : a <= b /\ a + k > MaxChars => b + k > MaxChars
    BY CountsAssumption
  <2>3. CASE Table[m].phase = phase
    <3>1. m \in Ask!Group(phase) \ Ask!Fitting(phase)
      BY <1>1, <1>7, <2>3 DEF Ask!Group
    <3>2. ~(Ask!Length(before) + Ask!Headings(phase) <= MaxChars)
      BY <3>1, Zenon DEF Ask!Fitting
    <3> QED BY <2>1, <2>2, <2>a, <3>2, Zenon
  <2>4. CASE Table[m].phase # phase
    <3>1. Table[m].phase < phase
      BY <1>1, <1>2, <1>6, <1>7, <2>4
    <3>2. m \in included \ shown
      BY <1>3, <1>7
    <3>3. Ask!Length(before) + Ask!Headings(LastPhase) > MaxChars
      BY <1>1, <3>1, <3>2 DEF QueryInv, LeftOutDidNotFit
    <3> QED BY <2>1, <2>2, <2>b, <3>3, Zenon
  <2> QED BY <2>3, <2>4
<1>9. LeftOutDidNotFit'
  BY <1>1, <1>6, <1>7 DEF LeftOutDidNotFit, Ask!Length
<1>10. RankedFits' /\ ~request'.explain
  BY <1>1 DEF QueryInv, RankedFits, Ask!Gathered
<1>11. CASE phase = LastPhase
  <2>1. \A m \in included' \ shown' : Table[m].phase < phase'
    BY <1>1, <1>2, <1>6, <1>11
  <2>2. Ask!NothingGatheredIsCut'
    <3>1. \A m \in included' \ shown' :
            (Ask!Length(shown \cup Ask!UpTo(m)) + Ask!Headings(LastPhase) > MaxChars)'
      BY <1>9, <2>1, Zenon DEF LeftOutDidNotFit
    <3>2. ~(Ask!Cardinality(included') < Ask!PhaseGroupingThreshold)
      <4>1. IsFiniteSet(included) /\ Cardinality(included) \in Nat
        BY <1>2, QuestionsAssumption, FS_Subset, FS_CardinalityType
      <4> QED BY <1>1, <4>1, AskCountsAlike DEF Ask!PhaseGroupingThreshold
    <3>3. Ask!Cardinality(included') <= request'.items
          /\ (request'.items > 0 => included' = Ask!Gathered')
      BY <1>10, AskCountsAlike DEF RankedFits
    <3> QED BY <1>1, <1>3, <3>1, <3>2, <3>3, Zenon DEF Ask!NothingGatheredIsCut
  <2> QED BY <1>1, <1>4, <1>5, <1>10, <1>11, <2>2 DEF QueryInv, Ask!Buckets
<1>12. CASE phase # LastPhase
  <2>1. (phase <= LastPhase)' /\ queryPc' = "context"
    BY <1>1, <1>2, <1>12, CountsAssumption
  <2> QED BY <1>1, <1>3, <1>4, <1>5, <1>9, <1>10, <2>1 DEF QueryInv, Ask!Buckets
<1> QED
  BY <1>11, <1>12

\* Every step of the query keeps its invariant.
LEMMA QueryNext == QueryInv /\ [Ask!Next]_queryVars => QueryInv'
<1> SUFFICES ASSUME QueryInv, [Ask!Next]_queryVars PROVE QueryInv'
  OBVIOUS
<1>t. request \in Questions /\ request.items \in Nat /\ \A b \in Ask!Buckets : Ask!Limit(b) \in Nat
  BY LimitsAreNumbers DEF QueryInv, Ask!TypeOK
<1> DEFINE Context == <<request, rep, included, phase, shown>>
<1>c. ASSUME UNCHANGED Context
      PROVE  /\ (RankedFits => RankedFits') /\ (LeftOutDidNotFit => LeftOutDidNotFit')
             /\ (Ask!NothingGatheredIsCut /\ queryPc \in {"answer", "refine"}
                   => Ask!NothingGatheredIsCut')
             /\ \A b \in Ask!Buckets : Cardinality(rep'[b]) <= Ask!Limit(b)'
  <2>1. ASSUME NEW m PROVE Ask!UpTo(m)' = Ask!UpTo(m)
    BY <1>c DEF Ask!UpTo, Ask!Group, Ask!RankedBefore, Ask!Above, Ask!Bucket
  <2>2. Ask!Headings(LastPhase)' = Ask!Headings(LastPhase)
    BY <1>c DEF Ask!Headings, Ask!Group
  <2>3. \A m : (Ask!Length(shown \cup Ask!UpTo(m)) + Ask!Headings(LastPhase) > MaxChars)'
               = (Ask!Length(shown \cup Ask!UpTo(m)) + Ask!Headings(LastPhase) > MaxChars)
    BY <1>c, <2>1, <2>2 DEF Ask!Length
  <2>4. Ask!Gathered' = Ask!Gathered
    BY <1>c DEF Ask!Gathered
  <2>5. RankedFits => RankedFits'
    BY <1>c, <2>4 DEF RankedFits
  <2>6. LeftOutDidNotFit => LeftOutDidNotFit'
    BY <1>c, <2>3, Zenon DEF LeftOutDidNotFit
  <2>7. Ask!NothingGatheredIsCut /\ queryPc \in {"answer", "refine"}
          => Ask!NothingGatheredIsCut'
    BY <1>c, <2>3, <2>4, Zenon DEF Ask!NothingGatheredIsCut
  <2> QED BY <1>c, <2>5, <2>6, <2>7 DEF QueryInv, Ask!Limit
<1>1. CASE UNCHANGED queryVars
  BY <1>1, <1>c DEF queryVars, QueryInv, Ask!TypeOK
<1>2. ASSUME NEW m \in active, Ask!Archive(m) PROVE QueryInv'
  <2>1. /\ UNCHANGED <<request, queryPc, rep, included, phase, shown, answer>>
        /\ queryPc \notin {"context", "answer", "refine"}
        /\ active' \subseteq active /\ changes' = changes + 1 /\ changes < MaxChanges
    BY <1>2 DEF Ask!Archive, Ask!Gathering, Ask!Buckets
  <2>2. Ask!TypeOK'
    BY <2>1, CountsAssumption DEF QueryInv, Ask!TypeOK
  <2> QED BY <1>c, <2>1, <2>2 DEF QueryInv
<1>3. CASE Ask!Fail
  <2>1. /\ queryPc' \in {"failed", "legacy"} /\ answer' = 0
        /\ UNCHANGED <<active, request, rep, included, phase, shown, changes>>
    BY <1>3 DEF Ask!Fail
  <2>2. Ask!TypeOK'
    BY <2>1 DEF QueryInv, Ask!TypeOK
  <2> QED BY <1>c, <2>1, <2>2 DEF QueryInv, Ask!Buckets
<1>4. CASE Ask!GenerateAnswer
  <2>1. /\ queryPc = "answer" /\ queryPc' \in {"answered", "refine"} /\ answer' \in Qualities
        /\ UNCHANGED <<active, request, rep, included, phase, shown, changes>>
    BY <1>4 DEF Ask!GenerateAnswer
  <2>2. Ask!TypeOK'
    BY <2>1 DEF QueryInv, Ask!TypeOK
  <2> QED BY <1>c, <2>1, <2>2 DEF QueryInv, Ask!Buckets
<1>5. CASE Ask!RefineAnswer
  <2>1. /\ answer' \in Qualities \cup {0} /\ queryPc' = "answered"
        /\ UNCHANGED <<active, request, rep, included, phase, shown, changes>>
    BY <1>5 DEF Ask!RefineAnswer, Ask!Greatest, QueryInv, Ask!TypeOK
  <2>2. Ask!TypeOK'
    BY <2>1 DEF QueryInv, Ask!TypeOK
  <2> QED BY <1>c, <2>1, <2>2 DEF QueryInv, Ask!Buckets
<1>6. CASE Ask!QueryLegacy
  <2>1. /\ rep' = [b \in Ask!Buckets |-> {}] /\ UNCHANGED <<active, request, phase, changes>>
        /\ queryPc' \in {"answered", "failed"} /\ answer' \in Qualities \cup {0}
        /\ included' \subseteq active /\ shown' = included'
    BY <1>6 DEF Ask!QueryLegacy, Ask!Newest, Ask!First
  <2>2. \A b \in Ask!Buckets : Cardinality(rep'[b]) <= Ask!Limit(b)'
    BY <2>1, <1>t, FS_EmptySet DEF Ask!Limit
  <2>3. Ask!TypeOK'
    BY <2>1 DEF QueryInv, Ask!TypeOK
  <2> QED BY <2>1, <2>2, <2>3 DEF QueryInv, Ask!Buckets
<1> QED
  BY <1>1, <1>2, <1>3, <1>4, <1>5, <1>6, DigestsFit, RecentFit, SemanticFit, DerivedFit,
     ContradictionsFit, RankFits, LightweightShowsAll, SectionFits
  DEF Ask!Next

\* What a question reads, includes and answers stays within the store and the
\* buckets, whatever fails (query.rs:68).
THEOREM QueryTypes == ServicesSpec => []Ask!TypeOK
<1>1. ServicesInit => QueryInv
  BY QueryInit DEF ServicesInit
<1>2. QueryInv /\ [ServicesNext]_all => QueryInv'
  BY QueryNext, QueryStep
<1>3. QueryInv => Ask!TypeOK
  BY DEF QueryInv
<1> QED
  BY <1>1, <1>2, <1>3, PTL DEF ServicesSpec

\* For every budget, store and question: the buckets are filled up to limits that
\* add up to the budget, so that the ranking cuts nothing that was gathered
\* (representation.rs:79), and for every length of the memories and of the context,
\* what is kept from the model does not fit beside what it is shown
\* (integration.rs:467).
THEOREM NothingGatheredIsCutHolds == ServicesSpec => []NothingGatheredIsCut
<1>1. ServicesInit => QueryInv
  BY QueryInit DEF ServicesInit
<1>2. QueryInv /\ [ServicesNext]_all => QueryInv'
  BY QueryNext, QueryStep
<1>3. QueryInv => NothingGatheredIsCut
  BY DEF QueryInv, NothingGatheredIsCut, Ask!NothingGatheredIsCut
<1> QED
  BY <1>1, <1>2, <1>3, PTL DEF ServicesSpec

-----------------------------------------------------------------------------
(* All the parts. *)

\* The variables of every part keep their types, for all values of the constants.
THEOREM ServicesTypeCorrect == ServicesSpec => []ServicesTypeOK
<1>1. ServicesTypeOK <=> /\ Scan!TypeOK /\ Monitor!TypeOK /\ Retry!TypeOK /\ Sync!TypeOK
                         /\ Schema!TypeOK /\ Fallback!TypeOK /\ Cache!TypeOK /\ Buffer!TypeOK
                         /\ Socket!TypeOK /\ Copy!TypeOK /\ Ask!TypeOK
  BY DEF ServicesTypeOK
<1> QED
  BY <1>1, InboxTypes, MonitorTypes, RetryTypes, SyncTypes, MigrationsTypes, FallbackTypes, CacheTypes,
     BufferTypes, SocketTypes, DataTypes, QueryTypes, PTL

=========================================================================
