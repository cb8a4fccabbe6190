--------------------------- MODULE HooksProofs --------------------------
(***************************************************************************)
(* Proofs about what the hooks share, for every value of the constants of  *)
(* Services: the transcript's index, the retry buffer and the persistent   *)
(* buffer.                                                                 *)
(***************************************************************************)
EXTENDS Services, TLAPS

-----------------------------------------------------------------------------
(* TranscriptSync: what the index has passed was ingested because every     *)
(* index that is on its way to the disk, old ones included, was once passed *)
(* itself, and what is ingested stays so.  A process that has met no line   *)
(* of two entries yet has read as many entries as lines, and the index it   *)
(* is to save is the number of a line.                                      *)

\* A step of the services is a step of the transcript hooks or leaves them alone.
LEMMA SyncStep == [ServicesNext]_all => [Sync!Next]_syncVars
  BY DEF ServicesNext, Only, all

\* The transcript is finite, the only bound these proofs need.
LEMMA LinesAreBounded == MaxLines \in Nat
  BY CountsAssumption

Passed(i) == \A l \in Sync!Lines : l <= i /\ l < broken => ingested[l] > 0

\* An index that is loaded has been passed; one that is to be saved will have
\* been as soon as the payload is ingested.
IndexesPassed ==
  \A p \in Sync!Process :
    /\ Passed(syncStart[p])
    /\ \A l \in Sync!Lines : l <= upTo[p] /\ l < broken => l \in sent[p] \/ ingested[l] > 0
    /\ sent[p] # {} => syncPc[p] # "idle"

Piece(p) == IF place[p].mid THEN 1 ELSE 0

\* Entries are as many as lines, or more if a line was two; what was read is
\* sent or was passed before.
PlaceRight(p) ==
  /\ place[p].at <= complete
  /\ place[p].mid => place[p].at < MaxLines
  /\ place[p].entry <= 2 * place[p].at + Piece(p)
  /\ place[p].entry >= place[p].at + Piece(p)
  /\ place[p].at < broken => place[p].entry = place[p].at + Piece(p)
  /\ upTo[p] <= place[p].entry
  /\ syncPc[p] = "loaded" =>
       \A l \in Sync!Lines : l <= place[p].at /\ l < broken => l \in sent[p] \/ l <= syncStart[p]
  /\ syncPc[p] = "idle" => place[p] = Sync!Beginning

PlacesRight == \A p \in Sync!Process : PlaceRight(p)

\* There is room for the line that is begun, and no other is read or ingested.
Room ==
  /\ torn # "none" => complete < MaxLines
  /\ \A l \in Sync!Lines : ingested[l] > 0 => l <= complete + 1
  /\ \A p \in Sync!Process : \A l \in sent[p] : l <= complete + 1

SyncInv == Sync!TypeOK /\ Sync!NothingSkipped /\ IndexesPassed /\ PlacesRight /\ Room

\* What there is room for, there is room for when lines are added.
LEMMA RoomGrows ==
  \A a, b \in Nat : b >= a => \A l \in Nat : l <= a + 1 => l <= b + 1
OBVIOUS

\* The numbers of the hooks are natural numbers.
LEMMA SyncNumbers ==
  ASSUME Sync!TypeOK
  PROVE  /\ complete \in Nat /\ index \in Nat /\ broken \in Nat
         /\ \A p \in Sync!Process :
              /\ place[p].at \in Nat /\ place[p].entry \in Nat /\ place[p].mid \in BOOLEAN
              /\ syncStart[p] \in Nat /\ upTo[p] \in Nat /\ sent[p] \subseteq Sync!Lines
              /\ Piece(p) \in {0, 1}
BY CountsAssumption DEF Sync!TypeOK, Sync!Index, Piece

\* The invariant of the transcript holds before anything is ingested.
LEMMA SyncInit == Sync!Init => SyncInv
<1> SUFFICES ASSUME Sync!Init PROVE SyncInv
  OBVIOUS
<1> USE LinesAreBounded DEF Sync!Lines, Sync!Index
<1>0. syncCut \in BOOLEAN /\ syncOverlapped \in BOOLEAN /\ stale \in BOOLEAN
  BY Zenon DEF Sync!Init
<1>1. Sync!TypeOK
  BY <1>0 DEF Sync!Init, Sync!TypeOK, Sync!Beginning
<1>2. \A p \in Sync!Process : /\ place[p].at = 0 /\ ~place[p].mid /\ place[p].entry = 0
                              /\ sent[p] = {} /\ upTo[p] = 0 /\ syncStart[p] = 0
  BY DEF Sync!Init, Sync!Beginning
<1>3. \A l \in Sync!Lines : ingested[l] = 0
  BY DEF Sync!Init
<1>4. Room /\ Sync!NothingSkipped
  BY <1>2, <1>3 DEF Sync!Init, Room, Sync!NothingSkipped
<1>5. IndexesPassed
  BY <1>2 DEF IndexesPassed, Passed
<1>6. PlacesRight
  BY <1>1, <1>2 DEF Sync!Init, PlacesRight, PlaceRight, Piece
<1> QED
  BY <1>1, <1>4, <1>5, <1>6 DEF SyncInv

\* Every way out of a hook forgets what it had.
LEMMA HookLeaves ==
  ASSUME SyncInv, NEW p \in Sync!Process, Sync!Leave(p),
         UNCHANGED <<complete, torn, ingested, broken>>,
         index' \in Sync!Index, syncCut' \in BOOLEAN, syncOverlapped' \in BOOLEAN,
           stale' \in BOOLEAN
  PROVE  Sync!TypeOK' /\ IndexesPassed' /\ PlacesRight' /\ Room'
<1> USE LinesAreBounded DEF Sync!Lines, Sync!Index
<1>1. Sync!TypeOK'
  BY DEF SyncInv, Sync!TypeOK, Sync!Leave, Sync!Beginning
<1>2. IndexesPassed'
  BY DEF SyncInv, Sync!TypeOK, IndexesPassed, Passed, Sync!Leave
<1>3. PlacesRight'
  <2>1. \A q \in Sync!Process \ {p} : /\ place'[q] = place[q] /\ syncPc'[q] = syncPc[q]
                                      /\ sent'[q] = sent[q] /\ syncStart'[q] = syncStart[q]
                                      /\ upTo'[q] = upTo[q]
    BY DEF SyncInv, Sync!TypeOK, Sync!Leave
  <2>2. place'[p] = Sync!Beginning /\ syncPc'[p] = "idle" /\ upTo'[p] = 0
    BY DEF SyncInv, Sync!TypeOK, Sync!Leave
  <2> QED
    <3>1. ASSUME NEW q \in Sync!Process, q # p PROVE PlaceRight(q)'
      BY <2>1, <3>1 DEF SyncInv, PlacesRight, PlaceRight, Piece
    <3>2. PlaceRight(p)'
      BY <2>2, CountsAssumption DEF SyncInv, Sync!TypeOK, PlaceRight, Piece, Sync!Beginning
    <3> QED BY <3>1, <3>2 DEF PlacesRight, PlaceRight
<1>4. Room'
  BY DEF SyncInv, Sync!TypeOK, Room, Sync!Leave
<1> QED
  BY <1>1, <1>2, <1>3, <1>4

\* What reading an entry does to the process that reads it.
LEMMA Taken ==
  ASSUME SyncInv, NEW p \in Sync!Process,
         Sync!ReadLine(p) \/ Sync!ReadPiece(p) \/ Sync!ReadRest(p)
  PROVE  /\ syncPc[p] = "loaded" /\ p \in Ingests /\ place[p].at < MaxLines
         /\ place[p].at \in Nat /\ place[p].entry \in Nat /\ place[p].mid \in BOOLEAN
         /\ place[p].entry + 1 <= 2 * MaxLines
         /\ place'[p].entry = place[p].entry + 1
         /\ \/ ~Sync!ReadPiece(p) /\ place'[p].at = place[p].at + 1 /\ ~place'[p].mid
               /\ place[p].at < complete
            \/ Sync!ReadPiece(p) /\ place'[p].at = place[p].at /\ place'[p].mid
               /\ ~place[p].mid /\ place[p].at = complete
         /\ \/ sent'[p] = sent[p] \cup {place[p].at + 1} /\ upTo'[p] = place[p].entry + 1
               /\ syncStart[p] < place[p].entry + 1 /\ ~place[p].mid
            \/ sent'[p] = sent[p] /\ upTo'[p] = upTo[p]
               /\ (Sync!ReadLine(p) => place[p].entry + 1 <= syncStart[p])
         /\ \A q \in Sync!Process \ {p} : place'[q] = place[q] /\ sent'[q] = sent[q]
                                          /\ upTo'[q] = upTo[q]
         /\ place'[p] \in [at : 0 .. MaxLines, mid : BOOLEAN, entry : Sync!Index]
         /\ UNCHANGED <<complete, torn, index, syncPc, syncStart, ingested, syncCut,
                        syncOverlapped, stale>>
<1> USE LinesAreBounded DEF Sync!Lines, Sync!Index
<1>1. /\ place[p].at \in Nat /\ place[p].entry \in Nat /\ place[p].mid \in BOOLEAN
      /\ complete \in 0 .. MaxLines /\ syncStart[p] \in Nat
      /\ place[p].at <= complete
      /\ place[p].entry <= 2 * place[p].at + Piece(p)
      /\ torn # "none" => complete < MaxLines
  BY DEF SyncInv, Sync!TypeOK, PlacesRight, PlaceRight, Room
<1>2. DOMAIN place = Sync!Process /\ DOMAIN sent = Sync!Process /\ DOMAIN upTo = Sync!Process
  BY DEF SyncInv, Sync!TypeOK
<1>3. CASE Sync!ReadLine(p)
  BY <1>1, <1>2, <1>3 DEF Sync!ReadLine, Sync!ReadPiece, Sync!Take, Sync!history, Piece
<1>4. CASE Sync!ReadPiece(p)
  BY <1>1, <1>2, <1>4 DEF Sync!ReadLine, Sync!ReadPiece, Sync!Take, Sync!history, Piece
<1>5. CASE Sync!ReadRest(p)
  BY <1>1, <1>2, <1>5 DEF Sync!ReadLine, Sync!ReadPiece, Sync!ReadRest, Sync!Take, Piece
<1> QED
  BY <1>3, <1>4, <1>5

\* Reading an entry keeps the invariant: only the rest of a line may put the
\* numbers of entries and lines apart, and it is what `broken` is about.
LEMMA ReadKeeps ==
  ASSUME SyncInv, NEW p \in Sync!Process,
         Sync!ReadLine(p) \/ Sync!ReadPiece(p) \/ Sync!ReadRest(p)
  PROVE  SyncInv'
<1> USE LinesAreBounded DEF Sync!Lines, Sync!Index
<1>1. /\ broken' \in 1 .. MaxLines + 1 /\ broken \in 1 .. MaxLines + 1 /\ broken' <= broken
      /\ Sync!ReadRest(p) => broken' <= place[p].at + 1 /\ place[p].mid
      /\ ~Sync!ReadRest(p) => broken' = broken /\ ~place[p].mid
  <2>1. broken \in 1 .. MaxLines + 1 /\ place[p].at \in Nat /\ place[p].at < MaxLines
    BY Taken DEF SyncInv, Sync!TypeOK
  <2>2. CASE Sync!ReadRest(p)
    <3>1. /\ place[p].mid
          /\ broken' = IF place[p].at < broken THEN place[p].at + 1 ELSE broken
      BY <2>2 DEF Sync!ReadRest
    <3> QED BY <2>1, <2>2, <3>1
  <2>3. CASE ~Sync!ReadRest(p)
    <3>1. ~place[p].mid /\ broken' = broken
      BY <2>3 DEF Sync!ReadLine, Sync!ReadPiece, Sync!history
    <3> QED BY <2>1, <2>3, <3>1
  <2> QED BY <2>2, <2>3
<1>2. Sync!TypeOK'
  <2>1. /\ sent' = [q \in Sync!Process |-> sent'[q]] /\ upTo' = [q \in Sync!Process |-> upTo'[q]]
        /\ place' = [q \in Sync!Process |-> place'[q]]
    BY DEF Sync!ReadLine, Sync!ReadPiece, Sync!ReadRest, Sync!Take, SyncInv, Sync!TypeOK
  <2>2. \A q \in Sync!Process : /\ sent'[q] \in SUBSET Sync!Lines /\ upTo'[q] \in Sync!Index
                                /\ place'[q] \in [at : 0 .. MaxLines, mid : BOOLEAN,
                                                  entry : Sync!Index]
    <3>1. ASSUME NEW q \in Sync!Process, q # p
          PROVE  place'[q] = place[q] /\ sent'[q] = sent[q] /\ upTo'[q] = upTo[q]
      BY <3>1, Taken
    <3>2. place[p].at + 1 \in Sync!Lines /\ place[p].entry + 1 \in Sync!Index
      BY Taken
    <3>3. /\ sent'[p] \in SUBSET Sync!Lines /\ upTo'[p] \in Sync!Index
          /\ place'[p] \in [at : 0 .. MaxLines, mid : BOOLEAN, entry : Sync!Index]
      <4>1. sent[p] \in SUBSET Sync!Lines /\ upTo[p] \in Sync!Index
        BY DEF SyncInv, Sync!TypeOK
      <4>2. /\ sent'[p] = sent[p] \cup {place[p].at + 1} \/ sent'[p] = sent[p]
            /\ upTo'[p] = place[p].entry + 1 \/ upTo'[p] = upTo[p]
            /\ place'[p] \in [at : 0 .. MaxLines, mid : BOOLEAN, entry : Sync!Index]
        BY Taken
      <4> HIDE DEF Sync!Lines, Sync!Index
      <4> QED BY <4>1, <4>2, <3>2
    <3> QED BY <3>1, <3>3 DEF SyncInv, Sync!TypeOK
  <2> HIDE DEF Sync!Lines, Sync!Index
  <2>3. /\ sent' \in [Sync!Process -> SUBSET Sync!Lines]
        /\ upTo' \in [Sync!Process -> Sync!Index]
        /\ place' \in [Sync!Process -> [at : 0 .. MaxLines, mid : BOOLEAN, entry : Sync!Index]]
    BY <2>1, <2>2, Zenon
  <2>4. /\ complete' = complete /\ torn' = torn /\ index' = index /\ syncPc' = syncPc
        /\ syncStart' = syncStart /\ ingested' = ingested /\ syncCut' = syncCut
        /\ syncOverlapped' = syncOverlapped /\ stale' = stale
    BY Taken
  <2>5. Sync!TypeOK /\ broken' \in 1 .. MaxLines + 1
    BY <1>1 DEF SyncInv
  <2> QED
    BY <2>3, <2>4, <2>5, Zenon DEF Sync!TypeOK
<1>3. Sync!NothingSkipped'
  <2>1. index' = index /\ ingested' = ingested
    BY Taken
  <2>2. \A l \in Sync!Lines : l < broken' => l < broken
    BY <1>1
  <2>3. Sync!NothingSkipped
    BY DEF SyncInv
  <2> QED
    BY <2>1, <2>2, <2>3 DEF Sync!NothingSkipped
<1>4. Room'
  <2>1. place[p].at + 1 <= complete + 1
    BY Taken, SyncNumbers DEF SyncInv, PlacesRight, PlaceRight
  <2>2. \A l \in sent'[p] : l <= complete + 1
    BY <2>1, Taken DEF SyncInv, Room
  <2>3. \A q \in Sync!Process \ {p} : sent'[q] = sent[q]
    BY Taken
  <2>4. torn' = torn /\ complete' = complete /\ ingested' = ingested
    BY Taken
  <2> QED BY <2>2, <2>3, <2>4 DEF SyncInv, Room
<1>5. PlacesRight'
  <2>1. ASSUME NEW q \in Sync!Process, q # p
        PROVE  /\ place'[q] = place[q] /\ sent'[q] = sent[q] /\ syncPc'[q] = syncPc[q]
               /\ syncStart'[q] = syncStart[q] /\ complete' = complete
    BY <2>1, Taken
  <2>2. /\ place'[p].at <= complete'
        /\ place'[p].mid => place'[p].at < MaxLines
        /\ place'[p].entry <= 2 * place'[p].at + Piece(p)'
        /\ place'[p].entry >= place'[p].at + Piece(p)'
        /\ place'[p].at < broken' => place'[p].entry = place'[p].at + Piece(p)'
        /\ syncPc'[p] = "loaded" /\ upTo'[p] <= place'[p].entry
    <3>1. /\ SyncInv /\ Sync!TypeOK /\ PlaceRight(p)
      BY DEF SyncInv, PlacesRight, PlaceRight
    <3>2. CASE Sync!ReadPiece(p)
      BY <3>1, <3>2, <1>1, Taken, SyncNumbers DEF PlaceRight, Piece
    <3>3. CASE ~Sync!ReadPiece(p)
      BY <3>1, <3>3, <1>1, Taken, SyncNumbers DEF PlaceRight, Piece
    <3> QED BY <3>2, <3>3
  <2>3. ASSUME NEW l \in Sync!Lines, l <= place'[p].at, l < broken'
        PROVE  l \in sent'[p] \/ l <= syncStart'[p]
    <3>1. CASE l <= place[p].at
      <4>1. PlaceRight(p)
        BY DEF SyncInv, PlacesRight
      <4>2. syncPc[p] = "loaded" /\ sent[p] \subseteq sent'[p] /\ syncStart' = syncStart
        BY Taken
      <4>3. l < broken
        BY <2>3, <1>1
      <4> QED BY <3>1, <4>1, <4>2, <4>3 DEF PlaceRight
    <3>2. CASE l = place[p].at + 1
      <4>1. PlaceRight(p) /\ place[p].at \in Nat /\ broken' \in Nat
        BY <1>1, Taken DEF SyncInv, PlacesRight
      <4>2. ~Sync!ReadRest(p) /\ broken' = broken /\ ~place[p].mid
        BY <4>1, <3>2, <2>3, <1>1
      <4>3. ~Sync!ReadPiece(p) /\ Sync!ReadLine(p)
        BY <4>1, <4>2, <3>2, <2>3, Taken
      <4>4. place[p].entry = place[p].at
        BY <4>1, <4>2, <3>2, <2>3 DEF PlaceRight, Piece
      <4>5. sent'[p] = sent[p] \cup {place[p].at + 1} \/ place[p].entry + 1 <= syncStart[p]
        BY <4>3, Taken
      <4>6. syncStart' = syncStart
        BY Taken
      <4> QED BY <3>2, <4>4, <4>5, <4>6
    <3> QED BY <3>1, <3>2, <2>3, Taken
  <2>4. ASSUME NEW q \in Sync!Process, q # p, NEW l \in Sync!Lines, l <= place'[q].at, l < broken',
               syncPc'[q] = "loaded"
        PROVE  l \in sent'[q] \/ l <= syncStart'[q]
    BY <2>1, <2>4, <1>1 DEF SyncInv, PlacesRight, PlaceRight
  <2>5. ASSUME NEW q \in Sync!Process, q # p
        PROVE  /\ place'[q].at <= complete'
               /\ place'[q].mid => place'[q].at < MaxLines
               /\ place'[q].entry <= 2 * place'[q].at + Piece(q)'
               /\ place'[q].entry >= place'[q].at + Piece(q)'
               /\ place'[q].at < broken' => place'[q].entry = place'[q].at + Piece(q)'
               /\ upTo'[q] <= place'[q].entry
               /\ syncPc'[q] = "idle" => place'[q] = Sync!Beginning
    <3>1. PlaceRight(q) /\ Sync!TypeOK /\ place'[q] = place[q] /\ upTo'[q] = upTo[q]
      BY <2>1, <2>5, Taken DEF SyncInv, PlacesRight, PlaceRight
    <3>2. Piece(q)' = Piece(q) /\ Piece(q) \in {0, 1}
      BY <3>1, SyncNumbers DEF Piece
    <3>3. /\ syncPc'[q] = syncPc[q] /\ complete' = complete /\ broken' <= broken
          /\ broken \in Nat /\ broken' \in Nat /\ place[q].at \in Nat
      BY <2>1, <2>5, <1>1, <3>1, SyncNumbers
    <3> QED BY <3>1, <3>2, <3>3 DEF PlaceRight
  <2> QED
    BY <2>2, <2>3, <2>4, <2>5 DEF PlacesRight, PlaceRight
<1>6. IndexesPassed'
  <2>1. \A q \in Sync!Process : Passed(syncStart[q])'
    <3>1. syncStart' = syncStart /\ ingested' = ingested /\ broken \in Nat /\ broken' \in Nat
      BY <1>1, Taken
    <3> QED BY <3>1, <1>1 DEF SyncInv, IndexesPassed, Passed
  <2>2. \A q \in Sync!Process : sent'[q] # {} => syncPc'[q] # "idle"
    BY Taken DEF SyncInv, IndexesPassed
  <2>3. ASSUME NEW l \in Sync!Lines, l <= upTo'[p], l < broken'
        PROVE  l \in sent'[p] \/ ingested'[l] > 0
    <3>1. CASE upTo'[p] = upTo[p] /\ sent'[p] = sent[p]
      BY <3>1, <2>3, <1>1, Taken DEF SyncInv, IndexesPassed
    <3>2. CASE /\ sent'[p] = sent[p] \cup {place[p].at + 1} /\ upTo'[p] = place[p].entry + 1
               /\ ~place[p].mid
      <4>1. l <= place[p].at + 1
        BY <3>2, <2>3, <1>1, Taken DEF SyncInv, PlacesRight, PlaceRight, Piece
      <4>2. CASE l = place[p].at + 1
        BY <4>2, <3>2
      <4>3. CASE l <= place[p].at
        BY <4>3, <3>2, <2>3, <1>1, Taken DEF SyncInv, PlacesRight, PlaceRight, IndexesPassed, Passed
      <4> QED BY <4>1, <4>2, <4>3, Taken
    <3> QED BY <3>1, <3>2, Taken
  <2>4. ASSUME NEW q \in Sync!Process, q # p, NEW l \in Sync!Lines, l <= upTo'[q], l < broken'
        PROVE  l \in sent'[q] \/ ingested'[l] > 0
    BY <2>4, <1>1, Taken DEF SyncInv, IndexesPassed
  <2> QED
    BY <2>1, <2>2, <2>3, <2>4 DEF IndexesPassed
<1> QED
  BY <1>2, <1>3, <1>4, <1>5, <1>6 DEF SyncInv

\* Every step of the hooks keeps the invariant of the transcript.
LEMMA SyncNext == SyncInv /\ [Sync!Next]_syncVars => SyncInv'
<1> SUFFICES ASSUME SyncInv, [Sync!Next]_syncVars PROVE SyncInv'
  OBVIOUS
<1> USE LinesAreBounded DEF Sync!Lines, Sync!Index
<1>1. ASSUME Sync!BeginLine \/ Sync!EndLine \/ UNCHANGED syncVars PROVE SyncInv'
  <2>0. UNCHANGED <<index, syncPc, syncStart, place, sent, upTo, ingested, syncCut,
                    syncOverlapped, broken, stale>>
    BY <1>1 DEF Sync!BeginLine, Sync!EndLine, Sync!process, Sync!history, syncVars
  <2>1. /\ complete' \in 0 .. MaxLines /\ torn' \in {"none", "part", "whole"}
        /\ complete' >= complete /\ (torn' # "none" => complete' < MaxLines)
    BY <1>1 DEF Sync!BeginLine, Sync!EndLine, syncVars, SyncInv, Sync!TypeOK, Room
  <2>2. Sync!TypeOK'
    BY <2>0, <2>1 DEF SyncInv, Sync!TypeOK
  <2>3. Room'
    <3>0. complete \in Nat /\ complete' \in Nat /\ complete' >= complete
      BY <2>1, SyncNumbers DEF SyncInv
    <3>1. \A l \in Nat : l <= complete + 1 => l <= complete' + 1
      BY <3>0, RoomGrows, Zenon
    <3>2. \A p \in Sync!Process : sent[p] \subseteq Sync!Lines
      BY SyncNumbers DEF SyncInv
    <3>3. \A l \in Sync!Lines : ingested'[l] > 0 => l <= complete' + 1
      BY <2>0, <3>1 DEF SyncInv, Room
    <3>4. \A p \in Sync!Process : \A l \in sent'[p] : l <= complete' + 1
      BY <2>0, <3>1, <3>2 DEF SyncInv, Room
    <3> QED BY <2>1, <3>3, <3>4 DEF Room
  <2>4. Sync!NothingSkipped' /\ IndexesPassed'
    BY <2>0 DEF SyncInv, Sync!NothingSkipped, IndexesPassed, Passed
  <2>5. PlacesRight'
    BY <2>0, <2>1, SyncNumbers DEF SyncInv, PlacesRight, PlaceRight, Piece
  <2> QED BY <2>2, <2>3, <2>4, <2>5 DEF SyncInv
<1>2. ASSUME NEW p \in Sync!Process, Sync!LoadIndex(p) \/ Sync!LoadState(p) PROVE SyncInv'
  <2>0. syncOverlapped' \in BOOLEAN
    BY <1>2, Zenon DEF Sync!LoadIndex, Sync!LoadState, SyncInv, Sync!TypeOK, Sync!history
  <2>1. /\ UNCHANGED <<complete, torn, index, place, sent, upTo, ingested, syncCut, broken, stale>>
        /\ syncStart' = [syncStart EXCEPT ![p] = index] /\ syncPc' = [syncPc EXCEPT ![p] = "loaded"]
        /\ syncPc[p] = "idle"
    BY <1>2 DEF Sync!LoadIndex, Sync!LoadState, Sync!history
  <2>2. Sync!TypeOK' /\ Room'
    BY <2>0, <2>1 DEF SyncInv, Sync!TypeOK, Room
  <2>3. Sync!NothingSkipped' /\ IndexesPassed'
    BY <2>1 DEF SyncInv, Sync!TypeOK, Sync!NothingSkipped, IndexesPassed, Passed
  <2>4. PlacesRight'
    <3>1. ASSUME NEW q \in Sync!Process PROVE PlaceRight(q)'
      <4>1. PlaceRight(q) /\ (q = p => place[p] = Sync!Beginning) /\ Piece(q)' = Piece(q)
        BY <2>1 DEF SyncInv, PlacesRight, PlaceRight, Piece
      <4>2. CASE q = p
        BY <4>1, <4>2, <2>1 DEF SyncInv, Sync!TypeOK, PlaceRight, Sync!Beginning
      <4>3. CASE q # p
        BY <4>1, <4>3, <2>1 DEF SyncInv, Sync!TypeOK, PlaceRight
      <4> QED BY <4>2, <4>3
    <3> QED BY <3>1 DEF PlacesRight
  <2> QED BY <2>2, <2>3, <2>4 DEF SyncInv
<1>3. ASSUME NEW p \in Sync!Process, Sync!Send(p) PROVE SyncInv'
  <2>1. /\ UNCHANGED <<complete, torn, index, syncStart, place, sent, upTo, ingested, syncCut,
                       syncOverlapped, broken, stale>>
        /\ syncPc' = [syncPc EXCEPT ![p] = "sent"]
    BY <1>3 DEF Sync!Send, Sync!history
  <2>2. Sync!TypeOK' /\ Room' /\ Sync!NothingSkipped'
    BY <2>1 DEF SyncInv, Sync!TypeOK, Room, Sync!NothingSkipped
  <2>3. IndexesPassed'
    BY <2>1 DEF SyncInv, Sync!TypeOK, IndexesPassed, Passed
  <2>4. PlacesRight'
    BY <2>1 DEF SyncInv, Sync!TypeOK, PlacesRight, PlaceRight, Piece
  <2> QED BY <2>2, <2>3, <2>4 DEF SyncInv
<1>4. ASSUME NEW p \in Sync!Process, Sync!Ingest(p) PROVE SyncInv'
  <2>0. /\ UNCHANGED <<complete, torn, index, syncPc, syncStart, place, upTo, syncCut,
                       syncOverlapped, broken, stale>>
        /\ sent' = [sent EXCEPT ![p] = {}] /\ syncPc[p] = "sent"
    BY <1>4 DEF Sync!Ingest, Sync!history
  <2>1. ingested' \in [Sync!Lines -> 0 .. 2]
    BY <1>4 DEF Sync!Ingest, SyncInv, Sync!TypeOK
  <2>2. \A l \in Sync!Lines : ingested'[l] > 0 <=> (l \in sent[p] \/ ingested[l] > 0)
    BY <1>4 DEF Sync!Ingest, SyncInv, Sync!TypeOK
  <2>3. Sync!TypeOK' /\ Room'
    BY <2>0, <2>1, <2>2 DEF SyncInv, Sync!TypeOK, Room
  <2>4. Sync!NothingSkipped'
    BY <2>0, <2>2 DEF SyncInv, Sync!TypeOK, Sync!NothingSkipped
  <2>5. IndexesPassed'
    BY <2>0, <2>2 DEF SyncInv, Sync!TypeOK, IndexesPassed, Passed
  <2>6. PlacesRight'
    BY <2>0 DEF SyncInv, Sync!TypeOK, PlacesRight, PlaceRight, Piece
  <2> QED BY <2>3, <2>4, <2>5, <2>6 DEF SyncInv
<1>5. ASSUME NEW p \in Sync!Process,
  Sync!NothingIngested(p) \/ Sync!AdvanceFails(p) \/ Sync!NothingSaved(p) PROVE SyncInv'
  <2>1. Sync!TypeOK' /\ IndexesPassed' /\ PlacesRight' /\ Room'
    BY <1>5, HookLeaves DEF Sync!NothingIngested, Sync!AdvanceFails, Sync!NothingSaved,
                            SyncInv, Sync!TypeOK, Sync!history
  <2>2. Sync!NothingSkipped'
    BY <1>5 DEF Sync!NothingIngested, Sync!AdvanceFails, Sync!NothingSaved, SyncInv,
                Sync!NothingSkipped, Sync!history
  <2> QED BY <2>1, <2>2 DEF SyncInv
<1>6. ASSUME NEW p \in Sync!Process, Sync!Advance(p) \/ Sync!SaveState(p) PROVE SyncInv'
  <2>1. Sync!TypeOK' /\ IndexesPassed' /\ PlacesRight' /\ Room'
    <3>1. /\ Sync!Leave(p) /\ UNCHANGED <<complete, torn, ingested, broken, syncCut, syncOverlapped>>
          /\ index' = upTo[p] \/ index' = syncStart[p]
          /\ stale' = (stale \/ index' < index)
      BY <1>6 DEF Sync!Advance, Sync!SaveState, Sync!SaveIndex
    <3>2. stale' \in BOOLEAN
      BY <3>1, Zenon DEF SyncInv, Sync!TypeOK
    <3>3. index' \in Sync!Index /\ syncCut' \in BOOLEAN /\ syncOverlapped' \in BOOLEAN
      BY <3>1 DEF SyncInv, Sync!TypeOK
    <3> QED BY <3>1, <3>2, <3>3, HookLeaves
  <2>2. ASSUME Sync!Advance(p) PROVE Sync!NothingSkipped'
    BY <2>2 DEF Sync!Advance, Sync!ChildSucceeded, Sync!SaveIndex, SyncInv, Sync!TypeOK,
                Sync!NothingSkipped, IndexesPassed
  <2>3. ASSUME Sync!SaveState(p) PROVE Sync!NothingSkipped'
    BY <2>3 DEF Sync!SaveState, Sync!SaveIndex, SyncInv, Sync!TypeOK, Sync!NothingSkipped,
                IndexesPassed, Passed
  <2> QED BY <1>6, <2>1, <2>2, <2>3 DEF SyncInv
<1>7. ASSUME NEW p \in Sync!Process,
  Sync!ReadLine(p) \/ Sync!ReadPiece(p) \/ Sync!ReadRest(p) PROVE SyncInv'
  BY <1>7, ReadKeeps
<1> QED
  BY <1>1, <1>2, <1>3, <1>4, <1>5, <1>6, <1>7 DEF Sync!Next

\* The types of the sync state and of the hooks' copies of it.
THEOREM SyncTypes == ServicesSpec => []Sync!TypeOK
<1>1. ServicesInit => SyncInv
  BY SyncInit DEF ServicesInit
<1>2. SyncInv /\ [ServicesNext]_all => SyncInv'
  BY SyncNext, SyncStep
<1>3. SyncInv => Sync!TypeOK
  BY DEF SyncInv
<1> QED
  BY <1>1, <1>2, <1>3, PTL DEF ServicesSpec

\* A message the index has passed has been ingested, up to the first line that
\* was read as two entries, however many hooks load and save the state of the
\* session and whatever fails (subconscious.rs:348).
THEOREM NothingSkippedHolds == ServicesSpec => []NothingSkipped
<1>1. ServicesInit => SyncInv
  BY SyncInit DEF ServicesInit
<1>2. SyncInv /\ [ServicesNext]_all => SyncInv'
  BY SyncNext, SyncStep
<1>3. SyncInv => NothingSkipped
  BY DEF SyncInv, NothingSkipped
<1> QED
  BY <1>1, <1>2, <1>3, PTL DEF ServicesSpec

-----------------------------------------------------------------------------
\* What an ingest that is under way has read and not ingested, what lies after
\* the index it is to save, and what lies after a line it read as two entries, is new.
Fresh(p) ==
  /\ syncStart[p] = index
  /\ \A l \in sent[p] : ingested[l] = 0 /\ l <= upTo[p]
  /\ syncPc[p] = "sent" \/ sent[p] # {} => upTo[p] >= index
  /\ syncPc[p] = "sent" => \A l \in Sync!Lines : l > upTo[p] => ingested[l] = 0
  /\ syncPc[p] = "loaded" /\ place[p].mid =>
       \A l \in Sync!Lines : l > place[p].at + 1 => ingested[l] = 0
  /\ syncPc[p] = "loaded" /\ place[p].entry > place[p].at + Piece(p) =>
       \A l \in Sync!Lines : l > place[p].at => ingested[l] = 0

\* At most one ingest is under way; what lies after the index is new, unless it
\* has just been ingested.  No index that is loaded is ahead of the disk's.
OneAtATime ==
  ~syncOverlapped =>
    /\ \A p, q \in Ingests : syncPc[p] # "idle" /\ syncPc[q] # "idle" => p = q
    /\ ~syncCut /\ ~stale =>
         /\ \A l \in Sync!Lines : ingested[l] <= 1
         /\ \A p \in Sync!Process : syncStart[p] <= index
         /\ \A p \in Ingests : syncPc[p] # "idle" => Fresh(p)
         /\ (\A p \in Ingests : syncPc[p] = "sent" => sent[p] # {}) =>
              \A l \in Sync!Lines : l > index => ingested[l] = 0

\* Who has a payload is an ingest, and so is who reads.
SentByIngests ==
  \A p \in Sync!Process : syncPc[p] = "sent" \/ sent[p] # {} => p \in Ingests

OnceInv == SyncInv /\ OneAtATime /\ SentByIngests

\* Before anything is ingested, nothing is ingested twice.
LEMMA OnceInit == Sync!Init => OnceInv
<1> SUFFICES ASSUME Sync!Init PROVE OnceInv
  OBVIOUS
<1>1. SyncInv BY SyncInit
<1>2. OneAtATime /\ SentByIngests
  BY CountsAssumption DEF Sync!Init, OneAtATime, SentByIngests, Sync!Lines, Sync!Process
<1> QED BY <1>1, <1>2 DEF OnceInv

\* Reading keeps what is read and not ingested new.
LEMMA ReadFresh ==
  ASSUME OnceInv, NEW p \in Sync!Process, ~syncOverlapped, ~syncCut, ~stale,
         Sync!ReadLine(p) \/ Sync!ReadPiece(p) \/ Sync!ReadRest(p)
  PROVE  Fresh(p)'
<1> USE LinesAreBounded DEF Sync!Lines, Sync!Index
<1>1. SyncInv /\ Sync!TypeOK /\ PlacesRight /\ Room
  BY DEF OnceInv, SyncInv
<1>2. Fresh(p) /\ syncPc[p] = "loaded" /\ p \in Ingests
  BY <1>1, Taken DEF OnceInv, OneAtATime
<1>3. \A l \in Sync!Lines : l > index => ingested[l] = 0
  <2>1. \A q \in Ingests : syncPc[q] = "sent" => sent[q] # {}
    BY <1>2 DEF OnceInv, OneAtATime
  <2> QED BY <2>1 DEF OnceInv, OneAtATime
<1>4. UNCHANGED <<index, syncStart, syncPc, ingested>>
  BY <1>1, Taken
<1>5. /\ place[p].entry \in Nat /\ place[p].at \in Nat /\ place[p].mid \in BOOLEAN
      /\ index \in Nat /\ upTo[p] \in Nat /\ complete \in Nat
      /\ place[p].entry >= place[p].at + Piece(p)
  BY <1>1 DEF Sync!TypeOK, PlacesRight, PlaceRight
<1>6. \A l \in sent[p] : ingested[l] = 0 /\ l <= upTo[p] /\ l \in Nat
  BY <1>1, <1>2 DEF Fresh, Sync!TypeOK
<1>7. /\ \A l \in sent'[p] : ingested[l] = 0 /\ l <= upTo'[p]
      /\ sent'[p] # {} => upTo'[p] >= index
  <2>1. CASE /\ sent'[p] = sent[p] \cup {place[p].at + 1} /\ upTo'[p] = place[p].entry + 1
             /\ syncStart[p] < place[p].entry + 1 /\ ~place[p].mid
    <3>1. upTo'[p] > index /\ place[p].at + 1 <= upTo'[p] /\ place[p].at + 1 \in Sync!Lines
      BY <2>1, <1>1, <1>2, <1>5, Taken DEF Fresh, Piece
    <3>2. ingested[place[p].at + 1] = 0
      <4>1. CASE place[p].entry = place[p].at
        BY <4>1, <3>1, <2>1, <1>3
      <4>2. CASE place[p].entry > place[p].at
        BY <4>2, <3>1, <2>1, <1>2, <1>5 DEF Fresh, Piece
      <4> QED BY <4>1, <4>2, <1>5, <2>1 DEF Piece
    <3>3. \A l \in sent[p] : l <= upTo'[p]
      <4>1. CASE sent[p] = {}
        BY <4>1
      <4>2. CASE sent[p] # {}
        <5>1. upTo[p] <= place[p].entry
          BY <1>1, <1>2 DEF PlacesRight, PlaceRight
        <5> QED BY <5>1, <2>1, <1>5, <1>6
      <4> QED BY <4>1, <4>2
    <3> QED BY <2>1, <3>1, <3>2, <3>3, <1>6, <1>5
  <2>2. CASE sent'[p] = sent[p] /\ upTo'[p] = upTo[p]
    BY <2>2, <1>2, <1>6 DEF Fresh
  <2> QED BY <2>1, <2>2, <1>1, Taken
<1>8. place'[p].mid => \A l \in Sync!Lines : l > place'[p].at + 1 => ingested[l] = 0
  <2>1. CASE Sync!ReadPiece(p)
    <3>1. place'[p].at = complete /\ \A l \in Sync!Lines : ingested[l] \in Nat
      <4>1. place'[p].at = complete
        BY <2>1, <1>1, Taken
      <4>2. ingested \in [Sync!Lines -> 0 .. 2]
        BY <1>1 DEF Sync!TypeOK
      <4>3. \A l \in Sync!Lines : ingested[l] \in 0 .. 2
        BY <4>2, Zenon
      <4> QED BY <4>1, <4>3
    <3>2. \A l \in Sync!Lines : ingested[l] > 0 => l <= complete + 1
      BY <1>1 DEF Room
    <3> QED BY <3>1, <3>2, <1>5
  <2>2. CASE ~Sync!ReadPiece(p)
    BY <2>2, <1>1, Taken
  <2> QED BY <2>1, <2>2
<1>9. place'[p].entry > place'[p].at + Piece(p)' =>
        \A l \in Sync!Lines : l > place'[p].at => ingested[l] = 0
  <2>1. CASE place[p].mid
    BY <2>1, <1>1, <1>2, <1>5, Taken DEF Fresh, Piece
  <2>2. CASE ~place[p].mid
    BY <2>2, <1>1, <1>2, <1>5, Taken DEF Fresh, Piece
  <2> QED BY <2>1, <2>2
<1> QED
  BY <1>2, <1>4, <1>7, <1>8, <1>9 DEF Fresh

\* Every step of the hooks keeps a line ingested once, unless ingests overlap.
LEMMA OnceNext == OnceInv /\ [Sync!Next]_syncVars => OnceInv'
<1> SUFFICES ASSUME OnceInv, [Sync!Next]_syncVars PROVE OnceInv'
  OBVIOUS
<1> USE LinesAreBounded DEF Sync!Lines, Sync!Index
<1>0. SyncInv'
  BY SyncNext DEF OnceInv
<1>a. SyncInv /\ Sync!TypeOK /\ Ingests \subseteq Sync!Process
  BY DEF OnceInv, SyncInv, Sync!Process
<1>b. \A q \in Sync!Process : sent[q] # {} => syncPc[q] # "idle"
  BY DEF OnceInv, SyncInv, IndexesPassed
<1>1. ASSUME Sync!BeginLine \/ Sync!EndLine \/ UNCHANGED syncVars
      PROVE OneAtATime' /\ SentByIngests'
  <2>1. UNCHANGED <<index, syncPc, syncStart, place, sent, upTo, ingested, syncCut,
                    syncOverlapped, stale>>
    BY <1>1 DEF Sync!BeginLine, Sync!EndLine, Sync!process, Sync!history, syncVars
  <2> QED BY <2>1 DEF OnceInv, OneAtATime, SentByIngests, Fresh, Piece
<1>2. ASSUME NEW p \in Sync!Process, Sync!LoadIndex(p) PROVE OneAtATime' /\ SentByIngests'
  <2>1. ~syncOverlapped' => ~syncOverlapped /\ \A q \in Ingests : syncPc[q] = "idle"
    BY <1>2, Zenon DEF Sync!LoadIndex
  <2>2. /\ p \in Ingests /\ syncPc' = [syncPc EXCEPT ![p] = "loaded"]
        /\ syncStart' = [syncStart EXCEPT ![p] = index] /\ syncPc[p] = "idle"
        /\ UNCHANGED <<index, place, sent, upTo, ingested, syncCut, stale>>
    BY <1>2 DEF Sync!LoadIndex
  <2>3. sent[p] = {} /\ place[p] = [at |-> 0, mid |-> FALSE, entry |-> 0]
    BY <2>2, <1>b DEF OnceInv, SyncInv, PlacesRight, PlaceRight, Sync!Beginning
  <2>4. SentByIngests'
    BY <2>2, <1>a DEF OnceInv, Sync!TypeOK, SentByIngests
  <2>5. Fresh(p)'
    BY <2>2, <2>3, <1>a DEF Fresh, Piece, Sync!TypeOK
  <2>6. OneAtATime'
    <3>1. ~syncOverlapped' => \A q \in Ingests : syncPc'[q] # "idle" => q = p
      BY <2>1, <2>2, <1>a DEF Sync!TypeOK
    <3> QED BY <2>1, <2>2, <2>5, <3>1, <1>a DEF OnceInv, Sync!TypeOK, OneAtATime
  <2> QED BY <2>4, <2>6
<1>3. ASSUME NEW p \in Sync!Process, Sync!LoadState(p) PROVE OneAtATime' /\ SentByIngests'
  <2>1. /\ p \notin Ingests
        /\ syncPc' = [syncPc EXCEPT ![p] = "loaded"] /\ syncStart' = [syncStart EXCEPT ![p] = index]
        /\ UNCHANGED <<index, place, sent, upTo, ingested, syncCut, syncOverlapped, stale>>
    BY <1>3, HooksAssumption DEF Sync!LoadState, Sync!history
  <2>2. \A q \in Ingests : syncPc'[q] = syncPc[q] /\ (Fresh(q) => Fresh(q)')
    BY <2>1, <1>a DEF Sync!TypeOK, Fresh, Piece
  <2>3. SentByIngests'
    BY <2>1, <1>a DEF OnceInv, SentByIngests, Sync!TypeOK
  <2>4. \A q \in Sync!Process : syncStart[q] <= index => syncStart'[q] <= index
    BY <2>1, <1>a, SyncNumbers DEF Sync!TypeOK
  <2>5. \A q \in Ingests : syncPc'[q] # "idle" => syncPc[q] # "idle"
    BY <2>2
  <2>6. OneAtATime'
    BY <2>1, <2>2, <2>4, <2>5, <1>a DEF OnceInv, OneAtATime
  <2> QED BY <2>3, <2>6
<1>4. ASSUME NEW p \in Sync!Process, Sync!Send(p) PROVE OneAtATime' /\ SentByIngests'
  <2>1. /\ p \in Ingests /\ syncPc[p] = "loaded" /\ sent[p] # {}
        /\ syncPc' = [syncPc EXCEPT ![p] = "sent"]
        /\ UNCHANGED <<index, syncStart, place, sent, upTo, ingested, syncCut, syncOverlapped, stale>>
    BY <1>4 DEF Sync!Send, Sync!history
  <2>2. SentByIngests'
    BY <2>1, <1>a DEF OnceInv, SentByIngests, Sync!TypeOK
  <2>3. ASSUME ~syncOverlapped, ~syncCut, ~stale
        PROVE  /\ \A l \in Sync!Lines : l > index => ingested[l] = 0
               /\ Fresh(p)'
    <3>1. \A q \in Ingests : syncPc[q] = "sent" => sent[q] # {}
      BY <2>1, <2>3 DEF OnceInv, OneAtATime
    <3>2. \A l \in Sync!Lines : l > index => ingested[l] = 0
      BY <3>1, <2>3 DEF OnceInv, OneAtATime
    <3>3. Fresh(p)
      BY <2>1, <2>3 DEF OnceInv, OneAtATime
    <3> QED BY <2>1, <3>2, <3>3, <1>a DEF Fresh, Sync!TypeOK
  <2>4. OneAtATime'
    <3>1. \A q \in Ingests : q # p => syncPc'[q] = syncPc[q] /\ (Fresh(q) => Fresh(q)')
      BY <2>1, <1>a DEF Fresh, Piece, Sync!TypeOK
    <3> QED BY <2>1, <2>3, <3>1, <1>a DEF OnceInv, OneAtATime, Sync!TypeOK
  <2> QED BY <2>2, <2>4
<1>5. ASSUME NEW p \in Sync!Process, Sync!Ingest(p) PROVE OneAtATime' /\ SentByIngests'
  <2>1. p \in Ingests /\ syncPc[p] = "sent" /\ sent[p] # {}
    BY <1>5 DEF Sync!Ingest, OnceInv, SentByIngests
  <2>3. \A l \in Sync!Lines : ingested'[l] = IF l \in sent[p] THEN (IF ingested[l] = 0 THEN 1 ELSE 2)
                                        ELSE ingested[l]
    BY <1>5 DEF Sync!Ingest
  <2>4. /\ sent' = [sent EXCEPT ![p] = {}]
        /\ UNCHANGED <<index, syncPc, syncStart, place, upTo, syncCut, syncOverlapped, stale>>
    BY <1>5 DEF Sync!Ingest, Sync!history
  <2>2. SentByIngests'
    BY <2>4, <1>a DEF OnceInv, SentByIngests, Sync!TypeOK
  <2>5. ASSUME ~syncOverlapped, ~syncCut, ~stale
        PROVE  /\ \A l \in Sync!Lines : ingested'[l] <= 1
               /\ \A q \in Ingests : syncPc[q] # "idle" => q = p
               /\ Fresh(p)'
    <3>1. Fresh(p) /\ \A q \in Ingests : syncPc[q] # "idle" => q = p
      BY <2>1, <2>5 DEF OnceInv, OneAtATime
    <3>2. \A l \in Sync!Lines : ingested'[l] <= 1
      BY <3>1, <2>3, <2>5 DEF OnceInv, OneAtATime, Fresh
    <3>3. Fresh(p)'
      BY <3>1, <2>1, <2>3, <2>4, <1>a DEF Fresh, Piece, Sync!TypeOK
    <3> QED BY <3>1, <3>2, <3>3
  <2>6. OneAtATime'
    BY <2>1, <2>4, <2>5, <1>a DEF OnceInv, OneAtATime, Sync!TypeOK
  <2> QED BY <2>2, <2>6
<1>6. ASSUME NEW p \in Sync!Process,
             Sync!NothingIngested(p) \/ Sync!NothingSaved(p) \/ Sync!AdvanceFails(p)
      PROVE OneAtATime' /\ SentByIngests'
  <2>1. /\ Sync!Leave(p) /\ UNCHANGED <<index, ingested, syncOverlapped, stale>>
        /\ syncCut' = TRUE \/ syncCut' = syncCut
    BY <1>6 DEF Sync!NothingIngested, Sync!NothingSaved, Sync!AdvanceFails, Sync!history
  <2>2. \A q \in Sync!Process : /\ q # p => /\ syncPc'[q] = syncPc[q] /\ sent'[q] = sent[q]
                                            /\ syncStart'[q] = syncStart[q]
                                            /\ upTo'[q] = upTo[q] /\ place'[q] = place[q]
                                /\ q = p => syncPc'[q] = "idle" /\ sent'[q] = {} /\ syncStart'[q] = 0
    BY <2>1, <1>a DEF Sync!Leave, Sync!TypeOK
  <2>3. SentByIngests'
    BY <2>2 DEF OnceInv, SentByIngests
  <2>4. ~syncCut' => ~syncCut /\ (p \in Ingests /\ syncPc[p] = "sent" => sent[p] # {})
    BY <1>6, <2>1, HooksAssumption DEF Sync!NothingIngested, Sync!NothingSaved, Sync!AdvanceFails
  <2>5. \A q \in Ingests : q # p => (Fresh(q) => Fresh(q)')
    BY <2>1, <2>2, <1>a DEF Fresh, Piece
  <2>6. (\A q \in Ingests : syncPc'[q] = "sent" => sent'[q] # {}) /\ ~syncCut' =>
          \A q \in Ingests : syncPc[q] = "sent" => sent[q] # {}
    BY <2>2, <2>4, <1>a
  <2>7. index \in Nat
    BY <1>a DEF Sync!TypeOK
  <2>8. \A q \in Sync!Process : syncStart[q] <= index => syncStart'[q] <= index
    BY <2>2, <2>7
  <2>9. OneAtATime'
    BY <2>1, <2>2, <2>4, <2>5, <2>6, <2>8, <1>a DEF OnceInv, OneAtATime
  <2> QED BY <2>3, <2>9
<1>7. ASSUME NEW p \in Sync!Process, Sync!Advance(p) \/ Sync!SaveState(p)
      PROVE OneAtATime' /\ SentByIngests'
  <2>1. /\ Sync!Leave(p) /\ UNCHANGED <<ingested, syncCut, syncOverlapped>>
        /\ ~stale' => ~stale /\ ~(index' < index)
        /\ Sync!Advance(p) => index' = upTo[p] /\ sent[p] = {} /\ syncPc[p] = "sent" /\ p \in Ingests
        /\ Sync!SaveState(p) => index' = syncStart[p] /\ p \notin Ingests
    <3>1. stale' = (stale \/ index' < index)
      BY <1>7 DEF Sync!Advance, Sync!SaveState, Sync!SaveIndex
    <3> QED
      BY <1>7, <3>1, HooksAssumption, Zenon
         DEF Sync!Advance, Sync!SaveState, Sync!SaveIndex, Sync!ChildSucceeded, OnceInv, SentByIngests
  <2>2. \A q \in Sync!Process : /\ q # p => /\ syncPc'[q] = syncPc[q] /\ sent'[q] = sent[q]
                                            /\ syncStart'[q] = syncStart[q]
                                            /\ upTo'[q] = upTo[q] /\ place'[q] = place[q]
                                /\ q = p => syncPc'[q] = "idle" /\ sent'[q] = {} /\ syncStart'[q] = 0
    BY <2>1, <1>a DEF Sync!Leave, Sync!TypeOK
  <2>3. SentByIngests'
    BY <2>2 DEF OnceInv, SentByIngests
  <2>4. index \in Nat /\ index' \in Nat
    BY <1>a, <1>0 DEF SyncInv, Sync!TypeOK
  <2>5. ASSUME ~syncOverlapped, ~syncCut, ~stale'
        PROVE  /\ \A l \in Sync!Lines : ingested[l] <= 1
               /\ \A q \in Sync!Process : syncStart'[q] <= index'
               /\ \A q \in Ingests : syncPc'[q] # "idle" => Fresh(q)'
               /\ (\A q \in Ingests : syncPc'[q] = "sent" => sent'[q] # {}) =>
                    \A l \in Sync!Lines : l > index' => ingested[l] = 0
    <3>1. ~stale /\ index' >= index
      BY <2>1, <2>4, <2>5
    <3>2. /\ \A l \in Sync!Lines : ingested[l] <= 1
          /\ \A q \in Sync!Process : syncStart[q] <= index
          /\ \A q \in Ingests : syncPc[q] # "idle" => Fresh(q)
          /\ (\A q \in Ingests : syncPc[q] = "sent" => sent[q] # {}) =>
               \A l \in Sync!Lines : l > index => ingested[l] = 0
          /\ \A o, q \in Ingests : syncPc[o] # "idle" /\ syncPc[q] # "idle" => o = q
      BY <3>1, <2>5 DEF OnceInv, OneAtATime
    <3>3. \A q \in Sync!Process : syncStart'[q] <= index'
      <4>1. \A q \in Sync!Process : syncStart[q] \in Nat /\ syncStart[q] <= index
        BY <3>2, <1>a, SyncNumbers
      <4> QED BY <4>1, <3>1, <2>2, <2>4
    <3>4. CASE Sync!Advance(p)
      <4>1. \A q \in Ingests : syncPc'[q] = "idle"
        BY <3>2, <3>4, <2>1, <2>2, <1>a
      <4>2. \A l \in Sync!Lines : l > index' => ingested[l] = 0
        BY <3>2, <3>4, <2>1 DEF Fresh
      <4> QED BY <3>2, <3>3, <4>1, <4>2
    <3>5. CASE Sync!SaveState(p)
      <4>1. index' = index
        BY <3>1, <3>2, <3>5, <2>1, <2>4
      <4>2. \A q \in Ingests : /\ syncPc'[q] = syncPc[q] /\ sent'[q] = sent[q]
                               /\ Fresh(q) => Fresh(q)'
        BY <4>1, <3>5, <2>1, <2>2, <1>a DEF Fresh, Piece
      <4> QED BY <3>2, <3>3, <4>1, <4>2
    <3> QED BY <1>7, <3>4, <3>5
  <2>6. OneAtATime'
    BY <2>1, <2>2, <2>5, <1>a DEF OnceInv, OneAtATime
  <2> QED BY <2>3, <2>6
<1>8. ASSUME NEW p \in Sync!Process,
             Sync!ReadLine(p) \/ Sync!ReadPiece(p) \/ Sync!ReadRest(p)
      PROVE OneAtATime' /\ SentByIngests'
  <2>1. SentByIngests'
    BY <1>8, <1>a, Taken DEF OnceInv, SentByIngests
  <2>2. /\ UNCHANGED <<index, syncPc, syncStart, ingested, syncCut, syncOverlapped, stale>>
        /\ p \in Ingests /\ syncPc[p] = "loaded"
        /\ \A q \in Ingests : q # p => place'[q] = place[q] /\ sent'[q] = sent[q] /\ upTo'[q] = upTo[q]
    BY <1>8, <1>a, Taken
  <2>3. \A q \in Ingests : q # p => (Fresh(q) => Fresh(q)')
    BY <2>2 DEF Fresh, Piece
  <2>4. ~syncOverlapped /\ ~syncCut /\ ~stale => Fresh(p)'
    BY <1>8, ReadFresh
  <2>5. (\A q \in Ingests : syncPc'[q] = "sent" => sent'[q] # {}) =>
          \A q \in Ingests : syncPc[q] = "sent" => sent[q] # {}
    BY <2>2
  <2>6. OneAtATime'
    BY <2>2, <2>3, <2>4, <2>5, <1>a DEF OnceInv, OneAtATime
  <2> QED BY <2>1, <2>6
<1> QED
  BY <1>0, <1>1, <1>2, <1>3, <1>4, <1>5, <1>6, <1>7, <1>8 DEF Sync!Next, OnceInv

\* A message is ingested once, unless two ingests overlap, one ends before it
\* has saved its index, or a save of an older state takes the index back.
THEOREM NothingRepeatedHolds == ServicesSpec => []Sync!NothingRepeated
<1>1. ServicesInit => OnceInv
  BY OnceInit DEF ServicesInit
<1>2. OnceInv /\ [ServicesNext]_all => OnceInv'
  BY OnceNext, SyncStep
<1>3. OnceInv => Sync!NothingRepeated
  BY DEF OnceInv, OneAtATime, Sync!NothingRepeated
<1> QED
  BY <1>1, <1>2, <1>3, PTL DEF ServicesSpec

-----------------------------------------------------------------------------
(* RetryBuffer: a file goes only after the drain that removes it has seen   *)
(* to each of its candidates; the invariant says how far every drain has    *)
(* come with the file it is at, which others may remove meanwhile.          *)

\* A step of the services is a step of the retry buffer or leaves it alone.
LEMMA RetryStep == [ServicesNext]_all => [Retry!Next]_retryVars
  BY DEF ServicesNext, Only, all

\* Candidate c of event e has been seen to.
Done(e, c) == stored[e][c] > 0 \/ <<e, c>> \in swallowed

\* A drain is at an event while it stores or removes it; those of its
\* candidates that are not left have been seen to.
DrainsKnow ==
  \A d \in Drains :
    /\ retryPc[d] \in {"store", "remove"} <=> retryAt[d] # Retry!NoEvent
    /\ retryPc[d] \in {"store", "remove"} => \A c \in Candidates \ left[d] : Done(retryAt[d], c)
    /\ retryPc[d] = "remove" => left[d] = {}
    /\ retryPc[d] \in {"store", "remove"} => processed[d] < DrainLimit

RetryInv == Retry!TypeOK /\ Retry!DeferredIsKept /\ DrainsKnow

\* The event a drain takes up next is one of its own.
LEMMA OldestIsPending ==
  ASSUME Retry!TypeOK, NEW d \in Drains, pending[d] # {}
  PROVE  Retry!Oldest(d) \in pending[d] /\ Retry!Oldest(d) \in Events
  BY CountsAssumption, EventsAssumption DEF Retry!TypeOK, Retry!Oldest

\* The invariant of the retry buffer holds while it is empty.
LEMMA RetryInit == Retry!Init => RetryInv
<1> SUFFICES ASSUME Retry!Init PROVE RetryInv
  OBVIOUS
<1>1. Retry!TypeOK
  <2>1. (CHOOSE s \in Retry!Sessions : TRUE) \in Retry!Sessions
    BY CountsAssumption, EventsAssumption DEF Retry!Sessions
  <2>2. retryOverlapped \in BOOLEAN
    BY Zenon DEF Retry!Init
  <2> QED BY <2>1, <2>2, CountsAssumption, EventsAssumption DEF Retry!Init, Retry!TypeOK
<1>2. Retry!DeferredIsKept /\ DrainsKnow
  BY DEF Retry!Init, Retry!DeferredIsKept, DrainsKnow
<1> QED
  BY <1>1, <1>2 DEF RetryInv

\* What is done stays so as long as the counters and the warnings do.
LEMMA KeepsKept ==
  ASSUME RetryInv, UNCHANGED <<artifact, stored, swallowed>>
  PROVE  Retry!DeferredIsKept'
  BY DEF RetryInv, Retry!DeferredIsKept

\* A drain that returns or dies keeps the invariant of the retry buffer.
LEMMA DrainLeaves ==
  ASSUME RetryInv, NEW d \in Drains, Retry!Leave(d), UNCHANGED <<artifact, stored, swallowed>>,
         retryFaults' \in 0 .. MaxFaults, retryCut' \in SUBSET Events,
           retryOverlapped' \in BOOLEAN
  PROVE  RetryInv'
<1>1. Retry!TypeOK'
  BY CountsAssumption, EventsAssumption DEF RetryInv, Retry!TypeOK, Retry!Leave
<1>2. DrainsKnow'
  BY DEF RetryInv, Retry!TypeOK, DrainsKnow, Done, Retry!Leave
<1> QED
  BY <1>1, <1>2, KeepsKept DEF RetryInv

\* Every step of the retry buffer keeps its invariant.
LEMMA RetryNext == RetryInv /\ [Retry!Next]_retryVars => RetryInv'
<1> SUFFICES ASSUME RetryInv, [Retry!Next]_retryVars PROVE RetryInv'
  OBVIOUS
<1>1. CASE UNCHANGED retryVars
  BY <1>1 DEF retryVars, Retry!drain, Retry!history, RetryInv, Retry!TypeOK,
              Retry!DeferredIsKept, DrainsKnow, Done
<1>2. ASSUME NEW e \in Events, Retry!Defer(e) \/ Retry!DeferIsCut(e) PROVE RetryInv'
  <2>1. UNCHANGED <<stored, Retry!drain, swallowed, retryCut, retryOverlapped>>
    BY <1>2 DEF Retry!Defer, Retry!DeferIsCut, Retry!history
  <2>2. retryFaults' \in 0 .. MaxFaults
    BY <1>2, CountsAssumption, EventsAssumption DEF Retry!Defer, Retry!DeferIsCut, Retry!history, Retry!Fault,
                                 RetryInv, Retry!TypeOK
  <2>3. PICK a \in {"torn", "ready"} : artifact' = [artifact EXCEPT ![e] = a]
    BY <1>2 DEF Retry!Defer, Retry!DeferIsCut
  <2>4. Retry!TypeOK'
    BY <2>1, <2>2, <2>3 DEF Retry!drain, RetryInv, Retry!TypeOK
  <2>5. Retry!DeferredIsKept' /\ DrainsKnow'
    BY <2>1, <2>3 DEF Retry!drain, RetryInv, Retry!TypeOK, Retry!DeferredIsKept, DrainsKnow, Done
  <2> QED BY <2>4, <2>5 DEF RetryInv
<1>3. ASSUME NEW d \in Drains, NEW s \in Retry!Sessions, Retry!ListPending(d, s) PROVE RetryInv'
  <2>1. retryOverlapped' \in BOOLEAN
    BY <1>3, Zenon DEF Retry!ListPending, RetryInv, Retry!TypeOK
  <2>2. Retry!TypeOK'
    BY <1>3, <2>1, CountsAssumption, EventsAssumption DEF Retry!ListPending, Retry!OnDisk, RetryInv, Retry!TypeOK
  <2>3. DrainsKnow'
    BY <1>3 DEF Retry!ListPending, RetryInv, Retry!TypeOK, DrainsKnow, Done
  <2> QED BY <1>3, <2>2, <2>3, KeepsKept DEF Retry!ListPending, RetryInv
<1>4. ASSUME NEW d \in Drains, Retry!Drained(d) PROVE RetryInv'
  BY <1>4, DrainLeaves DEF Retry!Drained, Retry!history, RetryInv, Retry!TypeOK
<1>5. ASSUME NEW d \in Drains, Retry!Skip(d) PROVE RetryInv'
  <2>1. Retry!TypeOK' /\ DrainsKnow'
    BY <1>5 DEF Retry!Skip, Retry!Take, Retry!history, RetryInv, Retry!TypeOK, DrainsKnow, Done
  <2> QED BY <1>5, <2>1, KeepsKept DEF Retry!Skip, Retry!history, RetryInv
<1>6. ASSUME NEW d \in Drains, Retry!Read(d) PROVE RetryInv'
  <2>1. Retry!Oldest(d) \in Events /\ Retry!Oldest(d) # Retry!NoEvent
    BY <1>6, OldestIsPending, CountsAssumption, EventsAssumption
       DEF Retry!Read, Retry!Take, Retry!NoEvent, RetryInv
  <2>2. Retry!TypeOK' /\ DrainsKnow'
    BY <1>6, <2>1 DEF Retry!Read, Retry!Take, Retry!Taken, Retry!history, RetryInv,
                      Retry!TypeOK, DrainsKnow, Done
  <2> QED BY <1>6, <2>2, KeepsKept DEF Retry!Read, Retry!Taken, Retry!history, RetryInv
<1>7. ASSUME NEW d \in Drains, NEW c \in Candidates, Retry!StoreSucceeds(d,
  c) \/ Retry!StoreFails(d, c)
      PROVE  RetryInv'
  <2>1. /\ Retry!Store(d, c) /\ retryAt[d] \in Events /\ retryAt[d] # Retry!NoEvent
        /\ left[d] \in SUBSET Candidates
    BY <1>7 DEF Retry!StoreSucceeds, Retry!StoreFails, Retry!Store, RetryInv, Retry!TypeOK,
                DrainsKnow
  <2>2. /\ stored' \in [Events -> [Candidates -> 0 .. 2]]
        /\ swallowed' \in SUBSET (Events \X Candidates)
        /\ retryFaults' \in 0 .. MaxFaults
    <3>1. CASE Retry!StoreSucceeds(d, c)
      BY <3>1, <2>1 DEF Retry!StoreSucceeds, RetryInv, Retry!TypeOK
    <3>2. CASE Retry!StoreFails(d, c)
      BY <3>2, <2>1, CountsAssumption, EventsAssumption DEF Retry!StoreFails, Retry!Fault, RetryInv, Retry!TypeOK
    <3> QED BY <1>7, <3>1, <3>2
  <2>3. \A e \in Events, k \in Candidates :
          Done(e, k)' <=> (Done(e, k) \/ (e = retryAt[d] /\ k = c))
    <3>1. CASE Retry!StoreSucceeds(d, c)
      BY <3>1, <2>1 DEF Retry!StoreSucceeds, Done, RetryInv, Retry!TypeOK
    <3>2. CASE Retry!StoreFails(d, c)
      BY <3>2, <2>1 DEF Retry!StoreFails, Done, RetryInv, Retry!TypeOK
    <3> QED BY <1>7, <3>1, <3>2
  <2>4. Retry!TypeOK'
    BY <2>1, <2>2 DEF Retry!Store, RetryInv, Retry!TypeOK
  <2>5. Retry!DeferredIsKept'
    BY <2>1, <2>3 DEF Retry!Store, Done, RetryInv, Retry!DeferredIsKept
  <2>6. DrainsKnow'
    <3> SUFFICES ASSUME NEW o \in Drains PROVE
           /\ retryPc'[o] \in {"store", "remove"} <=> retryAt'[o] # Retry!NoEvent
           /\ retryPc'[o] \in {"store",
             "remove"} => \A k \in Candidates \ left'[o] : Done(retryAt[o], k)'
           /\ retryPc'[o] = "remove" => left'[o] = {}
           /\ retryPc'[o] \in {"store", "remove"} => processed'[o] < DrainLimit
      BY <2>1 DEF DrainsKnow, Done, Retry!Store
    <3>1. CASE o = d
      BY <3>1, <2>1, <2>3 DEF Retry!Store, RetryInv, Retry!TypeOK, DrainsKnow
    <3>2. CASE o # d
      BY <3>2, <2>1, <2>3 DEF Retry!Store, RetryInv, Retry!TypeOK, DrainsKnow
    <3> QED BY <3>1, <3>2
  <2> QED BY <2>4, <2>5, <2>6 DEF RetryInv
<1>8. ASSUME NEW d \in Drains, Retry!Remove(d) PROVE RetryInv'
  <2>1. retryAt[d] \in Events /\ \A c \in Candidates : Done(retryAt[d], c)
    BY <1>8 DEF Retry!Remove, RetryInv, Retry!TypeOK, DrainsKnow
  <2>2. processed[d] + 1 \in 0 .. DrainLimit
    BY <1>8, CountsAssumption, EventsAssumption DEF Retry!Remove, RetryInv, Retry!TypeOK, DrainsKnow
  <2>3. Retry!TypeOK'
    BY <1>8, <2>1, <2>2 DEF Retry!Remove, Retry!RemovePending, Retry!history, RetryInv,
                            Retry!TypeOK
  <2>4. Retry!DeferredIsKept' /\ DrainsKnow'
    BY <1>8, <2>1 DEF Retry!Remove, Retry!RemovePending, Retry!history, RetryInv, Retry!TypeOK,
                      Retry!DeferredIsKept, DrainsKnow,
                      Done
  <2> QED BY <2>3, <2>4 DEF RetryInv
<1>9. ASSUME NEW d \in Drains, Retry!RemoveFails(d) PROVE RetryInv'
  BY <1>9, DrainLeaves DEF Retry!RemoveFails, Retry!history, RetryInv, Retry!TypeOK
<1>10. ASSUME NEW d \in Drains, Retry!Interrupt(d) PROVE RetryInv'
  <2>1. retryFaults' \in 0 .. MaxFaults /\ retryCut' \in SUBSET Events
    BY <1>10, CountsAssumption, EventsAssumption DEF Retry!Interrupt, Retry!Fault, RetryInv, Retry!TypeOK
  <2> QED BY <1>10, <2>1, DrainLeaves DEF Retry!Interrupt, RetryInv, Retry!TypeOK
<1> QED
  BY <1>1, <1>2, <1>3, <1>4, <1>5, <1>6, <1>7, <1>8, <1>9, <1>10 DEF Retry!Next

\* The types of the files, the drains and the store.
THEOREM RetryTypes == ServicesSpec => []Retry!TypeOK
<1>1. ServicesInit => RetryInv
  BY RetryInit DEF ServicesInit
<1>2. RetryInv /\ [ServicesNext]_all => RetryInv'
  BY RetryNext, RetryStep
<1>3. RetryInv => Retry!TypeOK
  BY DEF RetryInv
<1> QED
  BY <1>1, <1>2, <1>3, PTL DEF ServicesSpec

\* A deferred candidate is in a readable file or in the store, wherever a drain
\* ends and however many run at the same time, unless storing it failed with a
\* warning (ingest_hook_event.rs:327).
THEOREM DeferredIsKeptHolds == ServicesSpec => []DeferredIsKept
<1>1. ServicesInit => RetryInv
  BY RetryInit DEF ServicesInit
<1>2. RetryInv /\ [ServicesNext]_all => RetryInv'
  BY RetryNext, RetryStep
<1>3. RetryInv => DeferredIsKept
  BY DEF RetryInv, DeferredIsKept
<1> QED
  BY <1>1, <1>2, <1>3, PTL DEF ServicesSpec

-----------------------------------------------------------------------------
\* While no two drains share a session: the file a drain is at is its own, what
\* it has left is not stored, and neither is anything of a file no drain is at.
Apart ==
  ~retryOverlapped =>
    /\ \A d, o \in Drains :
         retryPc[d] # "idle" /\ retryPc[o] # "idle" /\ session[d] = session[o] => d = o
    /\ \A d \in Drains : retryAt[d] # Retry!NoEvent =>
         Session(retryAt[d]) = session[d] /\ artifact[retryAt[d]] = "ready"

Stored ==
  ~retryOverlapped => \A e \in Events \ retryCut, c \in Candidates :
    /\ stored[e][c] <= 1
    /\ artifact[e] # "none" /\ (\A d \in Drains : retryAt[d] # e) => stored[e][c] = 0
    /\ \A d \in Drains : retryAt[d] = e /\ c \in left[d] => stored[e][c] = 0

DrainInv == RetryInv /\ Apart /\ Stored

\* No two drains are at the same file then.
LEMMA AtAlone ==
  ASSUME RetryInv, Apart, ~retryOverlapped, NEW d \in Drains, NEW o \in Drains,
         retryAt[d] # Retry!NoEvent, retryAt[o] = retryAt[d]
  PROVE  o = d
<1>1. retryPc[d] # "idle" /\ retryPc[o] # "idle"
  BY DEF RetryInv, DrainsKnow
<1>2. session[d] = session[o]
  BY DEF Apart
<1> QED
  BY <1>1, <1>2 DEF Apart

\* Nothing is drained twice before the first drain.
LEMMA DrainInit == Retry!Init => DrainInv
<1> SUFFICES ASSUME Retry!Init PROVE DrainInv
  OBVIOUS
<1>1. Apart /\ Stored
  BY DEF Retry!Init, Apart, Stored
<1> QED
  BY <1>1, RetryInit DEF DrainInv

\* Every step of the retry buffer keeps an event drained once, unless drains overlap.
LEMMA DrainNext == DrainInv /\ [Retry!Next]_retryVars => DrainInv'
<1> SUFFICES ASSUME DrainInv, [Retry!Next]_retryVars PROVE DrainInv'
  OBVIOUS
<1>0. RetryInv' /\ RetryInv /\ Retry!TypeOK
  BY RetryNext DEF DrainInv, RetryInv
<1>1. CASE UNCHANGED retryVars
  BY <1>1, <1>0 DEF retryVars, Retry!drain, Retry!history, DrainInv, Apart, Stored
<1>2. ASSUME NEW e \in Events, Retry!Defer(e) \/ Retry!DeferIsCut(e) PROVE Apart' /\ Stored'
  <2>1. UNCHANGED <<stored, Retry!drain, swallowed, retryCut,
    retryOverlapped>> /\ artifact[e] = "unseen"
    BY <1>2 DEF Retry!Defer, Retry!DeferIsCut, Retry!history
  <2>2. PICK a \in {"torn", "ready"} : artifact' = [artifact EXCEPT ![e] = a]
    BY <1>2 DEF Retry!Defer, Retry!DeferIsCut
  <2> QED BY <2>1, <2>2, <1>0 DEF Retry!drain, DrainInv, Apart, Stored, Retry!TypeOK
<1>3. ASSUME NEW d \in Drains, NEW s \in Retry!Sessions, Retry!ListPending(d,
  s) PROVE Apart' /\ Stored'
  <2>1. ~retryOverlapped' => ~retryOverlapped /\ \A o \in Drains : retryPc[o] # "idle" => session[o] # s
    BY <1>3, Zenon DEF Retry!ListPending
  <2>2. retryPc[d] = "idle" /\ retryAt[d] = Retry!NoEvent
    BY <1>3, <1>0 DEF Retry!ListPending, RetryInv, DrainsKnow
  <2>3. /\ session' = [session EXCEPT ![d] = s] /\ retryPc' = [retryPc EXCEPT ![d] = "next"]
        /\ UNCHANGED <<artifact, stored, retryAt, left, retryCut>>
    BY <1>3 DEF Retry!ListPending
  <2> QED BY <2>1, <2>2, <2>3, <1>0 DEF DrainInv, Apart, Stored, Retry!TypeOK
<1>4. ASSUME NEW d \in Drains, Retry!Drained(d) PROVE Apart' /\ Stored'
  <2>1. retryAt[d] = Retry!NoEvent
    BY <1>4, <1>0 DEF Retry!Drained, RetryInv, DrainsKnow
  <2> QED BY <1>4, <2>1, <1>0 DEF Retry!Drained, Retry!Leave, Retry!history, DrainInv, Apart,
                                  Stored, Retry!TypeOK
<1>5. ASSUME NEW d \in Drains, Retry!Skip(d) PROVE Apart' /\ Stored'
  BY <1>5 DEF Retry!Skip, Retry!history, DrainInv, Apart, Stored
<1>6. ASSUME NEW d \in Drains, Retry!Read(d) PROVE Apart' /\ Stored'
  <2>1. retryAt[d] = Retry!NoEvent /\ retryPc[d] = "next"
    BY <1>6, <1>0 DEF Retry!Read, Retry!Take, RetryInv, DrainsKnow
  <2>2. Retry!Oldest(d) \in Events /\ Retry!Oldest(d) # Retry!NoEvent
    BY <1>6, <1>0, OldestIsPending, CountsAssumption, EventsAssumption
       DEF Retry!Read, Retry!Take, Retry!NoEvent
  <2>3. /\ artifact[Retry!Oldest(d)] = "ready" /\ Session(Retry!Oldest(d)) = session[d]
        /\ retryAt' = [retryAt EXCEPT ![d] = Retry!Oldest(d)] /\ left' = [left EXCEPT ![d] = Candidates]
        /\ retryPc' = [retryPc EXCEPT ![d] = "store"]
        /\ UNCHANGED <<artifact, stored, session, retryCut, retryOverlapped>>
    BY <1>6 DEF Retry!Read, Retry!Taken, Retry!history
  <2>4. Apart'
    BY <2>1, <2>2, <2>3, <1>0 DEF DrainInv, Apart, Retry!TypeOK
  <2>5. ~retryOverlapped => \A o \in Drains : retryAt[o] # Retry!Oldest(d)
    BY <2>1, <2>2, <2>3, <1>0 DEF DrainInv, Apart, RetryInv, DrainsKnow
  <2>6. Stored'
    BY <2>1, <2>2, <2>3, <2>5, <1>0, EventsAssumption
       DEF DrainInv, Stored, Retry!TypeOK, Retry!NoEvent
  <2> QED BY <2>4, <2>6
<1>7. ASSUME NEW d \in Drains, NEW c \in Candidates, Retry!StoreSucceeds(d,
  c) \/ Retry!StoreFails(d, c)
      PROVE  Apart' /\ Stored'
  <2>1. Retry!Store(d, c) /\ retryAt[d] # Retry!NoEvent
    BY <1>7, <1>0 DEF Retry!StoreSucceeds, Retry!StoreFails, Retry!Store, RetryInv, DrainsKnow
  <2>2. Apart'
    BY <2>1, <1>0 DEF Retry!Store, DrainInv, Apart, Retry!TypeOK
  <2>3. \A e \in Events, k \in Candidates : stored'[e][k] # stored[e][k] =>
          e = retryAt[d] /\ k = c /\ (stored[e][k] = 0 => stored'[e][k] = 1)
    BY <1>7, <1>0 DEF Retry!StoreSucceeds, Retry!StoreFails, Retry!TypeOK
  <2>4. ~retryOverlapped => \A o \in Drains : retryAt[o] = retryAt[d] => o = d
    BY <2>1, <1>0, AtAlone DEF DrainInv
  <2>5. Stored'
    BY <2>1, <2>3, <2>4, <1>0 DEF Retry!Store, DrainInv, Stored, Retry!TypeOK
  <2> QED BY <2>2, <2>5
<1>8. ASSUME NEW d \in Drains, Retry!Remove(d) PROVE Apart' /\ Stored'
  <2>1. retryAt[d] \in Events /\ retryAt[d] # Retry!NoEvent
    BY <1>8, <1>0 DEF Retry!Remove, RetryInv, DrainsKnow, Retry!TypeOK
  <2>2. ~retryOverlapped => \A o \in Drains : retryAt[o] = retryAt[d] => o = d
    BY <2>1, <1>0, AtAlone DEF DrainInv
  <2>3. Apart'
    BY <1>8, <2>1, <2>2, <1>0 DEF Retry!Remove, Retry!RemovePending, Retry!history, DrainInv,
                                  Apart, Retry!TypeOK
  <2>4. Stored'
    BY <1>8, <2>1, <2>2, <1>0, EventsAssumption
       DEF Retry!Remove, Retry!RemovePending, Retry!history, Retry!NoEvent, DrainInv, Stored,
           Retry!TypeOK
  <2> QED BY <2>3, <2>4
<1>9. ASSUME NEW d \in Drains, Retry!RemoveFails(d) PROVE Apart' /\ Stored'
  <2>1. retryAt[d] # Retry!NoEvent
    BY <1>9, <1>0 DEF Retry!RemoveFails, RetryInv, DrainsKnow
  <2>2. retryOverlapped /\ retryOverlapped'
    BY <1>9, <2>1 DEF Retry!RemoveFails, Retry!history, DrainInv, Apart
  <2> QED BY <2>2 DEF Apart, Stored
<1>10. ASSUME NEW d \in Drains, Retry!Interrupt(d) PROVE Apart' /\ Stored'
  <2>1. Retry!Leave(d) /\ UNCHANGED <<artifact, stored, retryOverlapped>>
    BY <1>10 DEF Retry!Interrupt
  <2>2. retryCut \subseteq retryCut' /\ (retryAt[d] # Retry!NoEvent => retryAt[d] \in retryCut' \/ left[d] = Candidates)
    BY <1>10 DEF Retry!Interrupt
  <2>3. Apart'
    BY <2>1, <1>0 DEF Retry!Leave, DrainInv, Apart, Retry!TypeOK
  <2>4. Stored'
    BY <2>1, <2>2, <1>0, CountsAssumption, EventsAssumption DEF Retry!Leave, DrainInv, Stored, Retry!TypeOK
  <2> QED BY <2>3, <2>4
<1> QED
  BY <1>0, <1>1, <1>2, <1>3, <1>4, <1>5, <1>6, <1>7, <1>8, <1>9, <1>10 DEF Retry!Next, DrainInv

\* A candidate is stored once, as long as no two drains of a session run at the
\* same time, except those of a file whose drain ended before it removed it
\* (session.rs:305).
THEOREM DrainedOnceHolds == ServicesSpec => []DrainedOnce
<1>1. ServicesInit => DrainInv
  BY DrainInit DEF ServicesInit
<1>2. DrainInv /\ [ServicesNext]_all => DrainInv'
  BY DrainNext, RetryStep
<1>3. DrainInv => DrainedOnce
  BY DEF DrainInv, Stored, Retry!DrainedOnce, DrainedOnce
<1> QED
  BY <1>1, <1>2, <1>3, PTL DEF ServicesSpec

-----------------------------------------------------------------------------
(* PersistentBuffer: flushes that overlap share the temporary file's name,  *)
(* and one may rename the file another has open.  Whatever they do to it,   *)
(* either file is whole unless somebody is about to write to it.            *)

\* A step of the services is a step of the persistent buffer or leaves it alone.
LEMMA BufferStep == [ServicesNext]_all => [Buffer!Next]_bufferVars
  BY DEF ServicesNext, Only, all

\* What is owed is in memory, from where the next flush writes it, until the
\* process is restarted; then nobody flushes.
OwedIsHeld == owed \subseteq memory \/ (restarted /\ Buffer!Flushing = {})

\* The file has what is owed, or a flush that has it open is about to write it.
FileIsKept ==
  \/ owed = {}
  \/ file \notin {NoFile, Torn} /\ owed \subseteq file
  \/ \E t \in Flushers : fd[t] = "file" /\ bufferPc[t] = "write"

\* While somebody flushes, the temporary file is gone or complete, or a flush
\* that has it open is about to write it.
TmpIsGood ==
  Buffer!Flushing # {} =>
    \/ tmp \in {NoFile, memory}
    \/ \E t \in Flushers : fd[t] = "tmp" /\ bufferPc[t] = "write"

\* Nobody flushes into a clear.
ClearIsAlone == clearing => owed = {} /\ Buffer!Flushing = {}

BufferInv ==
  /\ Buffer!TypeOK
  /\ ~excused => OwedIsHeld /\ FileIsKept /\ TmpIsGood /\ ClearIsAlone

\* The invariant of the persistent buffer holds while it is empty.
LEMMA BufferInit == Buffer!Init => BufferInv
<1> SUFFICES ASSUME Buffer!Init PROVE BufferInv
  OBVIOUS
<1>1. clearing \in BOOLEAN /\ restarted \in BOOLEAN /\ excused \in BOOLEAN
  BY Zenon DEF Buffer!Init
<1>2. Buffer!TypeOK
  BY <1>1, CountsAssumption DEF Buffer!Init, Buffer!TypeOK, Buffer!Content
<1>3. OwedIsHeld /\ FileIsKept /\ TmpIsGood /\ ClearIsAlone
  BY DEF Buffer!Init, Buffer!Flushing, OwedIsHeld, FileIsKept, TmpIsGood, ClearIsAlone
<1> QED
  BY <1>2, <1>3 DEF BufferInv

\* Every step of the persistent buffer keeps its invariant.
LEMMA BufferNext == BufferInv /\ [Buffer!Next]_bufferVars => BufferInv'
<1> SUFFICES ASSUME BufferInv, [Buffer!Next]_bufferVars PROVE BufferInv'
  OBVIOUS
<1> DEFINE Good == ~excused' => (OwedIsHeld /\ FileIsKept /\ TmpIsGood /\ ClearIsAlone)'
<1> USE DEF BufferInv, Buffer!TypeOK, Buffer!Flushing
<1>1. CASE UNCHANGED bufferVars
  BY <1>1 DEF bufferVars, Buffer!Content, OwedIsHeld, FileIsKept, TmpIsGood, ClearIsAlone
<1>2. ASSUME NEW e \in Entries, Buffer!BufferContext(e) PROVE Buffer!TypeOK' /\ Good
  BY <1>2 DEF Buffer!BufferContext, Buffer!Content, OwedIsHeld, FileIsKept, TmpIsGood,
              ClearIsAlone
<1>3. ASSUME NEW t \in Flushers, Buffer!Truncate(t) PROVE Buffer!TypeOK' /\ Good
  <2>1. Buffer!TypeOK'
    BY <1>3 DEF Buffer!Truncate, Buffer!Content
  <2>2. ASSUME ~excused' PROVE ~excused /\ ~clearing /\ (restarted => owed = {})
    BY <1>3, <2>2, Zenon DEF Buffer!Truncate
  <2>3. ASSUME ~excused' PROVE (OwedIsHeld /\ FileIsKept /\ TmpIsGood /\ ClearIsAlone)'
    BY <1>3, <2>2, <2>3 DEF Buffer!Truncate, OwedIsHeld, FileIsKept, TmpIsGood, ClearIsAlone
  <2> QED BY <2>1, <2>3
<1>4. ASSUME NEW t \in Flushers, Buffer!Write(t) PROVE Buffer!TypeOK' /\ Good
  <2>1. Buffer!TypeOK'
    BY <1>4 DEF Buffer!Write, Buffer!Buffered, Buffer!Content
  <2>2. ASSUME ~excused' PROVE (OwedIsHeld /\ FileIsKept /\ TmpIsGood /\ ClearIsAlone)'
    BY <1>4, <2>2, FilesAssumption
       DEF Buffer!Write, Buffer!Buffered, OwedIsHeld, FileIsKept, TmpIsGood, ClearIsAlone
  <2> QED BY <2>1, <2>2
<1>5. ASSUME NEW t \in Flushers, Buffer!Rename(t) PROVE Buffer!TypeOK' /\ Good
  <2>1. Buffer!TypeOK'
    BY <1>5 DEF Buffer!Rename, Buffer!Content
  <2>2. ASSUME ~excused' PROVE (OwedIsHeld /\ FileIsKept /\ TmpIsGood /\ ClearIsAlone)'
    <3>1. /\ ~excused /\ t \in Buffer!Flushing
          /\ owed \subseteq memory /\ owed' = memory /\ UNCHANGED memory
      BY <1>5, <2>2 DEF Buffer!Rename, OwedIsHeld
    <3>2. OwedIsHeld' /\ ClearIsAlone' /\ TmpIsGood'
      BY <1>5, <3>1 DEF Buffer!Rename, OwedIsHeld, ClearIsAlone, TmpIsGood
    <3>3. CASE tmp = memory
      BY <1>5, <3>1, <3>2, <3>3, FilesAssumption DEF Buffer!Rename, FileIsKept
    <3>4. CASE \E u \in Flushers : fd[u] = "tmp" /\ bufferPc[u] = "write"
      <4>1. PICK u \in Flushers : fd[u] = "tmp" /\ bufferPc[u] = "write"
        BY <3>4
      <4>2. fd'[u] = "file" /\ bufferPc'[u] = "write"
        BY <1>5, <4>1 DEF Buffer!Rename
      <4> QED BY <3>2, <4>2 DEF FileIsKept
    <3>5. tmp = memory \/ \E u \in Flushers : fd[u] = "tmp" /\ bufferPc[u] = "write"
      BY <1>5, <3>1 DEF Buffer!Rename, TmpIsGood
    <3> QED BY <3>3, <3>4, <3>5
  <2> QED BY <2>1, <2>2
<1>6. ASSUME NEW t \in Flushers, Buffer!RenameFails(t) \/ Buffer!Discard(t)
      PROVE  Buffer!TypeOK' /\ Good
  <2>1. Buffer!TypeOK'
    BY <1>6 DEF Buffer!RenameFails, Buffer!Discard, Buffer!Content
  <2>2. ASSUME ~excused' PROVE (OwedIsHeld /\ FileIsKept /\ TmpIsGood /\ ClearIsAlone)'
    BY <1>6, <2>2
       DEF Buffer!RenameFails, Buffer!Discard, OwedIsHeld, FileIsKept, TmpIsGood, ClearIsAlone
  <2> QED BY <2>1, <2>2
<1>7. CASE Buffer!RecoverBuffer
  <2>1. Buffer!TypeOK'
    BY <1>7 DEF Buffer!RecoverBuffer, Buffer!Content
  <2>2. ASSUME ~excused' PROVE (OwedIsHeld /\ FileIsKept /\ TmpIsGood /\ ClearIsAlone)'
    BY <1>7, <2>2 DEF Buffer!RecoverBuffer, OwedIsHeld, FileIsKept, TmpIsGood, ClearIsAlone
  <2> QED BY <2>1, <2>2
<1>8. CASE Buffer!ClearMemory \/ Buffer!ClearFile
  <2>1. Buffer!TypeOK'
    BY <1>8 DEF Buffer!ClearMemory, Buffer!ClearFile, Buffer!Content
  <2>2. ASSUME ~excused' PROVE (OwedIsHeld /\ FileIsKept /\ TmpIsGood /\ ClearIsAlone)'
    BY <1>8, <2>2
       DEF Buffer!ClearMemory, Buffer!ClearFile, OwedIsHeld, FileIsKept, TmpIsGood, ClearIsAlone
  <2> QED BY <2>1, <2>2
<1>9. CASE Buffer!Restart
  <2>1. excused' \in BOOLEAN /\ (excused' <=> excused \/ \E t \in Flushers : fd[t] = "file")
    BY <1>9, Zenon DEF Buffer!Restart
  <2>2. Buffer!TypeOK'
    <3>1. clearing' \in BOOLEAN /\ restarted' \in BOOLEAN
      BY <1>9, Zenon DEF Buffer!Restart
    <3>2. restarts' \in 0 .. MaxRestarts
      BY <1>9, CountsAssumption DEF Buffer!Restart
    <3> QED BY <1>9, <2>1, <3>1, <3>2 DEF Buffer!Restart, Buffer!Content
  <2>3. ASSUME ~excused' PROVE (OwedIsHeld /\ FileIsKept /\ TmpIsGood /\ ClearIsAlone)'
    BY <1>9, <2>1, <2>3 DEF Buffer!Restart, OwedIsHeld, FileIsKept, TmpIsGood, ClearIsAlone
  <2> QED BY <2>2, <2>3
<1> QED
  BY <1>1, <1>2, <1>3, <1>4, <1>5, <1>6, <1>7, <1>8, <1>9 DEF Buffer!Next

\* Whatever the flushers, the recovery and the restarts do, the file and its
\* temporary hold the entries of the buffer, nothing, or a torn write
\* (buffer.rs:212).
THEOREM BufferTypes == ServicesSpec => []Buffer!TypeOK
<1>1. ServicesInit => BufferInv
  BY BufferInit DEF ServicesInit
<1>2. BufferInv /\ [ServicesNext]_all => BufferInv'
  BY BufferNext, BufferStep
<1>3. BufferInv => Buffer!TypeOK
  BY DEF BufferInv
<1> QED
  BY <1>1, <1>2, <1>3, PTL DEF ServicesSpec

\* What a flush has put on disk is there until it is recovered or cleared, for
\* any number of overlapping flushes and wherever the process ends, unless one
\* of the three races that FlushedIsKept names happens (buffer.rs:212).
THEOREM FlushedIsKeptHolds == ServicesSpec => []FlushedIsKept
<1>1. ServicesInit => BufferInv
  BY BufferInit DEF ServicesInit
<1>2. BufferInv /\ [ServicesNext]_all => BufferInv'
  BY BufferNext, BufferStep
<1>3. BufferInv => FlushedIsKept
  BY DEF BufferInv, FileIsKept, Buffer!Flushing, Buffer!FlushedIsKept, FlushedIsKept
<1> QED
  BY <1>1, <1>2, <1>3, PTL DEF ServicesSpec
=========================================================================
