-------------------------- MODULE BootloaderProofs --------------------------
(***************************************************************************)
(* Proofs about the bootloader, for any images, sizes of flash, hosts,     *)
(* numbers of attempts and flash faults.                                   *)
(***************************************************************************)
EXTENDS BootloaderProperties, TLAPS

Cells == [0 .. SlotSize - 1 -> Byte]

-----------------------------------------------------------------------------
(* Operators on flash and on the slot table keep their types.              *)

(* Programming cells leaves cells.                                         *)
LEMMA WriteType ==
    ASSUME NEW cells \in Cells, NEW at \in Int, NEW len \in Int, NEW b \in Byte
    PROVE  Write(cells, at, len, b) \in Cells
  BY DEF Write, Cells

(* Erasing a page of cells leaves cells.                                   *)
LEMMA ErasePageType ==
    ASSUME NEW cells \in Cells, NEW at \in Int
    PROVE  ErasePage(cells, at) \in Cells
  BY DEF ErasePage, Cells, Byte

(* A table put together from typed parts is a slot table.                  *)
LEMMA TableType ==
    ASSUME NEW slot \in [Slots -> SlotRecord], NEW active \in Slots \cup {NONE},
           NEW pending \in Slots \cup {NONE}
    PROVE  [slot |-> slot, active |-> active, pending |-> pending] \in SlotTable
  BY DEF SlotTable

(* Promoting the pending image leaves a slot table.                        *)
LEMMA PromoteType ==
    ASSUME NEW tab \in SlotTable, tab.pending \in Slots
    PROVE  Promote(tab) \in SlotTable
  <1> DEFINE promoted == [s \in Slots |->
                  IF s = tab.pending
                  THEN [tab.slot[s] EXCEPT !.state = "ACTIVE", !.count = 0]
                  ELSE IF s = tab.active
                  THEN [tab.slot[s] EXCEPT !.state = "VALID"]
                  ELSE tab.slot[s]]
  <1>1. ASSUME NEW r \in SlotRecord
        PROVE  /\ [r EXCEPT !.state = "ACTIVE", !.count = 0] \in SlotRecord
               /\ [r EXCEPT !.state = "VALID"] \in SlotRecord
    <2>1. "ACTIVE" \in State /\ "VALID" \in State /\ 0 \in 0 .. MaxAttempts
      BY MaxAttemptsAssumption DEF State
    <2>2. [r EXCEPT !.state = "ACTIVE"] \in SlotRecord /\ [r EXCEPT !.state = "VALID"] \in SlotRecord
      BY <2>1 DEF SlotRecord
    <2>3. \A q \in SlotRecord : [q EXCEPT !.count = 0] \in SlotRecord
      BY <2>1 DEF SlotRecord
    <2>4. [r EXCEPT !.state = "ACTIVE", !.count = 0] = [[r EXCEPT !.state = "ACTIVE"] EXCEPT !.count = 0]
      OBVIOUS
    <2> QED
      BY <2>2, <2>3, <2>4
  <1>2. tab.slot \in [Slots -> SlotRecord]
    BY DEF SlotTable
  <1>3. promoted \in [Slots -> SlotRecord]
    BY <1>1, <1>2
  <1> HIDE DEF promoted
  <1>4. [slot |-> promoted, active |-> tab.pending, pending |-> NONE] \in SlotTable
    BY <1>3, TableType
  <1> QED
    BY <1>4 DEF Promote, promoted

(* The shape of GiveUp, Attempt and Install: one slot record is replaced.  *)
LEMMA ReplaceType ==
    ASSUME NEW tab \in SlotTable, NEW s \in Slots, NEW r \in SlotRecord,
           NEW p \in Slots \cup {NONE}
    PROVE  /\ [tab.slot EXCEPT ![s] = r] \in [Slots -> SlotRecord]
           /\ [tab EXCEPT !.slot = [tab.slot EXCEPT ![s] = r]] \in SlotTable
           /\ [tab EXCEPT !.slot = [tab.slot EXCEPT ![s] = r], !.pending = p] \in SlotTable
  <1>1. tab.slot \in [Slots -> SlotRecord]
    BY DEF SlotTable
  <1>2. [tab.slot EXCEPT ![s] = r] \in [Slots -> SlotRecord]
    BY <1>1
  <1> QED
    BY <1>2 DEF SlotTable

(* Giving up the pending image leaves a slot table.                        *)
LEMMA GiveUpType ==
    ASSUME NEW tab \in SlotTable, tab.pending \in Slots
    PROVE  GiveUp(tab) \in SlotTable
  <1> DEFINE r == [tab.slot[tab.pending] EXCEPT !.state = "FAILED"]
  <1>1. r \in SlotRecord
    BY DEF SlotTable, SlotRecord, State
  <1> HIDE DEF r
  <1>2. [tab EXCEPT !.slot = [tab.slot EXCEPT ![tab.pending] = r], !.pending = NONE] \in SlotTable
    BY <1>1, ReplaceType
  <1> QED
    BY <1>2 DEF GiveUp, r

(* Counting an attempt below the limit leaves a slot table.                *)
LEMMA AttemptType ==
    ASSUME NEW tab \in SlotTable, tab.pending \in Slots,
           tab.slot[tab.pending].count < MaxAttempts
    PROVE  Attempt(tab) \in SlotTable
  <1> DEFINE r == [tab.slot[tab.pending] EXCEPT !.count = @ + 1]
  <1>1. r \in SlotRecord
    BY MaxAttemptsAssumption DEF SlotTable, SlotRecord
  <1> HIDE DEF r
  <1>2. [tab EXCEPT !.slot = [tab.slot EXCEPT ![tab.pending] = r]] \in SlotTable
    BY <1>1, ReplaceType
  <1> QED
    BY <1>2 DEF Attempt, r

(* Making an installed image pending leaves a slot table.                  *)
LEMMA InstallType ==
    ASSUME NEW tab \in SlotTable, NEW h \in Header, h.target \in Slots
    PROVE  Install(tab, h) \in SlotTable
  <1> DEFINE r == [state |-> "PENDING", version |-> h.version, count |-> 0]
  <1>1. r \in SlotRecord /\ Addressed(h) \in Slots
    BY MaxAttemptsAssumption DEF SlotRecord, State, Header, Addressed, Slots
  <1> HIDE DEF r
  <1>2. [tab EXCEPT !.slot = [tab.slot EXCEPT ![Addressed(h)] = r], !.pending = h.target] \in SlotTable
    BY <1>1, ReplaceType
  <1> QED
    BY <1>2 DEF Install, r

(* The decision is a slot or none, and its table a table. *)
LEMMA DecideType ==
    ASSUME NEW tab \in SlotTable, NEW conf, NEW ok \in [Slots -> BOOLEAN]
    PROVE  /\ BootDecide(tab, conf, ok).table \in SlotTable
           /\ BootDecide(tab, conf, ok).run \in Slots \cup {NONE}
  <1>1. \A t \in SlotTable : Fallback(t, ok) \in Slots \cup {NONE}
    BY DEF Fallback, Other, Slots
  <1>2. CASE tab.pending \notin Slots
    BY <1>1, <1>2 DEF BootDecide
  <1>3. CASE tab.pending \in Slots /\ Confirmed(tab, conf, ok)
    BY <1>3, PromoteType DEF BootDecide
  <1>4. CASE tab.pending \in Slots /\ ~Confirmed(tab, conf, ok) /\ Exhausted(tab, ok)
    BY <1>1, <1>4, GiveUpType DEF BootDecide
  <1>5. CASE tab.pending \in Slots /\ ~Confirmed(tab, conf, ok) /\ ~Exhausted(tab, ok)
    <2>1. tab.slot[tab.pending].count < MaxAttempts
      BY <1>5, MaxAttemptsAssumption DEF Exhausted, SlotTable, SlotRecord
    <2> QED
      BY <1>5, <2>1, AttemptType DEF BootDecide
  <1> QED
    BY <1>2, <1>3, <1>4, <1>5

-----------------------------------------------------------------------------
(* Type correctness.                                                       *)

StoreTypes == Store!StoreTypeOK

OpenSession(u) == u \in Session /\ (u.state = "RECEIVING" => u.header \in Header)

SessionTypes ==
    /\ hdr \in [Slots -> Header \cup {Erased, Junk}]
    /\ area \in [Slots -> Cells]
    /\ OpenSession(upd)
    /\ faults \in 0 .. MaxFaults

(* The steps of the metadata store keep its types. *)
LEMMA StoreTypeStep ==
    ASSUME StoreTypes,
           \/ Store!Load
           \/ \E body \in SlotTable : Store!Reconstruct(body) \/ Store!Begin(body)
           \/ Store!Erase \/ Store!EraseError \/ Store!Program \/ Store!ProgramError
           \/ Store!Return \/ Store!Crash \/ storeUnchanged
    PROVE  StoreTypes'
  <1> USE DEF StoreTypes, Store!StoreTypeOK
  <1>1. CASE Store!Load
    BY <1>1 DEF Store!Load, Store!HasValid, Store!Valid, Store!Selected
  <1>2. ASSUME NEW body \in SlotTable, Store!Reconstruct(body) PROVE StoreTypes'
    BY <1>2, StoreAssumption DEF Store!Reconstruct, Store!Record
  <1>3. ASSUME NEW body \in SlotTable, Store!Begin(body) PROVE StoreTypes'
    BY <1>3 DEF Store!Begin, Store!Record
  <1>4. CASE Store!Erase
    BY <1>4 DEF Store!Erase
  <1>5. CASE Store!EraseError
    BY <1>5 DEF Store!EraseError
  <1>6. CASE Store!Program
    <2>1. Store!NextRecord(meta) \in Store!Record
      BY StoreAssumption DEF Store!NextRecord, Store!NextGen, Store!Record
    <2> QED
      BY <1>6, <2>1 DEF Store!Program
  <1>7. CASE Store!ProgramError
    BY <1>7 DEF Store!ProgramError
  <1>8. CASE Store!Return
    BY <1>8 DEF Store!Return
  <1>9. CASE Store!Crash
    BY <1>9 DEF Store!Crash
  <1>10. CASE storeUnchanged
    BY <1>10 DEF storeUnchanged
  <1> QED
    BY <1>1, <1>2, <1>3, <1>4, <1>5, <1>6, <1>7, <1>8, <1>9, <1>10

(* A step that only loses pages keeps the store's types. *)
LEMMA LosePagesType ==
    ASSUME StoreTypes, UNCHANGED <<meta, metaCopy, dest>>,
           stage' \in {stage, "off"},
           \A c \in 0 .. 1 : copies'[c] \in {copies[c], Bad},
           copies' = [c \in 0 .. 1 |-> copies'[c]]
    PROVE  StoreTypes'
  BY DEF StoreTypes, Store!StoreTypeOK

(* A fault is counted, up to MaxFaults.                                    *)
LEMMA FaultType ==
    ASSUME NEW kind, faults \in 0 .. MaxFaults, Fault(kind)
    PROVE  faults' \in 0 .. MaxFaults
  BY BlUpdateAssumption DEF Fault

(* Overwritten flash is typed. *)
LEMMA OverwriteType ==
    ASSUME SessionTypes, NEW at \in Int, NEW len \in Int, Overwrite(at, len)
    PROVE  /\ hdr' \in [Slots -> Header \cup {Erased, Junk}]
           /\ area' \in [Slots -> Cells]
           /\ \A c \in 0 .. 1 : copies'[c] \in {copies[c], Bad}
           /\ copies' = [c \in 0 .. 1 |-> copies'[c]]
  <1>1. hdr' \in [Slots -> Header \cup {Erased, Junk}]
    BY DEF SessionTypes, Overwrite
  <1>2. ASSUME NEW s \in Slots PROVE Write(area[s], at - PayloadStart(s), len, Junk) \in Cells
    <2>1. at - PayloadStart(s) \in Int /\ Junk \in Byte
      BY BlUpdateAssumption, SlotSizeAssumption DEF PayloadStart, Byte
    <2> QED
      BY <2>1, WriteType DEF SessionTypes
  <1>3. area' \in [Slots -> Cells]
    BY <1>2 DEF Overwrite
  <1>4. /\ \A c \in 0 .. 1 : copies'[c] \in {copies[c], Bad}
        /\ copies' = [c \in 0 .. 1 |-> copies'[c]]
    BY DEF Overwrite
  <1> QED
    BY <1>1, <1>3, <1>4

(* A session that START opens, DATA advances or a timeout drops is typed.  *)
LEMMA FreshSessionType == OpenSession(FreshSession)
  BY BlUpdateAssumption DEF FreshSession, Session, OpenSession

(* The session a START opens is typed and has a header.                    *)
LEMMA OpenedType ==
    ASSUME NEW h \in Header, NEW seq \in 0 .. SeqMod - 1
    PROVE  OpenSession(Opened(h, seq))
  BY BlUpdateAssumption DEF Opened, Session, OpenSession

(* DATA keeps an open session open.                                        *)
LEMMA DataReceivedType ==
    ASSUME OpenSession(upd), NEW seq \in 0 .. SeqMod - 1, NEW len \in Nat,
           NEW b \in Payload \cup {Junk}
    PROVE  OpenSession(DataReceived(seq, len, b))
  <1> DEFINE p == [seq |-> seq, len |-> len, bytes |-> b]
             n == (upd.nextSeq + 1) % SeqMod
             k == upd.received + len
  <1>1. {p} \in SUBSET Packet
    BY DEF Packet
  <1>2. n \in 0 .. SeqMod - 1 /\ k \in Nat
    BY BlUpdateAssumption DEF Session, OpenSession
  <1> HIDE DEF p, n, k
  <1>3. OpenSession([upd EXCEPT !.received = k, !.nextSeq = n, !.last = {p}])
    BY <1>1, <1>2 DEF Session, OpenSession
  <1> QED
    BY <1>3 DEF DataReceived, p, n, k

(* One call of bl_update_handle keeps the types. *)
LEMMA CommandType ==
    ASSUME StoreTypes, SessionTypes, NEW r \in Reply,
           \/ NoEffect(r)
           \/ Abort(r)
           \/ \E h \in Headers, seq \in 0 .. SeqMod - 1 : Start(h, seq, r)
           \/ \E seq \in 0 .. SeqMod - 1, len \in Lengths, b \in Contents : Data(seq, len, b, r)
           \/ End(r)
    PROVE  StoreTypes' /\ SessionTypes'
  <1>1. CASE NoEffect(r)
    BY <1>1, StoreTypeStep DEF NoEffect, flashUnchanged, SessionTypes, OpenSession
  <1>2. CASE Abort(r)
    BY <1>2, StoreTypeStep, FreshSessionType DEF Abort, flashUnchanged, SessionTypes, OpenSession
  <1>3. ASSUME NEW h \in Headers, NEW seq \in 0 .. SeqMod - 1, Start(h, seq, r)
        PROVE  StoreTypes' /\ SessionTypes'
    <2>1. h \in Header
      BY BootloaderAssumption
    <2>2. StoreTypes'
      BY <1>3, StoreTypeStep DEF Start, StartRejected, StartFlashError, StartAccepted
    <2>3. HeaderReceived(h) => OpenSession(upd)'
      BY <2>1 DEF HeaderReceived, Session, SessionTypes, OpenSession
    <2>4. CASE StartRejected(h, r)
      BY <2>2, <2>3, <2>4 DEF StartRejected, flashUnchanged, SessionTypes, OpenSession
    <2>5. CASE StartFlashError(h, r)
      BY <2>2, <2>3, <2>5, FaultType DEF StartFlashError, SessionTypes, OpenSession
    <2>6. CASE StartAccepted(h, seq, r)
      BY <2>1, <2>2, <2>6, OpenedType DEF StartAccepted, SessionTypes, OpenSession
    <2> QED
      BY <1>3, <2>4, <2>5, <2>6 DEF Start
  <1>4. ASSUME NEW seq \in 0 .. SeqMod - 1, NEW len \in Lengths, NEW b \in Contents,
               Data(seq, len, b, r)
        PROVE  StoreTypes' /\ SessionTypes'
    <2>1. len \in Nat /\ b \in Payload \cup {Junk} /\ b \in Byte /\ Junk \in Byte
      BY BootloaderAssumption, BlUpdateAssumption DEF Byte
    <2>2. OpenSession(DataReceived(seq, len, b))
      BY <2>1, DataReceivedType DEF SessionTypes, OpenSession
    <2>3. At \in Int /\ \A s \in Slots : Offset(s) \in Int
      BY BlUpdateAssumption, SlotSizeAssumption
         DEF SessionTypes, OpenSession, Session, At, Offset, PayloadStart, Addressed
    <2>4. ASSUME NEW s \in Slots
          PROVE  /\ Prepared(s) \in Cells
                 /\ \A n \in Int, c \in {b, Junk} :
                       /\ Write(Prepared(s), Offset(s), n, c) \in Cells
                       /\ Write(area[s], Offset(s), n, c) \in Cells
      <3>1. area[s] \in Cells /\ Offset(s) \in Int
        BY <2>3 DEF SessionTypes, OpenSession
      <3>2. Prepared(s) \in Cells
        BY <3>1, ErasePageType DEF Prepared
      <3> QED
        BY <2>1, <3>1, <3>2, WriteType
    <2>5. CASE DataRejected(seq, len, b, r)
      BY <2>5, StoreTypeStep DEF DataRejected, flashUnchanged, SessionTypes, OpenSession
    <2>6. CASE DataRefused(seq, len, b, r)
      <3>1. CASE UNCHANGED <<hdr, area, copies>>
        BY <2>6, <3>1 DEF DataRefused, StoreTypes, Store!StoreTypeOK, SessionTypes, OpenSession
      <3>2. CASE Overwrite(WordSize * (At \div WordSize), len)
        <4>1. WordSize * (At \div WordSize) \in Int /\ len \in Int
          BY <2>1, <2>3, BlUpdateAssumption
        <4> QED
          BY <2>6, <3>2, <4>1, OverwriteType, LosePagesType DEF DataRefused, SessionTypes, OpenSession
      <3> QED
        BY <2>6, <3>1, <3>2 DEF DataRefused
    <2>7. CASE DataStored(seq, len, b, r)
      BY <2>1, <2>2, <2>4, <2>7, StoreTypeStep DEF DataStored, SessionTypes, OpenSession
    <2>8. CASE DataSpoilt(seq, len, b, r)
      <3>1. StoreTypes' /\ UNCHANGED <<hdr, upd>>
        BY <2>8, StoreTypeStep DEF DataSpoilt
      <3>2. faults' \in 0 .. MaxFaults
        BY <2>8, FaultType DEF DataSpoilt, SessionTypes, OpenSession
      <3>3. PICK s \in Slots :
              \/ area' = [area EXCEPT ![s] = Write(Prepared(s), Offset(s), len, Junk)]
              \/ area' \in {area, [area EXCEPT ![s] = Write(@, Offset(s), PageSize, Junk)]}
        BY <2>8 DEF DataSpoilt
      <3>4. area' \in [Slots -> Cells]
        BY <2>1, <2>4, <3>3, BlUpdateAssumption DEF SessionTypes, OpenSession
      <3> QED
        BY <3>1, <3>2, <3>4 DEF SessionTypes, OpenSession
    <2>9. CASE DataBeyond(seq, len, b, r)
      <3>1. (IF PageStart THEN PageSize ELSE len) \in Int
        BY <2>1, BlUpdateAssumption
      <3>2. OpenSession(upd)'
        BY <2>2, <2>9 DEF DataBeyond, SessionTypes, OpenSession
      <3>3. Overwrite(At, IF PageStart THEN PageSize ELSE len)
        BY <2>9 DEF DataBeyond
      <3>4. /\ hdr' \in [Slots -> Header \cup {Erased, Junk}]
            /\ area' \in [Slots -> Cells]
            /\ \A c \in 0 .. 1 : copies'[c] \in {copies[c], Bad}
            /\ copies' = [c \in 0 .. 1 |-> copies'[c]]
        BY <2>3, <3>1, <3>3, OverwriteType
      <3> QED
        BY <2>9, <3>2, <3>4, LosePagesType DEF DataBeyond, SessionTypes, OpenSession
    <2> QED
      BY <1>4, <2>5, <2>6, <2>7, <2>8, <2>9 DEF Data
  <1>5. CASE End(r)
    <2>1. CASE EndRejected(r) \/ EndUnverified(r)
      BY <2>1, StoreTypeStep DEF EndRejected, EndUnverified, flashUnchanged, SessionTypes, OpenSession
    <2>2. CASE EndHeaderError(r)
      <3>1. Addressed(upd.header) \in Slots
        BY DEF Addressed, Slots
      <3> QED
        BY <2>2, <3>1, StoreTypeStep, FaultType DEF EndHeaderError, SessionTypes, OpenSession
    <2>3. CASE EndCommit
      <3>1. Addressed(upd.header) \in Slots
        BY DEF Addressed, Slots
      <3>2. upd.header \in Header /\ upd.header.target \in Slots
        BY <2>3, LinkSlotAssumption
           DEF SessionTypes, OpenSession, EndCommit, HeaderProgrammable, Verified, VectorValid, Complete
      <3>3. HeaderAfterProgram(hdr[Addressed(upd.header)], upd.header) \subseteq Header \cup {Junk}
        BY <3>2 DEF HeaderAfterProgram
      <3>4. hdr' \in [Slots -> Header \cup {Erased, Junk}] /\ faults' \in 0 .. MaxFaults
        BY <2>3, <3>1, <3>3, FaultType DEF EndCommit, SessionTypes, OpenSession
      <3>5. Install(table, upd.header) \in SlotTable
        BY <3>2, InstallType DEF table, StoreTypes, Store!StoreTypeOK, Store!Record
      <3>6. StoreTypes'
        BY <2>3, <3>5, StoreTypeStep DEF EndCommit
      <3> QED
        BY <2>3, <3>4, <3>6 DEF EndCommit, SessionTypes, OpenSession
    <2> QED
      BY <1>5, <2>1, <2>2, <2>3 DEF End
  <1> QED
    BY <1>1, <1>2, <1>3, <1>4, <1>5

BootTypes ==
    /\ pc \in {"reset", "reconstruct", "decide", "commit", "loop", "app", "wild"}
    /\ mailbox \in Mail \cup {Blank}
    /\ run \in Slots \cup {NONE}
    /\ running \in Slots \cup {NONE}

HistoryTypes ==
    /\ written \subseteq Slots
    /\ jumps \in [Slots -> 0 .. MaxAttempts + 1]
    /\ earned \in [Slots -> BOOLEAN]

(* The type invariant, in the parts its steps are proved for.              *)
LEMMA TypeParts ==
    /\ TypeOK <=> StoreTypes /\ SessionTypes /\ BootTypes /\ HistoryTypes
    /\ TypeOK' <=> StoreTypes' /\ SessionTypes' /\ BootTypes' /\ HistoryTypes'
  BY DEF TypeOK, StoreTypes, SessionTypes, SessionTypeOK, OpenSession, BootTypes, HistoryTypes, Cells

(* A command keeps the types of the history.                               *)
LEMMA SessionHistoryType ==
    ASSUME HistoryTypes, SessionHistory
    PROVE  HistoryTypes'
  BY MaxAttemptsAssumption DEF HistoryTypes, SessionHistory

(* A restart forgets the session and keeps the types of the rest. *)
LEMMA RestartType ==
    ASSUME SessionTypes, BootTypes, NEW mail \in Mail \cup {Blank}, Restart(mail)
    PROVE  /\ BootTypes'
           /\ OpenSession(upd)'
           /\ faults' \in 0 .. MaxFaults
  BY FreshSessionType DEF Restart, BootTypes, SessionTypes

(* reconstruct_metadata builds a slot table.                               *)
LEMMA ReconstructedType ==
    ASSUME SessionTypes
    PROVE  Reconstructed \in SlotTable
  <1> DEFINE v(s) == IF Bootable(s) THEN hdr[s].version ELSE CHOOSE w \in Version : TRUE
             first == IF Bootable("A") THEN "A" ELSE IF Bootable("B") THEN "B" ELSE NONE
             st(s) == IF s = first THEN "ACTIVE" ELSE IF Bootable(s) THEN "VALID" ELSE "EMPTY"
  <1>1. \A s \in Slots : v(s) \in Version
    BY VersionAssumption DEF Bootable, ImageValid, Header
  <1>2. first \in Slots \cup {NONE}
    BY DEF Slots
  <1>3. \A s \in Slots : st(s) \in State
    BY DEF State
  <1>4. 0 \in 0 .. MaxAttempts
    BY MaxAttemptsAssumption
  <1>5. Reconstructed = [slot |-> [s \in Slots |-> [state |-> st(s), version |-> v(s), count |-> 0]],
                         active |-> first, pending |-> NONE]
    BY Zenon DEF Reconstructed
  <1> HIDE DEF v, first, st
  <1> QED
    BY <1>1, <1>2, <1>3, <1>4, <1>5 DEF SlotTable, SlotRecord

(* One step per action. *)
LEMMA TypeStep == TypeOK /\ [Next]_vars => TypeOK'
  <1> SUFFICES ASSUME StoreTypes, SessionTypes, BootTypes, HistoryTypes, [Next]_vars
               PROVE  StoreTypes' /\ SessionTypes' /\ BootTypes' /\ HistoryTypes'
    BY TypeParts
  <1> DEFINE quiet == UNCHANGED <<hdr, area, upd, faults>>
  <1>1. quiet => SessionTypes'
    BY DEF SessionTypes, OpenSession
  <1>2. UNCHANGED historyVars => HistoryTypes'
    BY DEF historyVars, HistoryTypes
  <1>3. CASE LoadMetadata
    <2>1. BootTypes'
      BY <1>3 DEF LoadMetadata, BootTypes
    <2> QED
      BY <1>1, <1>2, <1>3, <2>1, StoreTypeStep DEF LoadMetadata
  <1>4. CASE ReconstructMetadata
    <2>1. BootTypes'
      BY <1>4 DEF ReconstructMetadata, BootTypes
    <2> QED
      BY <1>1, <1>2, <1>4, <2>1, StoreTypeStep, ReconstructedType DEF ReconstructMetadata
  <1>5. CASE Commit
    <2>1. UNCHANGED <<hdr, area, upd>> /\ faults' \in 0 .. MaxFaults
      BY <1>5, FaultType DEF Commit, CommitStep, SessionTypes
    <2>2. StoreTypes'
      BY <1>5, StoreTypeStep DEF Commit, CommitStep
    <2>3. SessionTypes' /\ BootTypes'
      BY <1>5, <2>1 DEF Commit, SessionTypes, OpenSession, bootVars, BootTypes
    <2> QED
      BY <1>2, <1>5, <2>2, <2>3 DEF Commit
  <1>6. CASE CommitReturns
    <2>1. BootTypes'
      BY <1>6 DEF CommitReturns, BootTypes
    <2> QED
      BY <1>1, <1>2, <1>6, <2>1, StoreTypeStep DEF CommitReturns
  <1>7. CASE Decide
    <2> DEFINE ok == [s \in Slots |-> Bootable(s)]
               d == BootDecide(table, Received, ok)
    <2>1. table \in SlotTable /\ ok \in [Slots -> BOOLEAN]
      BY DEF table, StoreTypes, Store!StoreTypeOK, Store!Record, Bootable, ImageValid,
             HeaderValid, VectorValid, PayloadCrcMatches
    <2>2. d.table \in SlotTable /\ d.run \in Slots \cup {NONE}
      BY <2>1, DecideType
    <2> HIDE DEF ok
    <2>3. /\ run' = d.run
          /\ \/ Store!Begin(d.table) /\ pc' = "commit"
             \/ storeUnchanged /\ pc' = "loop"
          /\ UNCHANGED running
      BY <1>7 DEF Decide, ok
    <2> HIDE DEF d
    <2>4. StoreTypes'
      BY <2>2, <2>3, StoreTypeStep
    <2>5. mailbox' \in Mail \cup {Blank}
      BY <1>7 DEF Decide, Mail, BootTypes, Received
    <2>6. SessionTypes'
      BY <1>7, FreshSessionType DEF Decide, SessionTypes
    <2>7. BootTypes'
      BY <2>2, <2>3, <2>5 DEF BootTypes
    <2>8. HistoryTypes'
      BY <1>7 DEF Decide, HistoryTypes
    <2> QED
      BY <2>4, <2>6, <2>7, <2>8
  <1>8. CASE Command
    <2>1. StoreTypes' /\ SessionTypes'
      BY <1>8, CommandType DEF Command
    <2>2. BootTypes' /\ HistoryTypes'
      BY <1>8, SessionHistoryType DEF Command, bootVars, BootTypes
    <2> QED
      BY <2>1, <2>2
  <1>9. CASE SessionTimeout
    <2>1. SessionTypes'
      BY <1>9, FreshSessionType DEF SessionTimeout, Timeout, flashUnchanged, SessionTypes
    <2>2. BootTypes'
      BY <1>9 DEF SessionTimeout, bootVars, BootTypes
    <2> QED
      BY <1>2, <1>9, <2>1, <2>2, StoreTypeStep DEF SessionTimeout, Timeout
  <1>10. CASE EndReturns
    <2>1. UNCHANGED <<hdr, area, faults>> /\ Store!Return
      BY <1>10 DEF EndReturns, EndDone, EndFailed, flashUnchanged
    <2>2. OpenSession(upd)'
      BY <1>10 DEF EndReturns, EndDone, EndFailed, SessionTypes, OpenSession, Session
    <2>3. BootTypes'
      BY <1>10 DEF EndReturns, bootVars, BootTypes
    <2> QED
      BY <1>2, <1>10, <2>1, <2>2, <2>3, StoreTypeStep DEF EndReturns, SessionTypes
  <1>11. CASE Jump
    <2>1. StoreTypes' /\ SessionTypes'
      BY <1>11, StoreTypeStep DEF Jump, sessionVars, storeUnchanged, SessionTypes, OpenSession
    <2>2. BootTypes'
      BY <1>11 DEF Jump, BootTypes
    <2>3. HistoryTypes'
      BY <1>11, MaxAttemptsAssumption DEF Jump, HistoryTypes
    <2> QED
      BY <2>1, <2>2, <2>3
  <1>12. ASSUME NEW mail \in Mail \cup {Blank}, Reset(mail), UNCHANGED <<hdr, area>>
         PROVE  StoreTypes' /\ SessionTypes' /\ BootTypes'
    <2>1. Restart(mail) /\ Store!Crash
      BY <1>12 DEF Reset
    <2> QED
      BY <1>12, <2>1, RestartType, StoreTypeStep DEF SessionTypes
  <1>13. CASE ReadyReset
    BY <1>2, <1>12, <1>13 DEF ReadyReset
  <1>14. CASE HostReset
    BY <1>2, <1>12, <1>14 DEF HostReset, BootTypes
  <1>15. CASE AppConfirm
    <2> DEFINE p == area[running][0]
               mail == [magic |-> "CONFIRM", slot |-> LinkSlot[p], version |-> AppVersion[p]]
    <2>1. p \in Payload
      BY <1>15, BootloaderAssumption DEF AppConfirm
    <2> HIDE DEF p
    <2>2. mail \in Mail \cup {Blank}
      BY <2>1, LinkSlotAssumption, BootloaderAssumption DEF Mail
    <2>3. Reset(mail) /\ UNCHANGED <<hdr, area>>
      BY <1>15 DEF AppConfirm, p
    <2>4. HistoryTypes'
      BY <1>15 DEF AppConfirm, HistoryTypes
    <2> HIDE DEF mail
    <2> QED
      BY <1>12, <2>2, <2>3, <2>4
  <1>16. CASE CrashReset
    <2>1. HistoryTypes'
      BY <1>16, SessionHistoryType DEF CrashReset
    <2>2. PICK mail \in {mailbox, Blank} :
            \/ Reset(mail) /\ UNCHANGED <<hdr, area>>
            \/ TornSlot /\ Restart(mail) /\ stage' = "off" /\ UNCHANGED <<meta, metaCopy, dest>>
      BY <1>16 DEF CrashReset
    <2>3. mail \in Mail \cup {Blank}
      BY DEF BootTypes
    <2>4. ASSUME TornSlot, Restart(mail), stage' = "off", UNCHANGED <<meta, metaCopy, dest>>
          PROVE  StoreTypes' /\ SessionTypes' /\ BootTypes'
      <3> DEFINE spoilt == /\ hdr' \in [Slots -> Header \cup {Erased, Junk}]
                           /\ area' \in [Slots -> Cells]
                           /\ \A c \in 0 .. 1 : copies'[c] \in {copies[c], Bad}
                           /\ copies' = [c \in 0 .. 1 |-> copies'[c]]
      <3>1. spoilt
        <4>1. CASE UNCHANGED <<area, copies>> /\ \E s \in Slots : hdr' = [hdr EXCEPT ![s] = Junk]
          BY <4>1 DEF SessionTypes, StoreTypes, Store!StoreTypeOK
        <4>2. ASSUME NEW n \in Int, Overwrite(At, n)
              PROVE  spoilt
          <5>1. At \in Int
            BY BlUpdateAssumption, SlotSizeAssumption
               DEF SessionTypes, OpenSession, Session, At, PayloadStart, Addressed
          <5> QED
            BY <4>2, <5>1, OverwriteType
        <4>3. PageSize - (upd.received % PageSize) \in Int
          BY BlUpdateAssumption DEF SessionTypes, OpenSession, Session
        <4> QED
          BY <2>4, <4>1, <4>2, <4>3 DEF TornSlot
      <3> QED
        BY <2>3, <2>4, <3>1, LosePagesType, RestartType DEF SessionTypes
    <2> QED
      BY <1>12, <2>1, <2>2, <2>3, <2>4
  <1>17. CASE UNCHANGED vars
    BY <1>1, <1>2, <1>17, StoreTypeStep
       DEF vars, sessionVars, storeUnchanged, bootVars, BootTypes
  <1> QED
    BY <1>3, <1>4, <1>5, <1>6, <1>7, <1>8, <1>9, <1>10, <1>11, <1>13, <1>14, <1>15, <1>16,
       <1>17 DEF Next

(* A programmed board is typed.                                            *)
LEMMA InitType == Init => TypeOK
  <1> SUFFICES ASSUME Init
               PROVE  StoreTypes /\ SessionTypes /\ BootTypes /\ HistoryTypes
    BY TypeParts
  <1>1. StoreTypes
    <2> DEFINE v == CHOOSE w \in Version : TRUE
               r == [state |-> "EMPTY", version |-> v, count |-> 0]
               t == [slot |-> [s \in Slots |-> r], active |-> NONE, pending |-> NONE]
    <2>1. v \in Version
      BY VersionAssumption
    <2> HIDE DEF v
    <2>2. r \in SlotRecord
      BY <2>1, MaxAttemptsAssumption DEF SlotRecord, State
    <2> HIDE DEF r
    <2>3. t \in SlotTable
      BY <2>2 DEF SlotTable
    <2>4. meta \in [gen: {0}, body: {t}]
      BY Zenon DEF Init, t, r, v
    <2> HIDE DEF t
    <2>5. meta \in [gen: 0 .. GenMod - 1, body: SlotTable]
      BY <2>3, <2>4, StoreAssumption
    <2>6. stage = "off" /\ dest = 0 /\ metaCopy = 0 /\ copies = [c \in 0 .. 1 |-> Bad]
      BY DEF Init
    <2> QED
      BY <2>5, <2>6 DEF StoreTypes, Store!StoreTypeOK, Store!Record
  <1>2. hdr \in [Slots -> Header \cup {Erased, Junk}]
    BY BootloaderAssumption DEF Init
  <1>3. area \in [Slots -> Cells]
    <2>1. [i \in 0 .. SlotSize - 1 |-> Erased] \in Cells
      BY DEF Cells, Byte
    <2>2. \A h \in Factory : FactoryArea(h) \in Cells
      BY BootloaderAssumption DEF FactoryArea, Cells, Byte, Header
    <2>3. \A s \in Slots : hdr[s] \in Factory \cup {Erased}
      BY DEF Init
    <2>4. area = [s \in Slots |-> IF hdr[s] = Erased
                                  THEN [i \in 0 .. SlotSize - 1 |-> Erased]
                                  ELSE FactoryArea(hdr[s])]
      BY DEF Init
    <2> QED
      BY <2>1, <2>2, <2>3, <2>4
  <1>4. OpenSession(upd) /\ faults \in 0 .. MaxFaults
    BY BlUpdateAssumption, FreshSessionType DEF Init
  <1>5. BootTypes /\ HistoryTypes
    BY MaxAttemptsAssumption DEF Init, BootTypes, HistoryTypes
  <1> QED
    BY <1>1, <1>2, <1>3, <1>4, <1>5 DEF SessionTypes

(* The bootloader's state keeps its types: the slot table names slots and  *)
(* counts no more than MaxAttempts attempts, the flash holds headers and   *)
(* payloads, and an open session has a whole header, whatever commands,    *)
(* faults and resets come (bl_main, bl_update, ota_boot and ota_metadata). *)
THEOREM TypeCorrect == Spec => []TypeOK
  <1>1. Init => TypeOK
    BY InitType
  <1>2. TypeOK /\ [Next]_vars => TypeOK'
    BY TypeStep
  <1> QED
    BY <1>1, <1>2, PTL DEF Spec

-----------------------------------------------------------------------------
(* The slot that the range guard protects.                                 *)

(* Rounding down to a word does not leave a range that starts at a word.   *)
LEMMA RoundedDown ==
    ASSUME NEW at \in Int, NEW w \in Nat \ {0}, NEW k \in Int, k * w <= at
    PROVE  /\ w * (at \div w) \in Int
           /\ k * w <= w * (at \div w)
           /\ w * (at \div w) <= at
  <1> DEFINE q == at \div w
  <1>1. q \in Int /\ w * q <= at /\ at < w * q + w
    OBVIOUS
  <1> HIDE DEF q
  <1>2. k <= q
    <2>1. CASE q + 1 <= k
      <3>1. w * (q + 1) <= w * k
        BY <1>1, <2>1
      <3> QED
        BY <1>1, <3>1
    <2> QED
      BY <1>1, <2>1
  <1>3. w * k <= w * q
    BY <1>1, <1>2
  <1> QED
    BY <1>1, <1>3 DEF q

(* A slot, its header page and the metadata start and end at words.        *)
LEMMA WordAligned ==
    /\ \E k \in Int : k * WordSize = SlotSize
    /\ \E k \in Int : k * WordSize = PageSize
  <1> DEFINE n == SlotSize \div PageSize
             m == PageSize \div WordSize
  <1>1. n \in Int /\ SlotSize = n * PageSize
    BY BlUpdateAssumption, SlotSizeAssumption
  <1>2. m \in Int /\ PageSize = m * WordSize
    BY BlUpdateAssumption
  <1> HIDE DEF n, m
  <1>3. n * m \in Int /\ (n * m) * WordSize = SlotSize
    BY <1>1, <1>2, BlUpdateAssumption
  <1> QED
    BY <1>2, <1>3

(* The flash map, from the start of slot A's payload.                      *)
LEMMA AddressMap ==
    /\ SlotSize \in Nat \ {0} /\ PageSize \in Nat \ {0}
    /\ PayloadStart("A") = 0 /\ PayloadStart("B") = SlotSize + PageSize
    /\ HeaderStart("A") = 0 - PageSize /\ HeaderStart("B") = SlotSize
    /\ CopyStart(0) = 2 * SlotSize + PageSize
    /\ CopyStart(1) = 2 * SlotSize + 2 * PageSize
    /\ CopyStart(2) = 2 * SlotSize + 3 * PageSize
  BY SlotSizeAssumption, BlUpdateAssumption DEF PayloadStart, HeaderStart, CopyStart

(* Overwritten flash that begins and ends in the range that                *)
(* bl_flash_range_allowed allows is none of the protected slot's.          *)
LEMMA OverwriteOutside ==
    ASSUME SessionTypes,
           NEW first \in Int, NEW at \in Int, NEW len \in Nat,
           RangeAllowed(first, len), at <= first,
           \A s \in Slots : HeaderStart(s) <= first => HeaderStart(s) <= at,
           CopyStart(0) <= first => CopyStart(0) <= at,
           Overwrite(at, len),
           NEW s \in Slots, ~Writable(s)
    PROVE  hdr'[s] = hdr[s] /\ area'[s] = area[s]
  <1>1. area[s] \in Cells /\ DOMAIN area[s] = 0 .. SlotSize - 1
    BY DEF SessionTypes, Cells
  <1>2. /\ Writable("A") => first + len <= SlotSize \/ CopyStart(0) <= first
        /\ ~Writable("A") => SlotSize <= first
    BY AddressMap DEF RangeAllowed, Within, Writable, Slots
  <1>3. CASE s = "A"
    <2>1. SlotSize <= at
      <3>1. ~Writable("A")
        BY <1>3
      <3>2. HeaderStart("B") <= first /\ "B" \in Slots
        BY <1>2, <3>1, AddressMap DEF Slots
      <3> QED
        BY <3>2, AddressMap
    <2>2. \A i \in 0 .. SlotSize - 1 : ~(at - PayloadStart(s) <= i)
      BY <1>3, <2>1, AddressMap
    <2>3. area'[s] = [i \in 0 .. SlotSize - 1 |-> area[s][i]]
      BY <1>1, <2>2 DEF Overwrite, Write
    <2>4. hdr'[s] = hdr[s]
      BY <1>3, <2>1, AddressMap DEF Overwrite
    <2> QED
      BY <1>1, <2>3, <2>4 DEF Cells
  <1>4. CASE s = "B"
    <2>1. at + len <= SlotSize \/ CopyStart(0) <= at
      BY <1>2, <1>4, AddressMap DEF Writable, Slots
    <2>2. \A i \in 0 .. SlotSize - 1 :
            ~(at - PayloadStart(s) <= i /\ i < at - PayloadStart(s) + len)
      BY <1>4, <2>1, AddressMap
    <2>3. area'[s] = [i \in 0 .. SlotSize - 1 |-> area[s][i]]
      BY <1>1, <2>2 DEF Overwrite, Write
    <2>4. hdr'[s] = hdr[s]
      BY <1>4, <2>1, AddressMap DEF Overwrite
    <2> QED
      BY <1>1, <2>3, <2>4 DEF Cells
  <1> QED
    BY <1>3, <1>4 DEF Slots

(* DATA in a payload area the range guard allows is in the other slot.     *)
LEMMA InAreaWritable ==
    ASSUME SessionTypes, NEW s \in Slots, NEW len \in Nat \ {0},
           InArea(s, len), RangeAllowed(At, len)
    PROVE  Writable(s)
  <1>1. At \in Int
    BY BlUpdateAssumption, SlotSizeAssumption
       DEF SessionTypes, OpenSession, Session, At, PayloadStart, Addressed
  <1> QED
    BY <1>1, AddressMap DEF InArea, RangeAllowed, Within, Writable, Slots

(* The same for the word DATA between two words spoils.                    *)
LEMMA OverwriteRounded ==
    ASSUME SessionTypes, NEW len \in Nat, RangeAllowed(At, len),
           Overwrite(WordSize * (At \div WordSize), len),
           NEW s \in Slots, ~Writable(s)
    PROVE  hdr'[s] = hdr[s] /\ area'[s] = area[s]
  <1> DEFINE at == WordSize * (At \div WordSize)
  <1>1. At \in Int
    BY BlUpdateAssumption, SlotSizeAssumption
       DEF SessionTypes, OpenSession, Session, At, PayloadStart, Addressed
  <1>2. PICK k \in Int : k * WordSize = SlotSize
    BY WordAligned
  <1>3. PICK m \in Int : m * WordSize = PageSize
    BY WordAligned
  <1>4. WordSize \in Nat \ {0}
    BY BlUpdateAssumption
  <1>5. /\ (0 - m) * WordSize = HeaderStart("A") /\ 0 - m \in Int
        /\ k * WordSize = HeaderStart("B")
        /\ (2 * k + m) * WordSize = CopyStart(0) /\ 2 * k + m \in Int
    BY <1>2, <1>3, <1>4, AddressMap
  <1>6. at \in Int /\ at <= At
    <2>1. CASE 0 <= At
      <3>1. 0 * WordSize <= At
        BY <1>4, <2>1
      <3> QED
        BY <1>1, <1>4, <3>1, RoundedDown
    <2>2. CASE At < 0
      BY <1>1, <1>4
    <2> QED
      BY <1>1, <2>1, <2>2
  <1>7. \A j \in Int : j * WordSize <= At => j * WordSize <= at
    BY <1>1, <1>4, RoundedDown
  <1>8. /\ HeaderStart("A") <= At => HeaderStart("A") <= at
        /\ HeaderStart("B") <= At => HeaderStart("B") <= at
        /\ CopyStart(0) <= At => CopyStart(0) <= at
    BY <1>5, <1>7
  <1>9. \A t \in Slots : HeaderStart(t) <= At => HeaderStart(t) <= at
    BY <1>8 DEF Slots
  <1>10. Overwrite(at, len)
    OBVIOUS
  <1> HIDE DEF at
  <1> QED
    BY <1>1, <1>6, <1>8, <1>9, <1>10, OverwriteOutside

(* A command of the host leaves the protected slot as it is.               *)
LEMMA CommandProtects ==
    ASSUME SessionTypes, NEW r \in Reply, NEW s \in Slots, ~Writable(s),
           \/ NoEffect(r)
           \/ Abort(r)
           \/ \E h \in Headers, seq \in 0 .. SeqMod - 1 : Start(h, seq, r)
           \/ \E seq \in 0 .. SeqMod - 1, len \in Lengths, b \in Contents : Data(seq, len, b, r)
           \/ End(r)
    PROVE  hdr'[s] = hdr[s] /\ area'[s] = area[s]
  <1>2. CASE NoEffect(r) \/ Abort(r)
    BY <1>2 DEF NoEffect, Abort, flashUnchanged
  <1>3. ASSUME NEW h \in Headers, NEW seq \in 0 .. SeqMod - 1, Start(h, seq, r)
        PROVE  hdr'[s] = hdr[s] /\ area'[s] = area[s]
    <2>1. StartAcceptable(h) => h.target \in Slots
      BY DEF StartAcceptable, HeaderValid
    <2> QED
      BY <1>3, <2>1 DEF SessionTypes, Start, StartRejected, StartFlashError, StartAccepted,
                        flashUnchanged
  <1>4. ASSUME NEW seq \in 0 .. SeqMod - 1, NEW len \in Lengths, NEW b \in Contents,
               Data(seq, len, b, r)
        PROVE  hdr'[s] = hdr[s] /\ area'[s] = area[s]
    <2>1. len \in Nat
      BY BootloaderAssumption, BlUpdateAssumption
    <2>2. DataAcceptable(seq, len, b) => len # 0
      BY DEF DataAcceptable, InOrder
    <2>3. DataAcceptable(seq, len, b) /\ ProgramAllowed(len) =>
             RangeAllowed(At, len) /\ (PageStart => RangeAllowed(At, PageSize))
      BY DEF ProgramAllowed
    <2>4. CASE DataRejected(seq, len, b, r)
      BY <2>4 DEF DataRejected, flashUnchanged
    <2>5. CASE DataRefused(seq, len, b, r)
      BY <2>1, <2>5, OverwriteRounded DEF DataRefused
    <2>6. ASSUME NEW t \in Slots, InArea(t, len), RangeAllowed(At, len), len # 0
          PROVE  t # s
      BY <2>1, <2>6, InAreaWritable
    <2>7. CASE DataStored(seq, len, b, r)
      BY <2>2, <2>3, <2>6, <2>7 DEF DataStored, SessionTypes
    <2>8. CASE DataSpoilt(seq, len, b, r)
      BY <2>2, <2>3, <2>6, <2>8 DEF DataSpoilt, SessionTypes
    <2>9. CASE DataBeyond(seq, len, b, r)
      <3>1. At \in Int
        BY BlUpdateAssumption, SlotSizeAssumption
           DEF SessionTypes, OpenSession, Session, At, PayloadStart, Addressed
      <3>2. ASSUME NEW n \in Nat, RangeAllowed(At, n), Overwrite(At, n)
            PROVE  hdr'[s] = hdr[s] /\ area'[s] = area[s]
        BY <3>1, <3>2, OverwriteOutside
      <3> QED
        BY <2>1, <2>3, <2>9, <3>2, BlUpdateAssumption DEF DataBeyond
    <2> QED
      BY <1>4, <2>4, <2>5, <2>7, <2>8, <2>9 DEF Data
  <1>5. CASE End(r)
    <2>1. Writable(Addressed(upd.header)) => Addressed(upd.header) # s
      OBVIOUS
    <2> QED
      BY <1>5, <2>1 DEF End, EndRejected, EndUnverified, EndHeaderError, EndCommit,
                        HeaderProgrammable, flashUnchanged, SessionTypes
  <1> QED
    BY <1>2, <1>3, <1>4, <1>5

(* One step of the bootloader leaves the protected slot as it is.          *)
LEMMA ProtectedStep ==
    ASSUME TypeOK, [Next]_vars, NEW s \in Slots, ~Writable(s)
    PROVE  hdr'[s] = hdr[s] /\ area'[s] = area[s]
  <1>1. SessionTypes
    BY TypeParts
  <1>2. CASE LoadMetadata \/ ReconstructMetadata \/ Commit \/ CommitReturns \/ Decide
             \/ Jump \/ SessionTimeout \/ EndReturns \/ UNCHANGED vars
    BY <1>2 DEF LoadMetadata, ReconstructMetadata, Commit, CommitStep, CommitReturns, Decide,
                Jump, SessionTimeout, Timeout, EndReturns, EndDone, EndFailed, flashUnchanged,
                vars, sessionVars
  <1>3. CASE ReadyReset \/ HostReset \/ AppConfirm
    BY <1>3 DEF ReadyReset, HostReset, AppConfirm
  <1>4. CASE Command
    BY <1>1, <1>4, CommandProtects DEF Command
  <1>5. CASE CrashReset
    <2>1. TornSlot => hdr'[s] = hdr[s] /\ area'[s] = area[s]
      <3>2. At \in Int
        BY <1>1, BlUpdateAssumption, SlotSizeAssumption
           DEF SessionTypes, OpenSession, Session, At, PayloadStart, Addressed
      <3>3. PageSize - (upd.received % PageSize) \in Nat
        BY <1>1, BlUpdateAssumption DEF SessionTypes, OpenSession, Session
      <3>4. ASSUME NEW n \in Nat, RangeAllowed(At, n), Overwrite(At, n)
            PROVE  hdr'[s] = hdr[s] /\ area'[s] = area[s]
        BY <1>1, <3>2, <3>4, OverwriteOutside
      <3> QED
        BY <1>1, <3>3, <3>4 DEF TornSlot, SessionTypes
    <2> QED
      BY <1>5, <2>1 DEF CrashReset
  <1> QED
    BY <1>2, <1>3, <1>4, <1>5 DEF Next

(* No command, in whatever session, no fault and no power cut writes the   *)
(* slot the record in RAM calls active: what bl_update_handle may ask of   *)
(* the flash, after any sequence of accepted and rejected START, DATA and  *)
(* END, never passes bl_flash_range_allowed into it.                       *)
THEOREM ActiveSlotIsUntouched == Spec => ActiveSlotUntouched
  <1> DEFINE kept == \A s \in Slots :
                        s = table.active => hdr'[s] = hdr[s] /\ area'[s] = area[s]
  <1>1. TypeOK /\ [Next]_vars => [kept]_vars
    <2>1. \A s \in Slots : s = table.active => ~Writable(s)
      BY DEF Writable, Slots
    <2> QED
      BY <2>1, ProtectedStep
  <1>2. Spec => []TypeOK
    BY TypeCorrect
  <1>3. Spec => [][kept]_vars
    BY <1>1, <1>2, PTL DEF Spec
  <1> QED
    BY <1>3 DEF ActiveSlotUntouched

-----------------------------------------------------------------------------
(* Headers.                                                                *)

(* Only END writes a header.                                               *)
LEMMA HeaderIsEnd ==
    ASSUME TypeOK, [Next]_vars, NEW s \in Slots, hdr'[s] \in Header, hdr'[s] # hdr[s]
    PROVE  Command /\ EndCommit
  <1>1. SessionTypes
    BY TypeParts
  <1>2. hdr'[s] \notin {Erased, Junk}
    BY HeaderContentAssumption
  <1>3. ASSUME NEW at, NEW len PROVE ~Overwrite(at, len)
    BY <1>2 DEF Overwrite
  <1>4. Command /\ EndCommit
    <2>1. CASE LoadMetadata \/ ReconstructMetadata \/ Commit \/ CommitReturns \/ Decide
               \/ Jump \/ SessionTimeout \/ EndReturns \/ UNCHANGED vars
      BY <2>1 DEF LoadMetadata, ReconstructMetadata, Commit, CommitStep, CommitReturns, Decide,
                  Jump, SessionTimeout, Timeout, EndReturns, EndDone, EndFailed, flashUnchanged,
                  vars, sessionVars
    <2>2. CASE ReadyReset \/ HostReset \/ AppConfirm
      BY <2>2 DEF ReadyReset, HostReset, AppConfirm
    <2>3. CASE CrashReset
      BY <1>1, <1>2, <1>3, <2>3 DEF CrashReset, TornSlot, SessionTypes
    <2>4. CASE Command
      <3>1. PICK r \in Reply :
              \/ NoEffect(r)
              \/ Abort(r)
              \/ \E h \in Headers, seq \in 0 .. SeqMod - 1 : Start(h, seq, r)
              \/ \E seq \in 0 .. SeqMod - 1, len \in Lengths, b \in Contents : Data(seq, len, b, r)
              \/ End(r)
        BY <2>4 DEF Command
      <3>2. ~(NoEffect(r) \/ Abort(r))
        BY DEF NoEffect, Abort, flashUnchanged
      <3>3. ASSUME NEW h \in Headers, NEW seq \in 0 .. SeqMod - 1 PROVE ~Start(h, seq, r)
        BY <1>1, <1>2 DEF Start, StartRejected, StartFlashError, StartAccepted, flashUnchanged,
                          SessionTypes
      <3>4. ASSUME NEW seq \in 0 .. SeqMod - 1, NEW len \in Lengths, NEW b \in Contents
            PROVE  ~Data(seq, len, b, r)
        BY <1>3 DEF Data, DataRejected, DataRefused, DataStored, DataSpoilt, DataBeyond,
                    flashUnchanged
      <3> QED
        BY <1>1, <1>2, <2>4, <3>1, <3>2, <3>3, <3>4
           DEF End, EndRejected, EndUnverified, EndHeaderError, flashUnchanged, SessionTypes
    <2> QED
      BY <2>1, <2>2, <2>3, <2>4 DEF Next
  <1> QED
    BY <1>4

(* And over what it describes.                                             *)
LEMMA HeaderStep ==
    ASSUME TypeOK, [Next]_vars, NEW s \in Slots, hdr'[s] \in Header, hdr'[s] # hdr[s]
    PROVE  PayloadCrcMatches(area'[s], hdr'[s]) /\ VectorValid(area'[s], s)
  <1>1. SessionTypes
    BY TypeParts
  <1>2. hdr'[s] \notin {Erased, Junk}
    BY HeaderContentAssumption
  <1>3. EndCommit
    BY HeaderIsEnd
  <1>4. hdr'[s] = upd.header /\ Addressed(upd.header) = s
    BY <1>1, <1>2, <1>3 DEF EndCommit, HeaderAfterProgram, SessionTypes
  <1>5. Verified /\ area' = area
    BY <1>3 DEF EndCommit, HeaderProgrammable
  <1>6. upd.header.target = s
    BY <1>4, <1>5, LinkSlotAssumption DEF Verified, VectorValid, Addressed, Slots
  <1> QED
    BY <1>4, <1>5, <1>6 DEF Verified

(* A header page comes to hold a header only in END_UPDATE, once the       *)
(* payload it describes is in flash and links to its slot: no interrupted, *)
(* replayed or spoilt transfer is ever vouched for by a header.            *)
THEOREM HeaderIsProgrammedLast == Spec => HeaderProgrammedLast
  <1> DEFINE last == \A s \in Slots :
                        hdr'[s] \in Header /\ hdr'[s] # hdr[s] =>
                            PayloadCrcMatches(area'[s], hdr'[s]) /\ VectorValid(area'[s], s)
  <1>1. TypeOK /\ [Next]_vars => [last]_vars
    BY HeaderStep
  <1>2. Spec => []TypeOK
    BY TypeCorrect
  <1>3. Spec => [][last]_vars
    BY <1>1, <1>2, PTL DEF Spec
  <1> QED
    BY <1>3 DEF HeaderProgrammedLast

=============================================================================
