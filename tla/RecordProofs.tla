----------------------------- MODULE RecordProofs -----------------------------
(***************************************************************************)
(* The bootloader keeps its metadata record, for any images, flash, hosts, *)
(* resets and flash faults.  It drives the metadata store only as          *)
(* MetadataStore.tla allows, so what is proved of the store alone holds of *)
(* the device.                                                             *)
(*                                                                         *)
(* Most of this needs []SessionFits: where a refused START has changed     *)
(* what a session announced, DATA can run into the metadata.               *)
(***************************************************************************)
EXTENDS EngineProofs

-----------------------------------------------------------------------------
(* Sessions that fit.                                                      *)

(* What is left of a session that fits is a number of cells of its slot.   *)
LEMMA Room ==
    ASSUME SessionTypes, SessionFits, upd.state = "RECEIVING"
    PROVE  /\ upd.received \in Nat /\ upd.header.size \in 1 .. SlotSize
           /\ Remaining \in Nat
           /\ upd.received + Remaining <= upd.header.size
  <1> DEFINE d == upd.header.size - upd.received
  <1>1. upd.received \in Nat /\ upd.header.size \in 1 .. SlotSize
    BY DEF SessionTypes, OpenSession, Session, SessionFits
  <1>2. upd.received <= upd.header.size
    BY DEF SessionFits
  <1>3. d \in Nat
    BY <1>1, <1>2, SlotSizeAssumption
  <1> HIDE DEF d
  <1>4. d % LenMod \in Nat /\ d % LenMod <= d
    BY <1>3, BlUpdateAssumption
  <1>5. Remaining = d % LenMod
    BY DEF Remaining, d
  <1> QED
    BY <1>1, <1>4, <1>5, SlotSizeAssumption DEF d

(* The sizes in a session all come from the announced headers. *)
Announced == upd.state = "RECEIVING" => upd.header \in Headers

(* A command keeps a session fitting when every announced image has the    *)
(* same size.                                                              *)
LEMMA FitsStep ==
    ASSUME OneImageSize, TypeOK, Announced, SessionFits, [Next]_vars
    PROVE  Announced' /\ SessionFits'
  <1>1. PICK n \in 1 .. SlotSize : \A h \in Headers : h.size = n
    BY DEF OneImageSize
  <1>2. SessionTypes
    BY TypeParts
  <1>3. CASE upd' = upd
    BY <1>3 DEF Announced, SessionFits
  <1>4. CASE upd' = FreshSession
    BY <1>4 DEF Announced, SessionFits, FreshSession
  <1>5. ASSUME NEW h \in Headers, HeaderReceived(h)
        PROVE  Announced' /\ SessionFits'
    <2>1. CASE upd.state = "RECEIVING"
      <3>1. upd' = [upd EXCEPT !.header = h] /\ upd \in Session
        BY <1>2, <1>5, <2>1 DEF HeaderReceived, SessionTypes, OpenSession
      <3>2. upd'.header = h /\ upd'.received = upd.received
        BY <3>1 DEF Session
      <3>3. upd.header.size = n /\ h.size = n
        BY <1>1, <2>1 DEF Announced
      <3> QED
        BY <2>1, <3>2, <3>3 DEF Announced, SessionFits
    <2>2. CASE upd.state # "RECEIVING"
      BY <1>3, <1>5, <2>2 DEF HeaderReceived
    <2> QED
      BY <2>1, <2>2
  <1>6. ASSUME NEW h \in Headers, NEW seq, upd' = Opened(h, seq)
        PROVE  Announced' /\ SessionFits'
    BY <1>1, <1>6 DEF Opened, Announced, SessionFits
  <1>7. ASSUME NEW seq, NEW len \in Nat, NEW b, DataAcceptable(seq, len, b),
               upd' = DataReceived(seq, len, b)
        PROVE  Announced' /\ SessionFits'
    <2>1. upd \in Session /\ upd.state = "RECEIVING" /\ len <= Remaining
      BY <1>2, <1>7 DEF SessionTypes, OpenSession, DataAcceptable, InOrder
    <2>2. /\ upd'.state = "RECEIVING" /\ upd'.header = upd.header
          /\ upd'.received = upd.received + len
      BY <1>7, <2>1 DEF DataReceived, Session
    <2>3. upd.received + len <= upd.header.size
      BY <1>2, <2>1, Room
    <2> QED
      BY <2>1, <2>2, <2>3 DEF Announced, SessionFits
  <1>8. CASE Command
    <2>1. PICK r \in Reply :
            \/ NoEffect(r)
            \/ Abort(r)
            \/ \E h \in Headers, seq \in 0 .. SeqMod - 1 : Start(h, seq, r)
            \/ \E seq \in 0 .. SeqMod - 1, len \in Lengths, b \in Contents : Data(seq, len, b, r)
            \/ End(r)
      BY <1>8 DEF Command
    <2>2. CASE NoEffect(r) \/ Abort(r) \/ End(r)
      BY <1>3, <1>4, <2>2 DEF NoEffect, Abort, End, EndRejected, EndUnverified, EndHeaderError,
                              EndCommit
    <2>3. ASSUME NEW h \in Headers, NEW seq \in 0 .. SeqMod - 1, Start(h, seq, r)
          PROVE  Announced' /\ SessionFits'
      BY <1>5, <1>6, <2>3 DEF Start, StartRejected, StartFlashError, StartAccepted
    <2>4. ASSUME NEW seq \in 0 .. SeqMod - 1, NEW len \in Lengths, NEW b \in Contents,
                 Data(seq, len, b, r)
          PROVE  Announced' /\ SessionFits'
      <3>1. len \in Nat
        BY BootloaderAssumption, BlUpdateAssumption
      <3>2. upd' = upd \/ (DataAcceptable(seq, len, b) /\ upd' = DataReceived(seq, len, b))
        BY <2>4 DEF Data, DataRejected, DataRefused, DataStored, DataSpoilt, DataBeyond
      <3> QED
        BY <1>3, <1>7, <3>1, <3>2
    <2> QED
      BY <2>1, <2>2, <2>3, <2>4
  <1>9. CASE EndReturns
    <2>1. upd' = upd \/ upd' = [upd EXCEPT !.state = "READY_TO_BOOT"]
      BY <1>9 DEF EndReturns, EndDone, EndFailed
    <2>2. upd' = [upd EXCEPT !.state = "READY_TO_BOOT"] => upd'.state = "READY_TO_BOOT"
      BY <1>2 DEF SessionTypes, OpenSession, Session
    <2> QED
      BY <1>3, <2>1, <2>2 DEF Announced, SessionFits
  <1>10. CASE LoadMetadata \/ ReconstructMetadata \/ Commit \/ CommitReturns \/ Jump
              \/ UNCHANGED vars
    BY <1>3, <1>10 DEF LoadMetadata, ReconstructMetadata, Commit, CommitStep, CommitReturns, Jump,
                       vars, sessionVars
  <1>11. CASE Decide \/ SessionTimeout \/ ReadyReset \/ HostReset \/ AppConfirm \/ CrashReset
    BY <1>4, <1>11 DEF Decide, SessionTimeout, Timeout, ReadyReset, HostReset, AppConfirm,
                       CrashReset, Reset, Restart
  <1> QED
    BY <1>8, <1>9, <1>10, <1>11 DEF Next

(* When the images a host announces all have one size, no sequence of      *)
(* accepted, refused and repeated START and DATA makes a session receive   *)
(* more than it has announced.                                             *)
THEOREM SessionsFit ==
    ASSUME OneImageSize
    PROVE  Spec => []SessionFits
  <1>1. Init => Announced /\ SessionFits
    BY DEF Init, FreshSession, Announced, SessionFits
  <1>2. TypeOK /\ (Announced /\ SessionFits) /\ [Next]_vars => (Announced /\ SessionFits)'
    BY FitsStep
  <1> QED
    BY <1>1, <1>2, TypeCorrect, PTL DEF Spec

(* When they are all undamaged too, no refused START leaves a session with *)
(* a header that END_UPDATE should not program.                            *)
THEOREM SessionsSound ==
    ASSUME OneImageSize, \A h \in Headers : h.ok
    PROVE  Spec => []SessionSound
  <1>1. Init => Announced /\ SessionFits
    BY DEF Init, FreshSession, Announced, SessionFits
  <1>2. TypeOK /\ (Announced /\ SessionFits) /\ [Next]_vars => (Announced /\ SessionFits)'
    BY FitsStep
  <1>3. Announced /\ SessionFits => SessionSound
    BY DEF Announced, SessionSound
  <1> QED
    BY <1>1, <1>2, <1>3, TypeCorrect, PTL DEF Spec

-----------------------------------------------------------------------------
(* Such a session stays in the payload area of its slot.                   *)

(* Overwritten cells of a payload area are no header's, no record's and no *)
(* other slot's.                                                           *)
LEMMA OverwriteInside ==
    ASSUME SessionTypes, StoreTypes, NEW s \in Slots, NEW at \in Int, NEW len \in Nat,
           Within(at, len, PayloadStart(s), PayloadStart(s) + SlotSize),
           Overwrite(at, len)
    PROVE  /\ hdr' = hdr /\ copies' = copies
           /\ \A t \in Slots : area'[t] # area[t] => t = s
  <1>1. /\ hdr \in [Slots -> Header \cup {Erased, Junk}]
        /\ copies \in [0 .. 1 -> Store!Record \cup {Bad}]
    BY DEF SessionTypes, StoreTypes, Store!StoreTypeOK
  <1>2. \A t \in Slots : ~(at < HeaderStart(t) + PageSize /\ HeaderStart(t) < at + len)
    BY AddressMap DEF Within, Slots
  <1>3. hdr' = hdr
    BY <1>1, <1>2 DEF Overwrite
  <1>4. \A c \in 0 .. 1 : ~(at < CopyStart(c) + PageSize /\ CopyStart(c) < at + len)
    <2>1. at + len <= CopyStart(0) /\ at + len <= CopyStart(1)
      BY AddressMap DEF Within, Slots
    <2> QED
      BY <2>1, AddressMap
  <1>5. copies' = copies
    BY <1>1, <1>4 DEF Overwrite
  <1>6. ASSUME NEW t \in Slots, t # s
        PROVE  area'[t] = area[t]
    <2>1. area[t] \in Cells /\ area'[t] = Write(area[t], at - PayloadStart(t), len, Junk)
      BY DEF SessionTypes, Overwrite
    <2>2. \A i \in 0 .. SlotSize - 1 :
            ~(at - PayloadStart(t) <= i /\ i < at - PayloadStart(t) + len)
      BY <1>6, AddressMap DEF Within, Slots
    <2> QED
      BY <2>1, <2>2 DEF Cells, Write
  <1> QED
    BY <1>3, <1>5, <1>6

(* A number below a multiple of a page has its page below it too.          *)
LEMMA PageBelow ==
    ASSUME NEW i \in Nat, i < SlotSize
    PROVE  i + (PageSize - (i % PageSize)) <= SlotSize
  <1> DEFINE n == SlotSize \div PageSize
             q == i \div PageSize
  <1>1. n \in Int /\ SlotSize = n * PageSize
    BY BlUpdateAssumption, SlotSizeAssumption
  <1>2. q \in Int /\ i = q * PageSize + (i % PageSize) /\ i % PageSize \in 0 .. PageSize - 1
    BY BlUpdateAssumption
  <1>3. PageSize \in Nat \ {0} /\ SlotSize \in Nat
    BY BlUpdateAssumption, SlotSizeAssumption
  <1> HIDE DEF n, q
  <1>4. q + 1 <= n
    <2>1. CASE n <= q
      <3>1. n * PageSize <= q * PageSize
        BY <1>1, <1>2, <1>3, <2>1
      <3> QED
        BY <1>1, <1>2, <1>3, <3>1
    <2> QED
      BY <1>1, <1>2, <2>1
  <1>5. (q + 1) * PageSize <= n * PageSize
    BY <1>1, <1>2, <1>3, <1>4
  <1> QED
    BY <1>1, <1>2, <1>3, <1>5

(* What DATA of a session that fits may touch: the cells it is for, and    *)
(* the rest of their page.                                                 *)
LEMMA SessionInside ==
    ASSUME SessionTypes, SessionFits, upd.state = "RECEIVING", Remaining # 0
    PROVE  LET s == Addressed(upd.header)
               n == PageSize - (upd.received % PageSize)
           IN  /\ s \in Slots /\ At \in Int
               /\ At = PayloadStart(s) + upd.received
               /\ n \in 1 .. PageSize /\ InArea(s, n)
               /\ \A len \in Nat : len <= Remaining => InArea(s, len)
  <1> DEFINE s == Addressed(upd.header)
             n == PageSize - (upd.received % PageSize)
  <1>1. /\ upd.received \in Nat /\ upd.header.size \in 1 .. SlotSize
        /\ Remaining \in Nat /\ upd.received + Remaining <= upd.header.size
    BY Room
  <1>2. upd.received + Remaining <= SlotSize /\ upd.received < SlotSize
    BY <1>1, SlotSizeAssumption
  <1>3. n \in 1 .. PageSize /\ upd.received + n <= SlotSize
    BY <1>1, <1>2, PageBelow, BlUpdateAssumption
  <1>4. s \in Slots /\ At = PayloadStart(s) + upd.received
    BY DEF At, Addressed, Slots
  <1>5. PayloadStart(s) \in Int
    BY SlotSizeAssumption, BlUpdateAssumption DEF PayloadStart
  <1> HIDE DEF s, n
  <1>6. InArea(s, n)
    BY <1>1, <1>3, <1>4, <1>5, SlotSizeAssumption, BlUpdateAssumption DEF InArea, Within
  <1>7. \A len \in Nat : len <= Remaining => InArea(s, len)
    BY <1>1, <1>2, <1>4, <1>5, SlotSizeAssumption DEF InArea, Within
  <1>8. At \in Int
    BY <1>1, <1>4, <1>5
  <1> QED
    BY <1>3, <1>4, <1>6, <1>7, <1>8 DEF s, n

(* A page of it, and the word it starts in.                                *)
LEMMA RoundedInside ==
    ASSUME SessionTypes, SessionFits, upd.state = "RECEIVING", NEW len \in Nat \ {0},
           len <= Remaining
    PROVE  LET s == Addressed(upd.header)
               at == WordSize * (At \div WordSize)
           IN  at \in Int /\ Within(at, len, PayloadStart(s), PayloadStart(s) + SlotSize)
  <1> DEFINE s == Addressed(upd.header)
             at == WordSize * (At \div WordSize)
  <1>1. Remaining \in Nat /\ Remaining # 0
    BY Room
  <1>2. s \in Slots /\ At \in Int /\ InArea(s, len) /\ At = PayloadStart(s) + upd.received
    BY <1>1, SessionInside
  <1>3. PICK k \in Int : k * WordSize = SlotSize
    BY WordAligned
  <1>4. PICK m \in Int : m * WordSize = PageSize
    BY WordAligned
  <1>5. WordSize \in Nat \ {0}
    BY BlUpdateAssumption
  <1>6. \E j \in Int : j * WordSize = PayloadStart(s)
    <2>1. CASE s = "A"
      <3>1. 0 * WordSize = PayloadStart(s)
        BY <1>5, <2>1, AddressMap
      <3> QED
        BY <3>1
    <2>2. CASE s = "B"
      <3>1. (k + m) * WordSize = PayloadStart(s) /\ k + m \in Int
        BY <1>3, <1>4, <1>5, <2>2, AddressMap
      <3> QED
        BY <3>1
    <2> QED
      BY <1>2, <2>1, <2>2 DEF Slots
  <1>7. PayloadStart(s) <= At /\ At + len <= PayloadStart(s) + SlotSize
    BY <1>2 DEF InArea, Within
  <1> HIDE DEF s
  <1>8. at \in Int /\ PayloadStart(s) <= at /\ at <= At
    BY <1>2, <1>5, <1>6, <1>7, RoundedDown
  <1> HIDE DEF at
  <1>9. PayloadStart(s) \in Int
    BY SlotSizeAssumption, BlUpdateAssumption DEF PayloadStart
  <1>10. at + len <= PayloadStart(s) + SlotSize
    BY <1>2, <1>7, <1>8, <1>9, SlotSizeAssumption
  <1> QED
    BY <1>8, <1>10 DEF Within, s, at

(* DATA of a session that fits writes no header, no metadata and no other  *)
(* slot's payload.                                                         *)
LEMMA DataConfined ==
    ASSUME SessionTypes, StoreTypes, SessionFits,
           NEW seq, NEW len \in Nat, NEW b, NEW r, Data(seq, len, b, r)
    PROVE  /\ storeUnchanged /\ hdr' = hdr
           /\ \A s \in Slots : area'[s] # area[s] => s = Addressed(upd.header)
  <1> DEFINE a == Addressed(upd.header)
             confined == /\ hdr' = hdr /\ copies' = copies
                         /\ \A s \in Slots : area'[s] # area[s] => s = a
  <1>1. CASE DataRejected(seq, len, b, r)
    BY <1>1 DEF DataRejected, flashUnchanged
  <1>2. CASE DataAcceptable(seq, len, b)
    <2>1. upd.state = "RECEIVING" /\ len \in Nat \ {0} /\ len <= Remaining
      BY <1>2 DEF DataAcceptable, InOrder
    <2>2. Remaining \in Nat /\ Remaining # 0
      BY <2>1, Room
    <2>3. a \in Slots /\ At \in Int /\ InArea(a, len)
      BY <2>1, <2>2, SessionInside
    <2> HIDE DEF a
    <2>4. \A s \in Slots : InArea(s, len) => s = a
      BY <2>1, <2>3, AddressMap DEF InArea, Within, Slots
    <2>5. CASE DataRefused(seq, len, b, r)
      <3>1. CASE UNCHANGED <<hdr, area, copies>>
        BY <2>5, <3>1 DEF DataRefused, storeUnchanged
      <3>2. CASE Overwrite(WordSize * (At \div WordSize), len)
        <4> DEFINE at == WordSize * (At \div WordSize)
        <4>1. at \in Int /\ Within(at, len, PayloadStart(a), PayloadStart(a) + SlotSize)
          BY <2>1, RoundedInside DEF a
        <4>2. Overwrite(at, len)
          BY <3>2
        <4> HIDE DEF at
        <4>3. confined
          BY <2>3, <4>1, <4>2, OverwriteInside
        <4> QED
          BY <2>5, <4>3 DEF DataRefused, storeUnchanged, a
      <3> QED
        BY <2>5, <3>1, <3>2 DEF DataRefused
    <2>6. ASSUME NEW s \in Slots, InArea(s, len), NEW cells, area' = [area EXCEPT ![s] = cells]
          PROVE  \A t \in Slots : area'[t] # area[t] => t = a
      <3>1. s = a
        BY <2>4, <2>6
      <3> QED
        BY <2>6, <3>1 DEF SessionTypes
    <2>7. CASE DataStored(seq, len, b, r)
      BY <2>6, <2>7 DEF DataStored, a
    <2>8. CASE DataSpoilt(seq, len, b, r)
      <3>1. storeUnchanged /\ hdr' = hdr
        BY <2>8 DEF DataSpoilt
      <3>2. PICK s \in Slots :
              /\ InArea(s, len)
              /\ \/ area' = area
                 \/ area' = [area EXCEPT ![s] = Write(Prepared(s), Offset(s), len, Junk)]
                 \/ area' = [area EXCEPT ![s] = Write(@, Offset(s), PageSize, Junk)]
        BY <2>8 DEF DataSpoilt
      <3>3. area' = area \/ \E cells : area' = [area EXCEPT ![s] = cells]
        BY <3>2
      <3> QED
        BY <2>6, <3>1, <3>2, <3>3 DEF a
    <2>9. ~DataBeyond(seq, len, b, r)
      BY <2>3 DEF DataBeyond
    <2> QED
      BY <1>1, <2>5, <2>7, <2>8, <2>9 DEF Data
  <1> QED
    BY <1>1, <1>2 DEF Data, DataRefused, DataStored, DataSpoilt, DataBeyond

(* So no command writes a metadata page, but for the commit of END.        *)
LEMMA CommandStore ==
    ASSUME SessionTypes, StoreTypes, SessionFits, Command
    PROVE  storeUnchanged \/ EndCommit
  <1>1. PICK r \in Reply :
          \/ NoEffect(r)
          \/ Abort(r)
          \/ \E h \in Headers, seq \in 0 .. SeqMod - 1 : Start(h, seq, r)
          \/ \E seq \in 0 .. SeqMod - 1, len \in Lengths, b \in Contents : Data(seq, len, b, r)
          \/ End(r)
    BY DEF Command
  <1>2. \A len \in Lengths : len \in Nat
    BY BootloaderAssumption, BlUpdateAssumption
  <1>3. ASSUME NEW seq \in 0 .. SeqMod - 1, NEW len \in Lengths, NEW b \in Contents,
               Data(seq, len, b, r)
        PROVE  storeUnchanged
    BY <1>2, <1>3, DataConfined
  <1> QED
    BY <1>1, <1>3 DEF NoEffect, Abort, Start, StartRejected, StartFlashError, StartAccepted,
                      End, EndRejected, EndUnverified, EndHeaderError

(* Nor does a power cut in the middle of one.                              *)
LEMMA TornConfined ==
    ASSUME SessionTypes, StoreTypes, SessionFits, TornSlot
    PROVE  copies' = copies
  <1>1. CASE UNCHANGED <<area, copies>>
    BY <1>1
  <1>2. CASE /\ upd.state = "RECEIVING" /\ Remaining # 0
             /\ Overwrite(At, PageSize - (upd.received % PageSize))
    <2> DEFINE a == Addressed(upd.header)
               n == PageSize - (upd.received % PageSize)
    <2>1. a \in Slots /\ At \in Int /\ n \in 1 .. PageSize /\ InArea(a, n)
      BY <1>2, SessionInside
    <2>2. Overwrite(At, n)
      BY <1>2
    <2> HIDE DEF a, n
    <2>3. Within(At, n, PayloadStart(a), PayloadStart(a) + SlotSize) /\ n \in Nat
      BY <2>1, BlUpdateAssumption DEF InArea
    <2> QED
      BY <2>1, <2>2, <2>3, OverwriteInside
  <1> QED
    BY <1>1, <1>2 DEF TornSlot

-----------------------------------------------------------------------------
(* The store is driven as its model allows.                                *)

storeVars == <<copies, meta, metaCopy, dest, stage>>

(* One step of the bootloader is one of the store, or none of it.          *)
LEMMA StoreStep ==
    ASSUME TypeOK, SessionFits, [Next]_vars
    PROVE  [StoreCall]_storeVars
  <1> USE DEF StoreCall, storeVars
  <1>1. SessionTypes /\ StoreTypes
    BY TypeParts
  <1>2. storeUnchanged => UNCHANGED storeVars
    BY DEF storeUnchanged
  <1>3. ASSUME NEW body, Store!Begin(body)
        PROVE  Store!Begin(meta'.body)
    <2>1. meta' = [meta EXCEPT !.body = body] /\ meta \in Store!Record
      BY <1>1, <1>3 DEF Store!Begin, StoreTypes, Store!StoreTypeOK
    <2>2. meta'.body = body
      BY <2>1 DEF Store!Record
    <2> QED
      BY <1>3, <2>2
  <1>4. CASE LoadMetadata \/ Commit \/ CommitReturns
    BY <1>4 DEF LoadMetadata, Commit, CommitStep, CommitReturns
  <1>5. CASE ReconstructMetadata
    <2>1. meta'.body = Reconstructed
      BY <1>5 DEF ReconstructMetadata, Store!Reconstruct
    <2> QED
      BY <1>5, <2>1 DEF ReconstructMetadata
  <1>6. CASE Decide
    BY <1>2, <1>3, <1>6 DEF Decide
  <1>7. CASE Command
    <2>1. EndCommit => Store!Begin(meta'.body)
      BY <1>3 DEF EndCommit
    <2> QED
      BY <1>1, <1>2, <1>7, <2>1, CommandStore
  <1>8. CASE SessionTimeout \/ Jump \/ UNCHANGED vars
    BY <1>2, <1>8 DEF SessionTimeout, Timeout, Jump, vars, sessionVars
  <1>9. CASE EndReturns
    BY <1>9 DEF EndReturns, EndDone, EndFailed
  <1>10. CASE ReadyReset \/ HostReset \/ AppConfirm
    BY <1>10 DEF ReadyReset, HostReset, AppConfirm, Reset
  <1>11. CASE CrashReset
    <2>1. TornSlot => copies' = copies
      BY <1>1, TornConfined
    <2> QED
      BY <1>11, <2>1 DEF CrashReset, Reset, Store!Crash
  <1> QED
    BY <1>4, <1>5, <1>6, <1>7, <1>8, <1>9, <1>10, <1>11 DEF Next

(* As long as sessions fit, nothing but the calls of load and commit       *)
(* writes a metadata page or the record in RAM: no DATA, accepted, refused *)
(* or torn, and no START.                                                  *)
THEOREM DrivesTheStore == Spec /\ []SessionFits => DrivesStore
  <1>1. TypeOK /\ SessionFits /\ [Next]_vars => [StoreCall]_storeVars
    BY StoreStep
  <1> QED
    BY <1>1, TypeCorrect, PTL DEF Spec, DrivesStore, storeVars

-----------------------------------------------------------------------------
(* What is proved of the store holds of it in the device.                  *)

StoreProofs == INSTANCE MetadataStoreProofs WITH Body <- SlotTable

StoreKept == Store!StoreTypeOK /\ Store!LoadedCopyKept

(* The store of the proofs is the store of the bootloader. *)
LEMMA SameAssumptions == StoreProofs!GenModAssumption /\ StoreProofs!BadAssumption
  BY StoreAssumption DEF StoreProofs!GenModAssumption, StoreProofs!BadAssumption, StoreProofs!Record

(* So are its operators and invariants.                                    *)
LEMMA SameStore ==
    /\ StoreKept <=> StoreProofs!StoreInv
    /\ StoreKept' <=> StoreProofs!StoreInv'
    /\ HasDurable <=> StoreProofs!HasValid(copies)
    /\ HasDurable' <=> StoreProofs!HasValid(copies')
    /\ HasDurable => StoreProofs!Value = Durable.body
    /\ HasDurable' => StoreProofs!Value' = Durable'.body
  BY DEF StoreKept, StoreProofs!StoreInv, StoreProofs!StoreTypeOK, Store!StoreTypeOK,
         StoreProofs!Record, Store!Record, StoreProofs!LoadedCopyKept, Store!LoadedCopyKept,
         StoreProofs!Valid, Store!Valid, StoreProofs!HasValid, Store!HasValid,
         StoreProofs!Selected, Store!Selected, StoreProofs!Newer, Store!Newer,
         StoreProofs!NextGen, Store!NextGen, StoreProofs!Value, HasDurable, Durable

(* And its steps.                                                          *)
LEMMA SameSteps ==
    ASSUME TypeOK, TypeOK', [StoreCall]_storeVars
    PROVE  [StoreProofs!StoreNext]_(StoreProofs!storeVars)
  <1>1. meta'.body \in SlotTable
    BY DEF TypeOK, Store!StoreTypeOK, Store!Record
  <1> QED
    BY <1>1
       DEF StoreCall, storeVars, StoreProofs!storeVars, StoreProofs!StoreNext,
           StoreProofs!Load, Store!Load, StoreProofs!Reconstruct, Store!Reconstruct,
           StoreProofs!Begin, Store!Begin, StoreProofs!Committed, Store!Committed,
           StoreProofs!Erase, Store!Erase, StoreProofs!EraseError, Store!EraseError,
           StoreProofs!Program, Store!Program, StoreProofs!ProgramError, Store!ProgramError,
           StoreProofs!Return, Store!Return, StoreProofs!Crash, Store!Crash,
           StoreProofs!NextRecord, Store!NextRecord, StoreProofs!NextGen, Store!NextGen,
           StoreProofs!Newer, Store!Newer, StoreProofs!Valid, Store!Valid,
           StoreProofs!HasValid, Store!HasValid, StoreProofs!Selected, Store!Selected

(* The invariant of the store, in the device. *)
LEMMA StoreKeptStep ==
    ASSUME TypeOK, TypeOK', StoreKept, [StoreCall]_storeVars
    PROVE  StoreKept' /\ (HasDurable => HasDurable')
  <1>1. [StoreProofs!StoreNext]_(StoreProofs!storeVars)
    BY SameSteps
  <1>2. StoreProofs!StoreInv
    BY SameStore
  <1>3. StoreProofs!LoadedCopyKept'
    BY <1>1, <1>2, SameAssumptions, StoreProofs!LoadedCopyStep
  <1>4. StoreProofs!StoreTypeOK'
    BY <1>1, <1>2, SameAssumptions, StoreProofs!StoreTypeStep DEF StoreProofs!StoreInv
  <1>5. StoreProofs!HasValid(copies) => StoreProofs!HasValid(copies')
    BY <1>1, <1>2, SameAssumptions, StoreProofs!RecordSurvivesStep
  <1> QED
    BY <1>3, <1>4, <1>5, SameStore DEF StoreProofs!StoreInv

(* A programmed board has a store as the store's model starts.             *)
LEMMA StoreKeptInit == Init => StoreKept
  <1> SUFFICES ASSUME Init PROVE StoreKept
    OBVIOUS
  <1>1. Store!StoreTypeOK
    BY InitType DEF TypeOK
  <1>2. Store!LoadedCopyKept
    BY DEF Init, Store!LoadedCopyKept, Store!Valid
  <1> QED
    BY <1>1, <1>2 DEF StoreKept

(* While sessions fit, types and the copy a commit starts from are kept.   *)
THEOREM RecordKept == Spec /\ []SessionFits => []StoreKept
  <1>1. TypeOK /\ TypeOK' /\ StoreKept /\ [StoreCall]_storeVars => StoreKept'
    BY StoreKeptStep
  <1>2. TypeOK /\ SessionFits /\ [Next]_vars => [StoreCall]_storeVars
    BY StoreStep
  <1> QED
    BY <1>1, <1>2, StoreKeptInit, TypeCorrect, PTL DEF Spec

(* As long as sessions fit, a device that could start from a record can    *)
(* always start from one, whatever fails and whenever power is cut.        *)
THEOREM RecordAlwaysSurvives == Spec /\ []SessionFits => RecordSurvives
  <1>1. TypeOK /\ TypeOK' /\ SessionFits /\ StoreKept /\ [Next]_vars => [HasDurable => HasDurable']_vars
    BY StoreStep, StoreKeptStep
  <1> QED
    BY <1>1, RecordKept, TypeCorrect, PTL DEF Spec, RecordSurvives

(* What a restart of the device would load is one durable value, which     *)
(* only completed commits change, as DurableRecord.tla has it.             *)
THEOREM DeviceHasDurableRecord == Spec /\ []SessionFits => StoreProofs!DurableSpec
  <1>1. Init => StoreProofs!StoreInit
    <2> SUFFICES ASSUME Init PROVE StoreProofs!StoreInit
      OBVIOUS
    <2>1. meta \in Store!Record
      BY InitType DEF TypeOK, Store!StoreTypeOK
    <2> QED
      BY <2>1 DEF Init, StoreProofs!StoreInit, StoreProofs!Record, Store!Record
  <1>2. TypeOK /\ TypeOK' /\ SessionFits /\ [Next]_vars
           => [StoreProofs!StoreNext]_(StoreProofs!storeVars)
    BY StoreStep, SameSteps
  <1>3. Spec /\ []SessionFits => StoreProofs!StoreSpec
    BY <1>1, <1>2, TypeCorrect, PTL DEF Spec, StoreProofs!StoreSpec
  <1>4. StoreProofs!StoreSpec => StoreProofs!DurableSpec
    BY SameAssumptions, StoreProofs!StoreImplementsDurableRecord
  <1> QED
    BY <1>3, <1>4, PTL

-----------------------------------------------------------------------------
(* What a restart would load.                                              *)

(* It changes only when a commit erases the page it is on or completes.    *)
LEMMA DurableMoves ==
    ASSUME StoreKept, TypeOK, TypeOK', [StoreCall]_storeVars, HasDurable'
    PROVE  \/ copies' = copies
           \/ HasDurable /\ Durable'.body = Durable.body
           \/ /\ stage \in {"erase", "program"} /\ Store!Valid(copies, metaCopy)
              /\ Durable'.body = copies[metaCopy].body
           \/ Store!Program /\ Durable'.body = table
  <1> USE DEF StoreKept, Store!StoreTypeOK, Store!LoadedCopyKept, Store!Valid, Store!HasValid,
              HasDurable, Durable
  <1>1. CASE Store!Program
    <2>1. StoreProofs!Program /\ StoreProofs!StoreInv
      BY <1>1, SameStore
         DEF Store!Program, StoreProofs!Program, StoreProofs!NextRecord, Store!NextRecord,
             StoreProofs!NextGen, Store!NextGen
    <2>2. StoreProofs!Value' = meta.body
      BY <2>1, SameAssumptions, StoreProofs!ProgramSelects
    <2> QED
      BY <1>1, <2>2, SameStore DEF table
  <1>2. CASE stage \in {"erase", "program"} /\ copies' = [copies EXCEPT ![dest] = Bad]
    <2>1. CASE Store!Valid(copies, metaCopy) /\ dest = 1 - metaCopy
      BY <1>2, <2>1 DEF Store!Selected
    <2>2. CASE ~Store!HasValid(copies)
      BY <1>2, <2>2
    <2> QED
      BY <1>2, <2>1, <2>2
  <1>3. copies' = copies \/ Store!Program
           \/ (stage \in {"erase", "program"} /\ copies' = [copies EXCEPT ![dest] = Bad])
    BY DEF StoreCall, storeVars, Store!Load, Store!Reconstruct, Store!Begin, Store!Erase,
           Store!EraseError, Store!ProgramError, Store!Return, Store!Crash
  <1> QED
    BY <1>1, <1>2, <1>3

-----------------------------------------------------------------------------
(* The record in RAM is in flash.                                          *)

InSync ==
    faults = 0 =>
        /\ stage # "failed"
        /\ stage \in {"ready", "ok"} => HasDurable /\ Durable.body = table

(* Faults are counted, and a commit fails only by one.                     *)
LEMMA FaultStep ==
    ASSUME TypeOK, [Next]_vars
    PROVE  /\ faults' \in {faults, faults + 1}
           /\ stage' = "failed" /\ stage # "failed" => faults' = faults + 1
           /\ faults' = 0 => faults = 0
  <1>1. faults \in Nat
    BY BlUpdateAssumption DEF TypeOK, SessionTypeOK
  <1>2. CASE LoadMetadata \/ ReconstructMetadata \/ CommitReturns \/ Decide \/ Jump
             \/ SessionTimeout \/ EndReturns \/ UNCHANGED vars
    BY <1>1, <1>2
       DEF LoadMetadata, ReconstructMetadata, CommitReturns, Decide, Jump, SessionTimeout,
           Timeout, EndReturns, EndDone, EndFailed, vars, sessionVars, storeUnchanged,
           flashUnchanged, Store!Load, Store!Reconstruct, Store!Return, Store!Begin
  <1>3. CASE Commit
    BY <1>1, <1>3 DEF Commit, CommitStep, Fault, Store!Erase, Store!Program
  <1>4. CASE Command
    <2>1. stage' = stage \/ stage' = "erase"
      BY <1>4 DEF Command, NoEffect, Abort, Start, StartRejected, StartFlashError, StartAccepted,
                  Data, DataRejected, DataRefused, DataStored, DataSpoilt, DataBeyond, End,
                  EndRejected, EndUnverified, EndHeaderError, EndCommit, Store!Begin, storeUnchanged
    <2>2. faults' \in {faults, faults + 1}
      BY <1>4 DEF Command, NoEffect, Abort, Start, StartRejected, StartFlashError, StartAccepted,
                  Data, DataRejected, DataRefused, DataStored, DataSpoilt, DataBeyond, End,
                  EndRejected, EndUnverified, EndHeaderError, EndCommit, flashUnchanged, Fault
    <2> QED
      BY <1>1, <2>1, <2>2
  <1>5. CASE ReadyReset \/ HostReset \/ AppConfirm \/ CrashReset
    BY <1>1, <1>5 DEF ReadyReset, HostReset, AppConfirm, CrashReset, Reset, Restart, Store!Crash
  <1> QED
    BY <1>2, <1>3, <1>4, <1>5 DEF Next

(* One step keeps RAM and flash in step.                                   *)
LEMMA InSyncStep ==
    ASSUME InSync, StoreKept, TypeOK, TypeOK', [Next]_vars, [StoreCall]_storeVars
    PROVE  InSync'
  <1> SUFFICES ASSUME faults' = 0
               PROVE  /\ stage' # "failed"
                      /\ stage' \in {"ready", "ok"} => HasDurable' /\ Durable'.body = table'
    BY DEF InSync
  <1>1. faults = 0 /\ stage' # "failed" /\ stage # "failed"
    BY FaultStep DEF InSync, TypeOK, SessionTypeOK
  <1>2. CASE Store!Load
    BY <1>2 DEF Store!Load, HasDurable, Durable, table
  <1>3. CASE Store!Program
    <2>1. StoreProofs!Program /\ StoreProofs!StoreInv
      BY <1>3, SameStore
         DEF Store!Program, StoreProofs!Program, StoreProofs!NextRecord, Store!NextRecord,
             StoreProofs!NextGen, Store!NextGen
    <2>2. StoreProofs!HasValid(copies') /\ StoreProofs!Value' = meta.body
      BY <2>1, SameAssumptions, StoreProofs!ProgramSelects
    <2>3. meta'.body = meta.body
      BY <1>3 DEF Store!Program, Store!NextRecord, StoreKept, Store!StoreTypeOK, Store!Record
    <2>4. HasDurable' /\ Durable'.body = table'
      BY <2>2, <2>3, SameStore DEF table
    <2> QED
      BY <1>1, <2>4
  <1>4. CASE Store!Return \/ UNCHANGED storeVars
    BY <1>1, <1>4 DEF Store!Return, storeVars, InSync, HasDurable, Durable, table
  <1> QED
    BY <1>1, <1>2, <1>3, <1>4
       DEF StoreCall, Store!Reconstruct, Store!Begin, Store!Erase, Store!EraseError,
           Store!ProgramError, Store!Crash

(* Until a flash operation fails, the loop never acts on a record that a   *)
(* restart would not load: every change of it is durable before the next   *)
(* command is answered.                                                    *)
THEOREM RecordIsInSync == Spec /\ []SessionFits => []RecordInSync
  <1>1. Init => InSync
    BY DEF Init, InSync
  <1>2. StoreKept /\ TypeOK /\ TypeOK' /\ SessionFits /\ InSync /\ [Next]_vars => InSync'
    BY StoreStep, InSyncStep
  <1>3. InSync => RecordInSync
    BY DEF InSync, RecordInSync
  <1> QED
    BY <1>1, <1>2, <1>3, RecordKept, TypeCorrect, PTL DEF Spec

-----------------------------------------------------------------------------
(* Where the processor is when the store is in use.                        *)

Phase ==
    /\ upd.state # "IDLE" => pc = "loop"
    /\ pc = "reset" <=> stage = "off"
    /\ pc = "decide" => stage = "ready"
    /\ pc \in {"reconstruct", "commit"} => stage # "ready"
    /\ pc \in {"app", "wild"} => stage = "ready" /\ run \in Slots /\ running = run

(* Each step goes on where the last has stopped.                           *)
LEMMA PhaseStep ==
    ASSUME Phase, [Next]_vars
    PROVE  Phase'
  <1>1. CASE LoadMetadata \/ ReconstructMetadata \/ CommitReturns
    BY <1>1 DEF LoadMetadata, ReconstructMetadata, CommitReturns, Phase, Store!Load,
                Store!Reconstruct, Store!Return
  <1>2. CASE Commit
    BY <1>2 DEF Commit, CommitStep, bootVars, Phase, Store!Erase, Store!EraseError, Store!Program,
                Store!ProgramError
  <1>3. CASE Decide
    BY <1>3 DEF Decide, Phase, storeUnchanged, Store!Begin, FreshSession
  <1>4. CASE Command
    <2>1. UNCHANGED bootVars /\ pc = "loop" /\ (stage' = stage \/ stage' = "erase")
      BY <1>4 DEF Command, NoEffect, Abort, Start, StartRejected, StartFlashError, StartAccepted,
                  Data, DataRejected, DataRefused, DataStored, DataSpoilt, DataBeyond, End,
                  EndRejected, EndUnverified, EndHeaderError, EndCommit, Store!Begin, storeUnchanged
    <2> QED
      BY <2>1 DEF bootVars, Phase
  <1>5. CASE SessionTimeout \/ EndReturns
    BY <1>5 DEF SessionTimeout, Timeout, EndReturns, EndDone, EndFailed, bootVars, Phase,
                storeUnchanged, Store!Return, Listening
  <1>6. CASE Jump
    BY <1>6 DEF Jump, sessionVars, Phase
  <1>7. CASE ReadyReset \/ HostReset \/ AppConfirm \/ CrashReset
    BY <1>7 DEF ReadyReset, HostReset, AppConfirm, CrashReset, Reset, Restart, Store!Crash,
                Phase, FreshSession
  <1>8. CASE UNCHANGED vars
    BY <1>8 DEF vars, sessionVars, bootVars, Phase
  <1> QED
    BY <1>1, <1>2, <1>3, <1>4, <1>5, <1>6, <1>7, <1>8 DEF Next

(* A programmed board is at its reset.                                     *)
LEMMA PhaseInit == Init => Phase
  BY DEF Init, Phase, FreshSession

-----------------------------------------------------------------------------
(* A commit is always free to begin.                                       *)

HasLoaded == Store!Valid(copies, metaCopy)

Loaded == copies[metaCopy]

(* END has answered, or is about to. *)
Installing == pc = "loop" /\ (stage # "ready" \/ upd.state = "READY_TO_BOOT")

(* Which pages the commits of start-up and of END work on.  A successor    *)
(* without the page it came from is there only while END answers.          *)
CommitPages ==
    /\ pc = "decide" /\ table.pending \in Slots => HasLoaded
    /\ pc = "commit" => HasLoaded /\ dest = 1 - metaCopy
    /\ pc = "loop" /\ stage # "ready" => dest = 1 - metaCopy
    /\ pc = "reconstruct" =>
           /\ metaCopy = 0 /\ dest = 0
           /\ ~Store!Valid(copies, 1) /\ table.pending = NONE
    /\ stage # "off" /\ Store!Committed /\ ~HasLoaded => Installing /\ stage \in {"ok", "ready"}

(* The condition under which the store's model lets a commit begin.        *)
BeginsFreely == Store!Committed => HasLoaded

(* A step that leaves the store alone leaves what the commits rest on.     *)
LEMMA PagesUnchanged ==
    ASSUME StoreTypes, storeUnchanged
    PROVE  /\ HasLoaded' <=> HasLoaded
           /\ Store!Committed' <=> Store!Committed
           /\ Store!Valid(copies, 1)' <=> Store!Valid(copies, 1)
           /\ table' = table
  BY DEF storeUnchanged, HasLoaded, Store!Committed, Store!Valid, table

(* One step keeps the pages of the commits.                                *)
LEMMA PagesStep ==
    ASSUME TypeOK, StoreKept, Phase, CommitIsOfSession, CommitPages, SessionFits, [Next]_vars
    PROVE  CommitPages'
  <1>1. SessionTypes /\ StoreTypes
    BY TypeParts
  <1>2. storeUnchanged =>
           /\ HasLoaded' <=> HasLoaded
           /\ Store!Committed' <=> Store!Committed
           /\ Store!Valid(copies, 1)' <=> Store!Valid(copies, 1)
           /\ table' = table
    BY <1>1, PagesUnchanged
  <1>3. CASE LoadMetadata
    <2>1. HasLoaded'
      BY <1>3 DEF LoadMetadata, Store!Load, HasLoaded, Store!HasValid, Store!Valid, Store!Selected
    <2> QED
      BY <1>3, <2>1 DEF LoadMetadata, CommitPages
  <1>4. CASE ReconstructMetadata
    <2>1. ~Store!Valid(copies, 1)' /\ ~Store!Committed' /\ table'.pending = NONE
      BY <1>4 DEF ReconstructMetadata, Store!Reconstruct, Store!HasValid, Store!Valid,
                  Store!Committed, Reconstructed, table
    <2> QED
      BY <1>4, <2>1 DEF ReconstructMetadata, Store!Reconstruct, CommitPages
  <1>5. CASE Commit
    <2>1. pc' = pc /\ upd' = upd
      BY <1>5 DEF Commit, CommitStep, bootVars
    <2>2. stage \in {"erase", "program"} /\ pc \in {"reconstruct", "commit", "loop"}
      BY <1>5 DEF Commit, CommitStep, Store!Erase, Store!EraseError, Store!Program,
                  Store!ProgramError, Phase, TypeOK
    <2>3. stage' \in {"program", "ok", "failed"} /\ UNCHANGED <<metaCopy, dest>>
      BY <1>5 DEF Commit, CommitStep, Store!Erase, Store!EraseError, Store!Program,
                  Store!ProgramError
    <2>4. table' = table
      BY <1>1, <1>5 DEF Commit, CommitStep, Store!Erase, Store!EraseError, Store!Program,
                  Store!ProgramError, Store!NextRecord, table, StoreTypes, Store!StoreTypeOK,
                  Store!Record
    <2>5. HasLoaded' <=> HasLoaded \/ (dest = metaCopy /\ Store!Program)
      <3>1. dest = metaCopy => ~HasLoaded
        BY <1>1, <2>2 DEF StoreKept, Store!LoadedCopyKept, Store!HasValid, HasLoaded, Store!Valid,
                          StoreTypes, Store!StoreTypeOK
      <3>2. Store!NextRecord(meta) # Bad
        BY <1>1, StoreAssumption DEF Store!NextRecord, Store!NextGen, Store!Record, StoreTypes,
                                     Store!StoreTypeOK
      <3> QED
        BY <1>1, <1>5, <3>1, <3>2
           DEF Commit, CommitStep, Store!Erase, Store!EraseError, Store!Program,
               Store!ProgramError, HasLoaded, Store!Valid, StoreTypes, Store!StoreTypeOK
    <2>6. CASE pc = "reconstruct"
      <3>1. ~Store!Valid(copies, 1)'
        BY <1>1, <1>5, <2>6
           DEF Commit, CommitStep, Store!Erase, Store!EraseError, Store!Program,
               Store!ProgramError, CommitPages, Store!Valid, StoreTypes, Store!StoreTypeOK
      <3>2. ~Store!Committed'
        BY <2>3, <2>6, <3>1 DEF CommitPages, Store!Committed, Store!Valid
      <3> QED
        BY <2>1, <2>3, <2>4, <2>6, <3>1, <3>2 DEF CommitPages
    <2>7. CASE pc = "commit"
      BY <2>1, <2>3, <2>5, <2>7 DEF CommitPages
    <2>8. CASE pc = "loop"
      <3>1. dest = 1 - metaCopy /\ (Store!Committed => HasLoaded)
        BY <2>2, <2>8 DEF CommitPages, Installing
      <3>2. stage' = "ok" \/ (Store!Committed' => Store!Committed)
        BY <1>1, <1>5, <3>1
           DEF Commit, CommitStep, Store!Erase, Store!EraseError, Store!Program,
               Store!ProgramError, Store!Committed, Store!Valid, StoreTypes, Store!StoreTypeOK
      <3> QED
        BY <2>1, <2>3, <2>5, <2>8, <3>1, <3>2 DEF CommitPages, Installing
    <2> QED
      BY <2>2, <2>6, <2>7, <2>8
  <1>6. CASE CommitReturns
    <2>1. /\ HasLoaded' <=> HasLoaded
          /\ Store!Committed' <=> Store!Committed
          /\ table' = table /\ stage' = "ready"
      BY <1>6 DEF CommitReturns, Store!Return, HasLoaded, Store!Committed, Store!Valid, table
    <2>2. Store!Committed => HasLoaded
      BY <1>6 DEF CommitReturns, Store!Return, CommitPages, Installing
    <2> QED
      BY <1>6, <2>1, <2>2 DEF CommitReturns, CommitPages, Slots, NONE
  <1>7. ASSUME NEW body, Store!Begin(body), Store!Committed => HasLoaded
        PROVE  /\ HasLoaded' <=> HasLoaded
               /\ ~(Store!Committed /\ ~HasLoaded)'
               /\ dest' = 1 - metaCopy /\ metaCopy' = metaCopy /\ stage' = "erase"
    BY <1>1, <1>7
       DEF Store!Begin, HasLoaded, Store!Committed, Store!Valid, StoreTypes, Store!StoreTypeOK,
           Store!Record
  <1>8. CASE Decide
    <2>1. Store!Committed => HasLoaded
      BY <1>8 DEF Decide, Phase, CommitPages, Installing
    <2>2. CASE table.pending \in Slots
      <3>1. HasLoaded /\ stage = "ready"
        BY <1>8, <2>2 DEF Decide, CommitPages, Phase
      <3>2. \/ pc' = "commit" /\ \E body : Store!Begin(body)
            \/ pc' = "loop" /\ storeUnchanged
        BY <1>8 DEF Decide
      <3>3. CASE pc' = "commit" /\ \E body : Store!Begin(body)
        BY <1>7, <2>1, <3>1, <3>3 DEF CommitPages
      <3>4. CASE pc' = "loop" /\ storeUnchanged
        BY <1>2, <2>1, <3>1, <3>4 DEF CommitPages, storeUnchanged
      <3> QED
        BY <3>2, <3>3, <3>4
    <2>3. CASE table.pending \notin Slots
      <3>1. storeUnchanged /\ pc' = "loop" /\ stage = "ready"
        BY <1>8, <2>3 DEF Decide, BootDecide, Phase
      <3> QED
        BY <1>2, <2>1, <3>1 DEF CommitPages, storeUnchanged
    <2> QED
      BY <2>2, <2>3
  <1>9. CASE Command
    <2>1. pc = "loop" /\ pc' = "loop" /\ stage = "ready" /\ upd.state # "READY_TO_BOOT"
      BY <1>9, CommandStage
         DEF Command, bootVars, NoEffect, Abort, Start, StartRejected, StartFlashError,
             StartAccepted, StartAcceptable, Data, DataRejected, DataRefused, DataStored, DataSpoilt,
             DataBeyond, DataAcceptable, End, EndRejected, EndUnverified, EndHeaderError, EndCommit,
             HeaderProgrammable, Listening
    <2>2. Store!Committed => HasLoaded
      BY <2>1 DEF CommitPages, Installing
    <2>3. CASE storeUnchanged
      BY <1>2, <2>1, <2>2, <2>3 DEF CommitPages, storeUnchanged
    <2>4. CASE EndCommit
      BY <1>7, <2>1, <2>2, <2>4 DEF EndCommit, CommitPages
    <2> QED
      BY <1>1, <1>9, <2>3, <2>4, CommandStore
  <1>10. CASE SessionTimeout
    <2>1. storeUnchanged /\ pc' = pc /\ stage = "ready" /\ pc = "loop"
             /\ upd.state # "READY_TO_BOOT"
      BY <1>10 DEF SessionTimeout, Timeout, bootVars, Listening
    <2>2. Store!Committed => HasLoaded
      BY <2>1 DEF CommitPages, Installing
    <2> QED
      BY <1>2, <2>1, <2>2 DEF CommitPages, storeUnchanged
  <1>11. CASE EndReturns
    <2>1. /\ HasLoaded' <=> HasLoaded
          /\ Store!Committed' <=> Store!Committed
          /\ pc' = "loop" /\ pc = "loop" /\ stage' = "ready"
      BY <1>11 DEF EndReturns, EndDone, EndFailed, bootVars, Store!Return, HasLoaded,
                   Store!Committed, Store!Valid
    <2>2. stage = "failed" => (Store!Committed => HasLoaded)
      BY DEF CommitPages
    <2>3. EndDone("ACK") => upd'.state = "READY_TO_BOOT"
      BY <1>1 DEF EndDone, SessionTypes, OpenSession, Session
    <2>4. stage = "failed" \/ EndDone("ACK")
      BY <1>11 DEF EndReturns, EndDone, EndFailed
    <2> QED
      BY <2>1, <2>2, <2>3, <2>4 DEF CommitPages, Installing
  <1>12. CASE Jump
    <2>1. storeUnchanged /\ stage = "ready" /\ upd.state = "IDLE" /\ pc = "loop"
             /\ pc' \in {"app", "wild"}
      BY <1>12 DEF Jump, sessionVars, storeUnchanged
    <2> QED
      BY <1>2, <2>1 DEF CommitPages, Installing, storeUnchanged
  <1>13. CASE ReadyReset \/ HostReset \/ AppConfirm \/ CrashReset
    <2>1. pc' = "reset" /\ stage' = "off"
      BY <1>13 DEF ReadyReset, HostReset, AppConfirm, CrashReset, Reset, Restart, Store!Crash
    <2> QED
      BY <2>1 DEF CommitPages
  <1>14. CASE UNCHANGED vars
    <2>1. storeUnchanged /\ pc' = pc /\ upd' = upd
      BY <1>14 DEF vars, sessionVars, bootVars, storeUnchanged
    <2> QED
      BY <1>2, <2>1 DEF CommitPages, Installing, storeUnchanged
  <1> QED
    BY <1>3, <1>4, <1>5, <1>6, <1>8, <1>9, <1>10, <1>11, <1>12, <1>13, <1>14 DEF Next

(* The record in RAM is never behind a page that is the only valid one,    *)
(* except while END answers: the store's model keeps no commit of the boot *)
(* decision or of END from beginning.                                      *)
THEOREM CommitsBeginFreely ==
    Spec /\ []SessionFits =>
        []((pc = "decide" \/ (pc = "loop" /\ HeaderProgrammable)) => BeginsFreely)
  <1>1. Init => CommitIsOfSession /\ Phase /\ CommitPages
    BY PhaseInit DEF Init, CommitIsOfSession, CommitPages, FreshSession
  <1>2. /\ TypeOK /\ StoreKept /\ SessionFits /\ [Next]_vars
        /\ CommitIsOfSession /\ Phase /\ CommitPages
        => CommitIsOfSession' /\ Phase' /\ CommitPages'
    BY CommitStepKept, PhaseStep, PagesStep
  <1>3. Phase /\ CommitPages =>
           ((pc = "decide" \/ (pc = "loop" /\ HeaderProgrammable)) => BeginsFreely)
    BY DEF Phase, CommitPages, Installing, BeginsFreely, HeaderProgrammable, Listening
  <1> QED
    BY <1>1, <1>2, <1>3, RecordKept, TypeCorrect, PTL DEF Spec

=============================================================================
