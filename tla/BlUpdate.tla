------------------------------ MODULE BlUpdate ------------------------------
(***************************************************************************)
(* The update session of bootloader/src/bl_update.c, over the flash it     *)
(* writes through the range guard of bootloader/src/bl_hal_tm4c.c and the  *)
(* metadata store.  Each action is one call of bl_update_handle for one    *)
(* command and one outcome, except END_UPDATE, which the metadata commit   *)
(* splits: EndCommit starts it, the store's steps carry it on, and EndDone *)
(* or EndFailed answers.                                                   *)
(***************************************************************************)
EXTENDS OtaBoot

CONSTANTS
    Bad, GenMod,        \* of MetadataStore
    PageSize,       \* cells of a flash page; a DATA at a page start erases it
    WordSize,       \* cells of a flash word, the unit of programming
    SeqMod,         \* 2^16 in the code
    LenMod,         \* 2^32 in the code, the width of payload_size - received
    FaultKinds,     \* the flash operations that may misbehave
    MaxFaults       \* a bound on how many do

ASSUME BlUpdateAssumption ==
    /\ PageSize \in Nat \ {0} /\ WordSize \in Nat \ {0}
    /\ SlotSize % PageSize = 0 /\ PageSize % WordSize = 0
    /\ SeqMod \in Nat \ {0} /\ LenMod \in Nat \ {0}
    /\ FaultKinds \subseteq {"erase", "program", "silent", "commit"}
    /\ MaxFaults \in Nat

(* Those of MetadataStore. *)
ASSUME StoreAssumption ==
    /\ GenMod \in Nat /\ GenMod >= 3
    /\ Bad \notin [gen: 0 .. GenMod - 1, body: SlotTable] /\ Bad \notin SlotTable

VARIABLES
    copies, meta, metaCopy, dest, stage,    \* of MetadataStore
    hdr,        \* the header page of each slot
    area,       \* the payload area of each slot
    upd,        \* bl_update_t
    faults      \* flash operations that have misbehaved so far

Store == INSTANCE MetadataStore WITH Body <- SlotTable

sessionVars == <<copies, meta, metaCopy, dest, stage, hdr, area, upd, faults>>

table == meta.body      \* the slot table in RAM

(* last_sequence, last_length and last_crc, when have_last is set. *)
Packet == [seq: 0 .. SeqMod - 1, len: Nat, bytes: Payload \cup {Junk}]

(* The other fields mean something only while a session is open: START     *)
(* sets them all before any is used, so an idle session is FreshSession.   *)
Session == [state: {"IDLE", "RECEIVING", "READY_TO_BOOT"},
            header: Header \cup {Erased},
            received: Nat,
            nextSeq: 0 .. SeqMod - 1,
            last: SUBSET Packet]

(* The response to a command: ACK, or NACK with an error.  Every command   *)
(* action has the response r it gives as its last parameter.               *)
Reply == {"ACK", "COMMAND", "STATE", "SLOT", "HEADER", "SEQUENCE", "FLASH", "VERIFY"}

SessionTypeOK ==
    /\ hdr \in [Slots -> Header \cup {Erased, Junk}]
    /\ area \in [Slots -> [0 .. SlotSize - 1 -> Byte]]
    /\ upd \in Session
    /\ upd.state = "RECEIVING" => upd.header \in Header
    /\ faults \in 0 .. MaxFaults

(* bl_update_init *)
FreshSession ==
    [state |-> "IDLE", header |-> Erased, received |-> 0, nextSeq |-> 0, last |-> {}]

-----------------------------------------------------------------------------
(* Flash.                                                                  *)

(* Cells are addressed from the start of slot A's payload.  Then come slot *)
(* B's header page, slot B's payload and the two metadata pages.           *)
PayloadStart(s) == IF s = "A" THEN 0 ELSE SlotSize + PageSize
HeaderStart(s) == PayloadStart(s) - PageSize
CopyStart(c) == PayloadStart("B") + SlotSize + c * PageSize

(* Mutant: no range guard. *)
WritableAny(s) == s \in Slots

(* bl_flash_range_allowed: the one slot that may be erased or programmed,  *)
(* besides the metadata pages.                                             *)
Writable(s) == s = IF table.active = "A" THEN "B" ELSE "A"

Within(at, len, first, end) == first <= at /\ at + len <= end

RangeAllowed(at, len) ==
    \/ \E s \in Slots : /\ Writable(s)
                        /\ Within(at, len, HeaderStart(s), PayloadStart(s) + SlotSize)
    \/ Within(at, len, CopyStart(0), CopyStart(2))

Fault(kind) ==
    /\ kind \in FaultKinds
    /\ faults < MaxFaults
    /\ faults' = faults + 1

SamePage(i, j) == i \div PageSize = j \div PageSize

ErasePage(cells, at) ==
    [i \in DOMAIN cells |-> IF SamePage(i, at) THEN Erased ELSE cells[i]]

Write(cells, at, len, b) ==
    [i \in DOMAIN cells |-> IF at <= i /\ i < at + len THEN b ELSE cells[i]]

(* What programming header h leaves on a header page: bits only go from 1  *)
(* to 0, so only an erased page, or one that holds h, is sure to read as h.*)
HeaderAfterProgram(page, h) ==
    IF page \in {Erased, h} THEN {h}
    ELSE IF page = Junk THEN {h, Junk}
    ELSE {Junk}

(* The slot slot_start and slot_payload_start resolve a header's target to.*)
Addressed(h) == IF h.target = "A" THEN "A" ELSE "B"

-----------------------------------------------------------------------------
(* The command loop reaches bl_update_handle with no commit under way and  *)
(* before READY_TO_BOOT resets the device.                                 *)
Listening == stage = "ready" /\ upd.state # "READY_TO_BOOT"

storeUnchanged == UNCHANGED <<copies, meta, metaCopy, dest, stage>>
flashUnchanged == UNCHANGED <<hdr, area, faults>>

(* GET_INFO, a START of the wrong length and a command that does not exist *)
(* leave everything as it is.                                              *)
NoEffect(r) ==
    /\ r \in {"ACK", "HEADER", "COMMAND"}
    /\ Listening
    /\ storeUnchanged /\ flashUnchanged /\ UNCHANGED upd

(* ABORT *)
Abort(r) ==
    /\ Listening
    /\ storeUnchanged /\ flashUnchanged
    /\ \/ /\ upd.state = "RECEIVING"
          /\ upd' = FreshSession
          /\ r = "ACK"
       \/ /\ upd.state # "RECEIVING"
          /\ r = "STATE"
          /\ UNCHANGED upd

(* bl_update_poll: a session silent for OTA_PACKET_TIMEOUT_MS is dropped.  *)
Timeout ==
    /\ Listening
    /\ upd.state = "RECEIVING"
    /\ upd' = FreshSession
    /\ storeUnchanged /\ flashUnchanged

(* START_UPDATE.  The announced header replaces that of an open session    *)
(* before it is judged.                                                    *)
HeaderReceived(h) ==
    upd' = IF upd.state = "RECEIVING" THEN [upd EXCEPT !.header = h] ELSE upd

StartRejected(h, r) ==
    /\ Listening
    /\ HeaderReceived(h)
    /\ \/ ~HeaderValid(h, h.target) /\ r = "HEADER"
       \/ HeaderValid(h, h.target) /\ h.target = table.active /\ r = "SLOT"
    /\ storeUnchanged /\ flashUnchanged

StartAcceptable(h) ==
    /\ Listening
    /\ HeaderValid(h, h.target)
    /\ h.target # table.active

StartFlashError(h, r) ==
    /\ r = "FLASH"
    /\ StartAcceptable(h)
    /\ HeaderReceived(h)
    /\ \/ ~Writable(h.target) /\ UNCHANGED <<hdr, faults>>
       \/ /\ Writable(h.target)
          /\ Fault("erase")
          /\ hdr' \in {hdr, [hdr EXCEPT ![h.target] = Junk]}
    /\ storeUnchanged /\ UNCHANGED area

(* Mutant: START goes on counting where an open session was. *)
OpenedContinues(h, seq) ==
    [state |-> "RECEIVING", header |-> h, received |-> upd.received,
     nextSeq |-> (seq + 1) % SeqMod, last |-> {}]

Opened(h, seq) ==
    [state |-> "RECEIVING", header |-> h, received |-> 0,
     nextSeq |-> (seq + 1) % SeqMod, last |-> {}]

(* Mutant: the header is written when the transfer starts. *)
StartHeaderFirst(h, seq, r) ==
    /\ r = "ACK"
    /\ StartAcceptable(h)
    /\ Writable(h.target)
    /\ hdr' = [hdr EXCEPT ![h.target] = h]
    /\ upd' = Opened(h, seq)
    /\ storeUnchanged /\ UNCHANGED <<area, faults>>

(* Mutant: the old header stays until END. *)
StartKeepsHeader(h, seq, r) ==
    /\ r = "ACK"
    /\ StartAcceptable(h)
    /\ Writable(h.target)
    /\ upd' = Opened(h, seq)
    /\ storeUnchanged /\ flashUnchanged

StartAccepted(h, seq, r) ==
    /\ r = "ACK"
    /\ StartAcceptable(h)
    /\ Writable(h.target)
    /\ hdr' = [hdr EXCEPT ![h.target] = Erased]
    /\ upd' = Opened(h, seq)
    /\ storeUnchanged /\ UNCHANGED <<area, faults>>

-----------------------------------------------------------------------------
(* DATA(seq, len, b): len cells of payload b, for the place they will be   *)
(* stored at; b = Junk is bytes of no payload.                             *)

Repeats(seq, len, b) == [seq |-> seq, len |-> len, bytes |-> b] \in upd.last

Remaining == (upd.header.size - upd.received) % LenMod

(* Mutant: a packet may bring one cell more than is left. *)
InOrderOneMore(seq, len) ==
    /\ seq = upd.nextSeq
    /\ len # 0
    /\ len <= Remaining + 1

InOrder(seq, len) ==
    /\ seq = upd.nextSeq
    /\ len # 0
    /\ len <= Remaining

DataRejected(seq, len, b, r) ==
    /\ Listening
    /\ UNCHANGED upd
    /\ \/ upd.state # "RECEIVING" /\ r = "STATE"
       \/ upd.state = "RECEIVING" /\ Repeats(seq, len, b) /\ r = "ACK"
       \/ /\ upd.state = "RECEIVING" /\ ~Repeats(seq, len, b) /\ ~InOrder(seq, len)
          /\ r = "SEQUENCE"
    /\ storeUnchanged /\ flashUnchanged

DataAcceptable(seq, len, b) ==
    /\ Listening
    /\ upd.state = "RECEIVING"
    /\ ~Repeats(seq, len, b)
    /\ InOrder(seq, len)

PageStart == upd.received % PageSize = 0

(* Where DATA stores.  While the header is the one the session opened with *)
(* that is inside the payload area it names; a rejected START can replace  *)
(* the header by one of another slot or a smaller size, and then it may be *)
(* in the next header page, the next slot or the metadata.                 *)
At == PayloadStart(Addressed(upd.header)) + upd.received

Offset(s) == At - PayloadStart(s)

InArea(s, len) == Within(At, len, PayloadStart(s), PayloadStart(s) + SlotSize)

(* The erase and then the program pass the range guard, and the address is *)
(* one the flash controller can program.                                   *)
ProgramAllowed(len) ==
    /\ PageStart => RangeAllowed(At, PageSize)
    /\ RangeAllowed(At, len)
    /\ upd.received % WordSize = 0

(* The area of slot s as DATA finds it when it programs. *)
Prepared(s) ==
    IF PageStart THEN ErasePage(area[s], Offset(s)) ELSE area[s]

Programmed(s, len) == {i \in 0 .. SlotSize - 1 : Offset(s) <= i /\ i < Offset(s) + len}

(* Flash cells from `at' on are overwritten with bytes that are no header, *)
(* no record and no part of a payload there.                               *)
Overwrite(at, len) ==
    LET hit(first) == at < first + PageSize /\ first < at + len IN
    /\ hdr' = [s \in Slots |-> IF hit(HeaderStart(s)) THEN Junk ELSE hdr[s]]
    /\ area' = [s \in Slots |-> Write(area[s], at - PayloadStart(s), len, Junk)]
    /\ copies' = [c \in 0 .. 1 |-> IF hit(CopyStart(c)) THEN Bad ELSE copies[c]]

(* Out of range, or between two words: such an address is rounded down and *)
(* the words there may be spoilt.                                          *)
DataRefused(seq, len, b, r) ==
    /\ r = "FLASH"
    /\ DataAcceptable(seq, len, b)
    /\ ~ProgramAllowed(len)
    /\ \/ UNCHANGED <<hdr, area, copies>>
       \/ RangeAllowed(At, len) /\ Overwrite(WordSize * (At \div WordSize), len)
    /\ UNCHANGED <<meta, metaCopy, dest, stage, upd, faults>>

DataReceived(seq, len, b) ==
    [upd EXCEPT !.received = @ + len,
                !.nextSeq = (@ + 1) % SeqMod,
                !.last = {[seq |-> seq, len |-> len, bytes |-> b]}]

DataStored(seq, len, b, r) ==
    /\ r = "ACK"
    /\ DataAcceptable(seq, len, b)
    /\ ProgramAllowed(len)
    /\ \E s \in Slots :
          /\ InArea(s, len)
          /\ \A i \in Programmed(s, len) : Prepared(s)[i] \in {Erased, Junk, b}
          /\ area' = [area EXCEPT ![s] = Write(Prepared(s), Offset(s), len, b)]
    /\ upd' = DataReceived(seq, len, b)
    /\ storeUnchanged /\ UNCHANGED <<hdr, faults>>

(* The read-back differs, because the cells were not erased or because the *)
(* erase or the program went wrong.                                        *)
DataSpoilt(seq, len, b, r) ==
    /\ r = "FLASH"
    /\ DataAcceptable(seq, len, b)
    /\ ProgramAllowed(len)
    /\ \E s \in Slots :
          /\ InArea(s, len)
          /\ \/ /\ \E i \in Programmed(s, len) :
                      Prepared(s)[i] \notin {Erased} \cup ({b} \ {Junk})
                /\ area' = [area EXCEPT ![s] = Write(Prepared(s), Offset(s), len, Junk)]
                /\ UNCHANGED faults
             \/ /\ Fault("program")
                /\ area' = [area EXCEPT ![s] = Write(Prepared(s), Offset(s), len, Junk)]
             \/ /\ PageStart
                /\ Fault("erase")
                /\ area' \in {area, [area EXCEPT ![s] = Write(@, Offset(s), PageSize, Junk)]}
    /\ storeUnchanged /\ UNCHANGED <<hdr, upd>>

(* DATA outside every payload area that the range guard lets through.      *)
DataBeyond(seq, len, b, r) ==
    /\ DataAcceptable(seq, len, b)
    /\ ProgramAllowed(len)
    /\ \A s \in Slots : ~InArea(s, len)
    /\ Overwrite(At, IF PageStart THEN PageSize ELSE len)
    /\ \/ upd' = DataReceived(seq, len, b) /\ r = "ACK"
       \/ UNCHANGED upd /\ r = "FLASH"
    /\ UNCHANGED <<meta, metaCopy, dest, stage, faults>>

-----------------------------------------------------------------------------
(* END_UPDATE *)

Complete ==
    upd.state = "RECEIVING" /\ upd.received = upd.header.size

EndRejected(r) ==
    /\ r = "STATE"
    /\ Listening
    /\ ~Complete
    /\ storeUnchanged /\ flashUnchanged /\ UNCHANGED upd

(* Payload CRC and vector table of what is in flash. *)
Verified ==
    LET s == Addressed(upd.header) IN
    /\ PayloadCrcMatches(area[s], upd.header)
    /\ VectorValid(area[s], upd.header.target)

EndUnverified(r) ==
    /\ r = "VERIFY"
    /\ Listening
    /\ Complete
    /\ ~Verified \/ ~Writable(Addressed(upd.header))
    /\ storeUnchanged /\ flashUnchanged /\ UNCHANGED upd

(* Mutant: the payload is not read back. *)
HeaderProgrammableUnread ==
    Listening /\ Complete /\ Writable(Addressed(upd.header))

HeaderProgrammable ==
    Listening /\ Complete /\ Verified /\ Writable(Addressed(upd.header))

EndHeaderError(r) ==
    /\ r = "VERIFY"
    /\ HeaderProgrammable
    /\ LET s == Addressed(upd.header) IN
       /\ hdr' = [hdr EXCEPT ![s] = Junk]
       /\ \/ Fault("program")
          \/ Junk \in HeaderAfterProgram(hdr[s], upd.header) /\ UNCHANGED faults
    /\ storeUnchanged /\ UNCHANGED <<area, upd>>

(* The slot table with the new image pending. *)
Install(tab, h) ==
    [tab EXCEPT !.slot[Addressed(h)] = [state |-> "PENDING", version |-> h.version, count |-> 0],
                !.pending = h.target]

(* The header page is programmed, but not read back, and the commit of the *)
(* pending image starts.                                                   *)
EndCommit ==
    /\ HeaderProgrammable
    /\ LET s == Addressed(upd.header) IN
       \/ /\ \E page \in HeaderAfterProgram(hdr[s], upd.header) :
                 hdr' = [hdr EXCEPT ![s] = page]
          /\ UNCHANGED faults
       \/ /\ Fault("silent")
          /\ hdr' = [hdr EXCEPT ![s] = Junk]
    /\ Store!Begin(Install(table, upd.header))
    /\ UNCHANGED <<area, upd>>

EndDone(r) ==
    /\ r = "ACK"
    /\ stage = "ok"
    /\ Store!Return
    /\ upd' = [upd EXCEPT !.state = "READY_TO_BOOT"]
    /\ flashUnchanged

EndFailed(r) ==
    /\ r = "FLASH"
    /\ stage = "failed"
    /\ Store!Return
    /\ flashUnchanged /\ UNCHANGED upd

-----------------------------------------------------------------------------
(* Mutant: the destination page is programmed without being erased. *)
CommitWithoutErase ==
    /\ stage = "erase"
    /\ copies' = [copies EXCEPT ![dest] = Store!NextRecord(meta)]
    /\ stage' = "ok"
    /\ UNCHANGED <<meta, metaCopy, dest, hdr, area, upd, faults>>

(* The flash steps of a commit, for END_UPDATE and at start-up alike. *)
CommitStep ==
    /\ \/ (Store!Erase \/ Store!Program) /\ UNCHANGED faults
       \/ Fault("commit") /\ (Store!EraseError \/ Store!ProgramError)
    /\ UNCHANGED <<hdr, area, upd>>

=============================================================================
