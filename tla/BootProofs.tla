------------------------------ MODULE BootProofs ------------------------------
(***************************************************************************)
(* Images stay whole and trials are fair: what the boot decision, the      *)
(* update session, the confirmation mailbox and the metadata promise       *)
(* together, for any images, sizes of flash, hosts and resets.             *)
(***************************************************************************)
EXTENDS RecordProofs

-----------------------------------------------------------------------------
(* The slots.                                                              *)

(* There is one slot that may be written, and it is not the active one.    *)
LEMMA OneWritable ==
    ASSUME NEW s \in Slots
    PROVE  /\ Writable(s) <=> s = Other(table.active)
           /\ s = table.active => ~Writable(s)
           /\ table.active \in Slots => (Writable(s) <=> s # table.active)
  BY DEF Writable, Slots, Other

(* Outside the commands and the crashes nothing writes a slot.             *)
LEMMA SlotsUnchanged ==
    ASSUME [Next]_vars, ~Command, ~CrashReset
    PROVE  hdr' = hdr /\ area' = area
  BY DEF Next, LoadMetadata, ReconstructMetadata, Commit, CommitStep, CommitReturns, Decide, Jump,
         SessionTimeout, Timeout, EndReturns, EndDone, EndFailed, flashUnchanged, vars, sessionVars,
         ReadyReset, HostReset, AppConfirm

(* A slot's payload changes only by DATA of an open session that has not   *)
(* all its bytes, or by a power cut in the middle of one, and then in the  *)
(* slot that may be written.                                               *)
LEMMA AreaStep ==
    ASSUME TypeOK, [Next]_vars, NEW s \in Slots, area'[s] # area[s]
    PROVE  /\ pc = "loop" /\ stage = "ready" /\ upd.state = "RECEIVING" /\ Remaining # 0
           /\ Writable(s)
  <1>1. Writable(s)
    BY ProtectedStep
  <1>2. CASE Command
    <2>1. ASSUME NEW seq \in 0 .. SeqMod - 1, NEW len \in Lengths, NEW b,
                 DataAcceptable(seq, len, b)
          PROVE  stage = "ready" /\ upd.state = "RECEIVING" /\ Remaining # 0
      <3>1. len \in Nat /\ len # 0 /\ len <= Remaining
        BY <2>1, BootloaderAssumption, BlUpdateAssumption DEF DataAcceptable, InOrder
      <3> QED
        BY <2>1, <3>1 DEF DataAcceptable, Listening
    <2> QED
      BY <1>1, <1>2, <2>1
         DEF Command, NoEffect, Abort, Start, StartRejected, StartFlashError, StartAccepted,
             Data, DataRejected, DataRefused, DataStored, DataSpoilt, DataBeyond,
             End, EndRejected, EndUnverified, EndHeaderError, EndCommit, flashUnchanged
  <1>3. CASE CrashReset
    BY <1>1, <1>3 DEF CrashReset, TornSlot, Listening
  <1> QED
    BY <1>2, <1>3, SlotsUnchanged

(* A session that opens finds the header page of its slot erased.          *)
LEMMA OpensErased ==
    ASSUME TypeOK, Command, upd.state # "RECEIVING", upd'.state = "RECEIVING"
    PROVE  \A s \in Slots : Writable(s) => hdr'[s] = Erased
  <1>1. SessionTypes
    BY TypeParts
  <1>2. PICK h \in Headers, r \in Reply, seq \in 0 .. SeqMod - 1 : StartAccepted(h, seq, r)
    BY DEF Command, NoEffect, Abort, Start, StartRejected, StartFlashError, HeaderReceived,
           Data, DataRejected, DataRefused, DataStored, DataSpoilt, DataBeyond, DataAcceptable,
           End, EndRejected, EndUnverified, EndHeaderError, EndCommit, FreshSession
  <1>3. h.target \in Slots /\ Writable(h.target) /\ hdr' = [hdr EXCEPT ![h.target] = Erased]
    BY <1>2 DEF StartAccepted, StartAcceptable, HeaderValid
  <1>4. \A s \in Slots : Writable(s) => s = h.target
    BY <1>3 DEF Writable
  <1> QED
    BY <1>1, <1>3, <1>4 DEF SessionTypes

-----------------------------------------------------------------------------
(* Images stay whole under their headers.                                  *)

(* A session that has bytes to come writes no slot that holds an image.    *)
ImagesSpared ==
    pc = "loop" /\ stage = "ready" /\ upd.state = "RECEIVING" =>
        \A s \in Slots : Writable(s) /\ hdr[s] \in Header => Remaining = 0

(* It does not while no open session finds a header, so unless END has     *)
(* failed after it wrote one,                                              *)
NoImageUnderSession ==
    pc = "loop" /\ stage = "ready" /\ upd.state = "RECEIVING" =>
        \A s \in Slots : Writable(s) => hdr[s] \notin Header

(* or while one that does keeps to the size it has received.               *)
FullUnderImage ==
    pc = "loop" /\ stage = "ready" /\ upd.state = "RECEIVING" =>
        \A s \in Slots : Writable(s) /\ hdr[s] \in Header => Complete

(* A session is open after a step only if it was, or START opened it.      *)
LEMMA SessionStep ==
    ASSUME TypeOK, Phase, [Next]_vars,
           pc' = "loop", stage' = "ready", upd'.state = "RECEIVING"
    PROVE  \/ Command
           \/ UNCHANGED vars
           \/ stage = "failed" /\ pc = "loop"
  <1>1. CASE LoadMetadata \/ ReconstructMetadata \/ Decide \/ Jump \/ SessionTimeout
             \/ ReadyReset \/ HostReset \/ AppConfirm \/ CrashReset
    BY <1>1 DEF LoadMetadata, ReconstructMetadata, Decide, Jump, SessionTimeout, Timeout,
                ReadyReset, HostReset, AppConfirm, CrashReset, Reset, Restart, FreshSession
  <1>2. CASE Commit
    BY <1>2 DEF Commit, CommitStep, Store!Erase, Store!EraseError, Store!Program,
                Store!ProgramError
  <1>3. CASE CommitReturns
    BY <1>3 DEF CommitReturns, Phase
  <1>4. CASE EndReturns
    <2>1. upd \in Session
      BY DEF TypeOK, SessionTypeOK
    <2>2. upd' # [upd EXCEPT !.state = "READY_TO_BOOT"]
      BY <2>1 DEF Session
    <2> QED
      BY <1>4, <2>2 DEF EndReturns, EndDone, EndFailed
  <1> QED
    BY <1>1, <1>2, <1>3, <1>4 DEF Next

(* A command leaves the slot table's active slot as it is.                 *)
LEMMA CommandTable ==
    ASSUME TypeOK, Command
    PROVE  /\ table'.active = table.active
           /\ \A s \in Slots : Writable(s)' <=> Writable(s)
  <1>1. meta' = meta \/ EndCommit
    BY DEF Command, NoEffect, Abort, Start, StartRejected, StartFlashError, StartAccepted,
           Data, DataRejected, DataRefused, DataStored, DataSpoilt, DataBeyond,
           End, EndRejected, EndUnverified, EndHeaderError, storeUnchanged
  <1>2. meta \in [gen: 0 .. GenMod - 1, body: SlotTable]
    BY DEF TypeOK, Store!StoreTypeOK, Store!Record
  <1>3. CASE EndCommit
    <2>1. meta'.body = Install(table, upd.header)
      BY <1>2, <1>3 DEF EndCommit, Store!Begin
    <2>2. Install(table, upd.header).active = table.active
      BY <1>2 DEF Install, table, SlotTable
    <2> QED
      BY <2>1, <2>2 DEF table, Writable
  <1> QED
    BY <1>1, <1>3 DEF table, Writable

(* One step keeps images away from open sessions.                          *)
LEMMA NoImageStep ==
    ASSUME TypeOK, Phase, NoImageUnderSession, EndCommitsSucceed, [Next]_vars
    PROVE  NoImageUnderSession'
  <1> SUFFICES ASSUME pc' = "loop", stage' = "ready", upd'.state = "RECEIVING",
                      NEW s \in Slots, Writable(s)'
               PROVE  hdr'[s] \notin Header
    BY DEF NoImageUnderSession
  <1>1. CASE Command
    <2>1. Writable(s) /\ pc = "loop" /\ stage = "ready"
      BY <1>1, CommandTable, CommandStage
    <2>2. CASE upd.state # "RECEIVING"
      BY <1>1, <2>1, <2>2, OpensErased, HeaderContentAssumption
    <2>3. CASE upd.state = "RECEIVING"
      <3>1. hdr[s] \notin Header
        BY <2>1, <2>3 DEF NoImageUnderSession
      <3>2. ~EndCommit
        BY DEF EndCommit, Store!Begin
      <3> QED
        BY <3>1, <3>2, HeaderIsEnd
    <2> QED
      BY <2>2, <2>3
  <1>2. CASE UNCHANGED vars
    BY <1>2 DEF vars, sessionVars, bootVars, NoImageUnderSession, Writable, table
  <1>3. ~(stage = "failed" /\ pc = "loop")
    BY DEF EndCommitsSucceed
  <1> QED
    BY <1>1, <1>2, <1>3, SessionStep

(* One step keeps a session that finds an image complete, when all images  *)
(* are of one size: a START refused only changes the header.               *)
LEMMA FullStep ==
    ASSUME OneImageSize, TypeOK, Phase, CommitIsOfSession, Announced, FullUnderImage, [Next]_vars
    PROVE  FullUnderImage'
  <1> SUFFICES ASSUME pc' = "loop", stage' = "ready", upd'.state = "RECEIVING",
                      NEW s \in Slots, Writable(s)', hdr'[s] \in Header
               PROVE  Complete'
    BY DEF FullUnderImage
  <1>1. upd \in Session
    BY TypeParts DEF SessionTypes, OpenSession
  <1>2. CASE Command
    <2>1. Writable(s) /\ pc = "loop" /\ stage = "ready"
      BY <1>2, CommandTable, CommandStage
    <2>2. upd.state = "RECEIVING"
      BY <1>2, <2>1, OpensErased, HeaderContentAssumption
    <2>3. ~EndCommit
      BY DEF EndCommit, Store!Begin
    <2>4. Complete
      BY <2>1, <2>2, <2>3, HeaderIsEnd DEF FullUnderImage
    <2>5. \A seq, len, b : ~DataAcceptable(seq, len, b) \/ len \notin Nat
      <3>1. Remaining = 0
        BY <1>1, <2>4, BlUpdateAssumption DEF Remaining, Complete, Session
      <3> QED
        BY <3>1 DEF DataAcceptable, InOrder
    <2>6. ASSUME NEW h \in Headers, HeaderReceived(h)
          PROVE  Complete'
      <3>1. upd' = [upd EXCEPT !.header = h]
        BY <2>2, <2>6 DEF HeaderReceived
      <3>2. upd'.header = h /\ upd'.received = upd.received
        BY <1>1, <3>1 DEF Session
      <3>3. h.size = upd.header.size
        BY <2>2, <2>6 DEF OneImageSize, Announced
      <3> QED
        BY <2>4, <3>2, <3>3 DEF Complete
    <2>7. ASSUME NEW h \in Headers, NEW seq \in 0 .. SeqMod - 1, NEW r, StartAccepted(h, seq, r)
          PROVE  FALSE
      <3>1. h.target \in Slots /\ Writable(h.target) /\ hdr' = [hdr EXCEPT ![h.target] = Erased]
        BY <2>7 DEF StartAccepted, StartAcceptable, HeaderValid
      <3>2. s = h.target
        BY <2>1, <3>1 DEF Writable
      <3> QED
        BY <3>1, <3>2, TypeParts, HeaderContentAssumption DEF SessionTypes
    <2>8. \A len \in Lengths : len \in Nat
      BY BootloaderAssumption, BlUpdateAssumption
    <2>9. upd' = upd \/ Complete'
      BY <1>2, <2>3, <2>5, <2>6, <2>7, <2>8
         DEF Command, NoEffect, Abort, Start, StartRejected, StartFlashError, FreshSession,
             Data, DataRejected, DataRefused, DataStored, DataSpoilt, DataBeyond,
             End, EndRejected, EndUnverified, EndHeaderError
    <2> QED
      BY <2>4, <2>9 DEF Complete
  <1>3. CASE UNCHANGED vars
    BY <1>3 DEF vars, sessionVars, bootVars, FullUnderImage, Writable, table, Complete
  <1>4. CASE stage = "failed" /\ pc = "loop"
    <2>1. Complete
      BY <1>4 DEF CommitIsOfSession
    <2>2. upd' = upd
      BY <1>4
         DEF Next, LoadMetadata, ReconstructMetadata, Commit, CommitStep, CommitReturns, Decide,
             Command, NoEffect, Abort, Start, StartRejected, StartFlashError, StartAccepted,
             StartAcceptable, Data, DataRejected, DataRefused, DataStored, DataSpoilt, DataBeyond,
             DataAcceptable, End, EndRejected, EndUnverified, EndHeaderError, EndCommit,
             HeaderProgrammable, Listening, SessionTimeout, Timeout, EndReturns, EndDone, EndFailed,
             Jump, ReadyReset, HostReset, AppConfirm, CrashReset, Reset, Restart, vars, sessionVars
    <2> QED
      BY <2>1, <2>2 DEF Complete
  <1> QED
    BY <1>2, <1>3, <1>4, SessionStep

(* A whole image stays whole while its header page stays as it is.         *)
LEMMA BootableStep ==
    ASSUME TypeOK, ImagesSpared, [Next]_vars,
           NEW s \in Slots, Bootable(s), hdr'[s] = hdr[s]
    PROVE  area'[s] = area[s] /\ Bootable(s)'
  <1>1. hdr[s] \in Header
    BY DEF Bootable, ImageValid
  <1>2. area'[s] = area[s]
    BY <1>1, AreaStep DEF ImagesSpared
  <1> QED
    BY <1>2 DEF Bootable

(* Images are spared unless a commit of END fails, *)
LEMMA SparedWithoutFailure == Spec /\ []EndCommitsSucceed => []ImagesSpared
  <1> DEFINE inv == Phase /\ NoImageUnderSession
  <1>1. Init => inv
    BY PhaseInit DEF Init, NoImageUnderSession, FreshSession
  <1>2. TypeOK /\ EndCommitsSucceed /\ inv /\ [Next]_vars => inv'
    BY PhaseStep, NoImageStep
  <1>3. inv => ImagesSpared
    BY DEF NoImageUnderSession, ImagesSpared
  <1> QED
    BY <1>1, <1>2, <1>3, TypeCorrect, PTL DEF Spec

(* and also then, when all images are of one size. *)
LEMMA SparedInOneSize ==
    ASSUME OneImageSize
    PROVE  Spec => []ImagesSpared
  <1> DEFINE inv == /\ Announced /\ SessionFits
                    /\ Phase /\ CommitIsOfSession /\ FullUnderImage
  <1>1. Init => inv
    BY PhaseInit DEF Init, Announced, SessionFits, CommitIsOfSession, FullUnderImage, FreshSession
  <1>2. TypeOK /\ inv /\ [Next]_vars => inv'
    BY FitsStep, PhaseStep, CommitStepKept, FullStep
  <1>3. TypeOK /\ inv => ImagesSpared
    <2>1. TypeOK /\ Complete => Remaining = 0
      BY BlUpdateAssumption DEF TypeOK, SessionTypeOK, Session, Header, Complete, Remaining
    <2> QED
      BY <2>1 DEF FullUnderImage, ImagesSpared
  <1> QED
    BY <1>1, <1>2, <1>3, TypeCorrect, PTL DEF Spec

(* As long as they are, only a write to its header page loses an image.    *)
LEMMA LostOnlyWithHeader == Spec /\ []ImagesSpared => ImageLostOnlyWithHeader
  <1> DEFINE kept == \A s \in Slots : Bootable(s) /\ hdr'[s] = hdr[s] => Bootable(s)'
  <1>1. TypeOK /\ ImagesSpared /\ [Next]_vars => [kept]_vars
    BY BootableStep
  <1>2. Spec /\ []ImagesSpared => [][kept]_vars
    BY <1>1, TypeCorrect, PTL DEF Spec
  <1> QED
    BY <1>2 DEF ImageLostOnlyWithHeader

(* No DATA, in whatever session, spoils a payload that a header still      *)
(* vouches for, whatever flash fails: START erases the header page of the  *)
(* one slot a session may write before a session is open, only END writes  *)
(* it again, and a session that END has failed has no bytes to come.       *)
THEOREM ImagesOnlyLostWithHeader ==
    ASSUME OneImageSize
    PROVE  Spec => ImageLostOnlyWithHeader
  BY SparedInOneSize, LostOnlyWithHeader, PTL

(* With images of any sizes, and so sessions that overrun theirs, the same *)
(* holds until a commit of END fails: after that both the image and the    *)
(* session are there, and a refused START can make room for more DATA.     *)
THEOREM ImagesOnlyLostWithHeaderAnySize ==
    Spec /\ []EndCommitsSucceed => ImageLostOnlyWithHeader
  BY SparedWithoutFailure, LostOnlyWithHeader, PTL

-----------------------------------------------------------------------------
(* The decision of start-up.                                               *)

(* What is decided on has been probed. *)
LEMMA DecisionProbed ==
    ASSUME NEW tab, NEW conf, NEW ok, BootDecide(tab, conf, ok).run \in Slots
    PROVE  ok[BootDecide(tab, conf, ok).run]
  BY DEF BootDecide, Fallback, Confirmed, Exhausted, Slots, NONE

(* The slot decided on is bootable while its commit is under way.          *)
DecisionStands == pc = "commit" /\ run \in Slots => Bootable(run)

(* One step keeps the decision. *)
LEMMA DecisionStep ==
    ASSUME TypeOK, ImagesSpared, DecisionStands, DecisionHolds, [Next]_vars
    PROVE  DecisionStands' /\ DecisionHolds'
  <1>1. CASE Decide
    <2> DEFINE ok == [s \in Slots |-> Bootable(s)]
               d == BootDecide(table, Received, ok)
    <2>1. run' = d.run /\ UNCHANGED <<hdr, area>>
      BY <1>1 DEF Decide
    <2>2. d.run \in Slots => ok[d.run]
      BY DecisionProbed
    <2> HIDE DEF d
    <2>3. run' \in Slots => Bootable(run')
      BY <2>1, <2>2
    <2>4. \A s \in Slots : Bootable(s)' <=> Bootable(s)
      BY <2>1 DEF Bootable
    <2> QED
      BY <2>3, <2>4 DEF DecisionStands, DecisionHolds, Bootable
  <1>2. CASE ~Decide /\ pc' \in {"commit", "loop"} /\ run' \in Slots
    <2>1. run' = run /\ pc \in {"commit", "loop"} /\ (pc' = "commit" => pc = "commit")
      BY <1>2 DEF Next, LoadMetadata, ReconstructMetadata, Commit, CommitReturns, Command,
                  SessionTimeout, EndReturns, Jump, ReadyReset, HostReset, AppConfirm, CrashReset,
                  Reset, Restart, vars, bootVars
    <2>2. UNCHANGED <<written, hdr>> \/ written' = written \cup {s \in Slots : hdr'[s] # hdr[s]}
      BY <1>2, SlotsUnchanged
         DEF Next, LoadMetadata, ReconstructMetadata, Commit, CommitReturns, Command,
             SessionTimeout, EndReturns, Jump, ReadyReset, HostReset, AppConfirm, CrashReset,
             SessionHistory, vars, historyVars
    <2>3. CASE pc = "loop" /\ run \in written
      BY <2>1, <2>2, <2>3 DEF DecisionStands, DecisionHolds
    <2>4. CASE hdr'[run] # hdr[run]
      <3>1. Command
        BY <1>2, <2>1, <2>4, SlotsUnchanged DEF CrashReset, Reset, Restart
      <3> QED
        BY <1>2, <2>1, <2>4, <3>1
           DEF Command, SessionHistory, DecisionStands, DecisionHolds
    <2>5. CASE hdr'[run] = hdr[run] /\ ~(pc = "loop" /\ run \in written)
      <3>1. Bootable(run)
        BY <1>2, <2>1, <2>5 DEF DecisionStands, DecisionHolds
      <3>2. Bootable(run)'
        <4>1. area'[run] = area[run]
          BY <1>2, <2>1, <2>5, <3>1, BootableStep
        <4> QED
          BY <2>1, <2>5, <3>1, <4>1 DEF Bootable
      <3> QED
        BY <3>2 DEF DecisionStands, DecisionHolds
    <2> QED
      BY <2>3, <2>4, <2>5
  <1> QED
    BY <1>1, <1>2 DEF DecisionStands, DecisionHolds

(* As long as images are spared it holds. *)
LEMMA DecisionKept == Spec /\ []ImagesSpared => []DecisionHolds
  <1>1. Init => DecisionStands /\ DecisionHolds
    BY DEF Init, DecisionStands, DecisionHolds
  <1>2. TypeOK /\ ImagesSpared /\ (DecisionStands /\ DecisionHolds) /\ [Next]_vars
           => (DecisionStands /\ DecisionHolds)'
    BY DecisionStep
  <1> QED
    BY <1>1, <1>2, TypeCorrect, PTL DEF Spec

(* The slot decided at start-up stays bootable for as long as no START or  *)
(* END writes its header page: what an hour of sessions in the other slot  *)
(* does, complete, abandoned or spoilt by flash, leaves it alone.          *)
THEOREM DecisionAlwaysHolds ==
    ASSUME OneImageSize
    PROVE  Spec => []DecisionHolds
  BY SparedInOneSize, DecisionKept, PTL

(* With images of any sizes it does until a commit of END fails.           *)
THEOREM DecisionHoldsAnySize == Spec /\ []EndCommitsSucceed => []DecisionHolds
  BY SparedWithoutFailure, DecisionKept, PTL

-----------------------------------------------------------------------------
(* A confirmation and the image it is taken for.                           *)

(* What is pending is never in the slot that is active.                    *)
Alternates(tab) == tab.pending \in {NONE, Other(tab.active)}

TrialsAlternate ==
    /\ \A c \in 0 .. 1 : Store!Valid(copies, c) => Alternates(copies[c].body)
    /\ stage # "off" => Alternates(table)

(* The decision is made on what a restart would find again.                *)
DecidesOnDurable ==
    pc \in {"reconstruct", "decide"} =>
        /\ HasDurable => Durable.body = table
        /\ HasLoaded => Loaded.body = table

InWindow == pc \in {"commit", "loop", "app", "wild"}

Decided == InWindow /\ run \in Slots

(* A slot that runs as the active one holds an image linked for it.        *)
ActiveIsLinked == Decided /\ run = table.active => VectorValid(area[run], run)

(* A slot that runs without being active is the only one that may be       *)
(* pending in any record a restart can find.                               *)
OtherOnTrial ==
    Decided /\ run # table.active =>
        /\ run = Other(table.active)
        /\ HasDurable => Durable.body.active = table.active
        /\ HasLoaded => Loaded.body.active = table.active

(* A confirmation in SRAM has been earned, or is for no pending image.     *)
MailEarned ==
    mailbox # Blank /\ mailbox.magic = "CONFIRM" =>
        /\ pc \in {"reset", "reconstruct", "decide"}
        /\ \/ earned[mailbox.slot]
           \/ ~HasDurable
           \/ Durable.body.pending # mailbox.slot

TrialInv ==
    TrialsAlternate /\ DecidesOnDurable /\ ActiveIsLinked /\ OtherOnTrial /\ MailEarned

(* The installed image is the one beside the active slot.                  *)
LEMMA EndInstalls ==
    ASSUME TypeOK, EndCommit
    PROVE  LET h == upd.header IN
           /\ h \in Header /\ h.target \in Slots /\ Addressed(h) = h.target
           /\ Writable(h.target) /\ h.target = Other(table.active)
           /\ table' = Install(table, h) /\ Alternates(table')
           /\ copies' = copies /\ metaCopy' = metaCopy
  <1> DEFINE h == upd.header
  <1>1. h \in Header /\ area \in [Slots -> Cells] /\ Writable(Addressed(h))
    BY TypeParts DEF EndCommit, HeaderProgrammable, Complete, SessionTypes, OpenSession
  <1>2. Addressed(h) \in Slots /\ VectorValid(area[Addressed(h)], h.target)
    BY DEF EndCommit, HeaderProgrammable, Verified, Addressed, Slots
  <1>3. h.target \in Slots /\ Addressed(h) = h.target
    BY <1>2, LinkSlotAssumption DEF VectorValid, Addressed, Slots
  <1>4. h.target = Other(table.active)
    BY <1>1, <1>3, OneWritable
  <1>5. meta \in Store!Record /\ Store!Begin(Install(table, h))
    BY DEF TypeOK, Store!StoreTypeOK, EndCommit
  <1>6. table' = Install(table, h) /\ copies' = copies /\ metaCopy' = metaCopy
    BY <1>5 DEF Store!Begin, Store!Record, table
  <1>7. Install(table, h).active = table.active /\ Install(table, h).pending = h.target
    BY <1>5 DEF Install, Store!Record, SlotTable, table
  <1> QED
    BY <1>1, <1>3, <1>4, <1>6, <1>7 DEF Alternates

(* The record in RAM changes at start-up, by the decision and by END.      *)
LEMMA TableMoves ==
    ASSUME TypeOK, [Next]_vars
    PROVE  \/ table' = table /\ (stage = "off" => stage' = "off")
           \/ LoadMetadata /\ table' = Durable.body
           \/ ReconstructMetadata /\ table' = Reconstructed
           \/ /\ Decide
              /\ table' = BootDecide(table, Received, [s \in Slots |-> Bootable(s)]).table
           \/ Command /\ EndCommit /\ table' = Install(table, upd.header)
  <1>1. meta \in Store!Record
    BY DEF TypeOK, Store!StoreTypeOK
  <1>2. ASSUME NEW body, Store!Begin(body) PROVE table' = body
    BY <1>1, <1>2 DEF Store!Begin, Store!Record, table
  <1>3. CASE LoadMetadata \/ ReconstructMetadata
    BY <1>3 DEF LoadMetadata, ReconstructMetadata, Store!Load, Store!Reconstruct, Durable, table
  <1>4. CASE Commit
    BY <1>1, <1>4 DEF Commit, CommitStep, Store!Erase, Store!EraseError, Store!Program,
                      Store!ProgramError, Store!NextRecord, Store!Record, table
  <1>5. CASE Decide
    BY <1>2, <1>5 DEF Decide, BootDecide, storeUnchanged, table
  <1>6. CASE Command
    BY <1>2, <1>6, CommandStage
       DEF Command, NoEffect, Abort, Start, StartRejected, StartFlashError, StartAccepted,
           Data, DataRejected, DataRefused, DataStored, DataSpoilt, DataBeyond,
           End, EndRejected, EndUnverified, EndHeaderError, EndCommit, storeUnchanged, table
  <1>7. CASE CommitReturns \/ SessionTimeout \/ EndReturns \/ Jump \/ UNCHANGED vars
    BY <1>7 DEF CommitReturns, Store!Return, SessionTimeout, Timeout, EndReturns, EndDone,
                EndFailed, Jump, Listening, vars, sessionVars, storeUnchanged, table
  <1>8. CASE ReadyReset \/ HostReset \/ AppConfirm \/ CrashReset
    BY <1>8 DEF ReadyReset, HostReset, AppConfirm, CrashReset, Reset, Store!Crash, table
  <1> QED
    BY <1>3, <1>4, <1>5, <1>6, <1>7, <1>8 DEF Next

(* What the decision makes of a table whose trial is beside its active     *)
(* slot: another such table, of which the other slot runs only while the   *)
(* active one stays the same; and only a confirmed image becomes active.   *)
LEMMA DecisionAlternates ==
    ASSUME NEW tab \in SlotTable, Alternates(tab), NEW conf, NEW ok
    PROVE  LET d == BootDecide(tab, conf, ok) IN
           /\ Alternates(d.table)
           /\ d.run \in Slots /\ d.run # d.table.active =>
                  d.run = Other(tab.active) /\ d.table.active = tab.active
           /\ d.table.active # tab.active =>
                  /\ d.table.active = tab.pending /\ tab.pending \in Slots
                  /\ Confirmed(tab, conf, ok)
  <1> USE DEF Alternates
  <1>1. \A t : Fallback(t, ok) \in {t.active, Other(t.active), NONE}
    BY DEF Fallback
  <1>2. CASE tab.pending \notin Slots
    BY <1>1, <1>2 DEF BootDecide, Slots, NONE
  <1>3. CASE tab.pending \in Slots /\ Confirmed(tab, conf, ok)
    BY <1>3 DEF BootDecide, Promote
  <1>4. CASE tab.pending \in Slots /\ ~Confirmed(tab, conf, ok) /\ Exhausted(tab, ok)
    <2>1. GiveUp(tab).active = tab.active /\ GiveUp(tab).pending = NONE
      BY <1>4 DEF GiveUp, SlotTable
    <2> QED
      BY <1>1, <1>4, <2>1 DEF BootDecide, Slots, NONE
  <1>5. CASE tab.pending \in Slots /\ ~Confirmed(tab, conf, ok) /\ ~Exhausted(tab, ok)
    <2>1. Attempt(tab).active = tab.active /\ Attempt(tab).pending = tab.pending
      BY <1>5 DEF Attempt, SlotTable
    <2> QED
      BY <1>5, <2>1 DEF BootDecide, Slots, NONE
  <1> QED
    BY <1>2, <1>3, <1>4, <1>5

(* The invariants of RecordProofs, together.                               *)
RecordInv == StoreKept /\ Phase /\ CommitIsOfSession /\ CommitPages

(* They are kept while sessions fit. *)
LEMMA RecordInvKept == Spec /\ []SessionFits => []RecordInv
  <1>1. Init => CommitIsOfSession /\ Phase /\ CommitPages
    BY PhaseInit DEF Init, CommitIsOfSession, CommitPages, FreshSession
  <1>2. /\ TypeOK /\ StoreKept /\ SessionFits /\ [Next]_vars
        /\ CommitIsOfSession /\ Phase /\ CommitPages
        => CommitIsOfSession' /\ Phase' /\ CommitPages'
    BY CommitStepKept, PhaseStep, PagesStep
  <1>3. StoreKept /\ CommitIsOfSession /\ Phase /\ CommitPages => RecordInv
    BY DEF RecordInv
  <1> QED
    BY <1>1, <1>2, <1>3, RecordKept, TypeCorrect, PTL DEF Spec

(* What a valid page holds after a step it held before, or it is the       *)
(* record in RAM.                                                          *)
LEMMA PagesMove ==
    ASSUME StoreKept, TypeOK, TypeOK', [StoreCall]_storeVars,
           NEW c \in 0 .. 1, Store!Valid(copies, c)'
    PROVE  \/ Store!Valid(copies, c) /\ copies'[c] = copies[c]
           \/ Store!Program /\ c = dest /\ copies'[c].body = table
  <1> USE DEF StoreKept, Store!StoreTypeOK, Store!Valid
  <1>1. CASE Store!Program
    <2>1. Store!NextRecord(meta).body = table
      BY DEF Store!NextRecord, Store!Record, table
    <2> QED
      BY <1>1, <2>1 DEF Store!Program
  <1>2. copies' = copies \/ copies' = [copies EXCEPT ![dest] = Bad] \/ Store!Program
    BY DEF StoreCall, storeVars, Store!Load, Store!Reconstruct, Store!Begin, Store!Erase,
           Store!EraseError, Store!ProgramError, Store!Return, Store!Crash
  <1> QED
    BY <1>1, <1>2

(* The record a restart would load is that of a valid page.                *)
LEMMA DurableIsValid ==
    ASSUME TypeOK
    PROVE  /\ HasDurable => /\ Store!Selected(copies) \in 0 .. 1
                             /\ Store!Valid(copies, Store!Selected(copies))
                             /\ Durable.body \in SlotTable
           /\ HasLoaded => HasDurable
  BY DEF TypeOK, Store!StoreTypeOK, Store!Record, HasDurable, Durable, HasLoaded, Store!HasValid,
         Store!Selected, Store!Valid

(* One step keeps what is pending beside what is active, on every page.    *)
LEMMA AlternatesStep ==
    ASSUME TypeOK, TypeOK', RecordInv, SessionFits, TrialsAlternate, [Next]_vars
    PROVE  TrialsAlternate'
  <1>1. [StoreCall]_storeVars
    BY StoreStep
  <1>2. ASSUME NEW c \in 0 .. 1, Store!Valid(copies, c)'
        PROVE  Alternates(copies'[c].body)
    <2>1. Store!Program => stage # "off"
      BY DEF Store!Program
    <2> QED
      BY <1>1, <1>2, <2>1, PagesMove DEF RecordInv, TrialsAlternate
  <1>3. ASSUME stage' # "off"
        PROVE  Alternates(table')
    <2>1. CASE LoadMetadata /\ table' = Durable.body
      <3>1. HasDurable
        BY <2>1 DEF LoadMetadata, Store!Load, HasDurable
      <3> QED
        BY <2>1, <3>1, DurableIsValid DEF TrialsAlternate, Durable
    <2>2. CASE ReconstructMetadata /\ table' = Reconstructed
      <3>1. Reconstructed.pending = NONE
        BY DEF Reconstructed
      <3> QED
        BY <2>2, <3>1 DEF Alternates
    <2>3. CASE Decide /\ table' = BootDecide(table, Received, [s \in Slots |-> Bootable(s)]).table
      <3>1. table \in SlotTable /\ stage # "off"
        BY <2>3 DEF Decide, Store!Begin, RecordInv, Phase, TypeOK, Store!StoreTypeOK, Store!Record,
                    table
      <3> QED
        BY <2>3, <3>1, DecisionAlternates DEF TrialsAlternate
    <2>4. CASE EndCommit
      BY <2>4, EndInstalls
    <2>5. CASE table' = table /\ (stage = "off" => stage' = "off")
      BY <1>3, <2>5 DEF TrialsAlternate
    <2> QED
      BY <2>1, <2>2, <2>3, <2>4, <2>5, TableMoves
  <1> QED
    BY <1>2, <1>3 DEF TrialsAlternate

(* One step keeps start-up on what a restart would find.                   *)
LEMMA DecidesStep ==
    ASSUME TypeOK, TypeOK', RecordInv, SessionFits, DecidesOnDurable, [Next]_vars
    PROVE  DecidesOnDurable'
  <1> SUFFICES ASSUME pc' \in {"reconstruct", "decide"}
               PROVE  /\ HasDurable' => Durable'.body = table'
                      /\ HasLoaded' => Loaded'.body = table'
    BY DEF DecidesOnDurable
  <1>1. StoreTypes
    BY TypeParts
  <1>2. CASE LoadMetadata
    BY <1>1, <1>2 DEF LoadMetadata, Store!Load, HasDurable, Durable, HasLoaded, Loaded, table
  <1>3. CASE ReconstructMetadata
    BY <1>1, <1>3 DEF ReconstructMetadata, Store!Reconstruct, HasDurable, HasLoaded, Store!HasValid,
                      StoreTypes, Store!StoreTypeOK
  <1>4. CASE Commit
    <2>1. pc = "reconstruct" /\ stage \in {"erase", "program"}
      BY <1>4 DEF Commit, CommitStep, bootVars, Store!Erase, Store!EraseError, Store!Program,
                  Store!ProgramError, RecordInv, Phase
    <2>2. [StoreCall]_storeVars /\ table' = table /\ metaCopy' = metaCopy
      BY <1>4, StoreStep, TableMoves, <2>1
         DEF Commit, CommitStep, Store!Erase, Store!EraseError, Store!Program, Store!ProgramError,
             LoadMetadata, ReconstructMetadata, Decide, Command
    <2>3. HasDurable' => Durable'.body = table
      BY <2>1, <2>2, DurableMoves
         DEF RecordInv, DecidesOnDurable, HasLoaded, Loaded, HasDurable, Durable
    <2>4. HasLoaded' => Loaded'.body = table
      <3>1. metaCopy \in 0 .. 1 /\ metaCopy' = metaCopy
        BY <1>1, <2>2 DEF StoreTypes, Store!StoreTypeOK
      <3>2. HasLoaded' => Store!Valid(copies, metaCopy)'
        BY <3>1 DEF HasLoaded, Store!Valid
      <3> QED
        BY <2>1, <2>2, <3>1, <3>2, PagesMove DEF RecordInv, DecidesOnDurable, HasLoaded, Loaded
    <2> QED
      BY <2>2, <2>3, <2>4
  <1>5. CASE CommitReturns
    BY <1>5 DEF CommitReturns, Store!Return, DecidesOnDurable, HasDurable, Durable, HasLoaded,
                Loaded, Store!Valid, table
  <1>6. CASE UNCHANGED vars
    BY <1>6 DEF vars, sessionVars, bootVars, DecidesOnDurable, HasDurable, Durable, HasLoaded,
                Loaded, Store!Valid, table
  <1> QED
    BY <1>2, <1>3, <1>4, <1>5, <1>6
       DEF Next, Decide, Command, SessionTimeout, EndReturns, Jump, ReadyReset, HostReset,
           AppConfirm, CrashReset, Reset, Restart, bootVars

(* A slot is decided on by the decision alone, and the active slot and the *)
(* page of the record are the same from then on.                           *)
LEMMA DecidedBefore ==
    ASSUME TypeOK, InWindow', [Next]_vars, ~Decide
    PROVE  /\ InWindow /\ run' = run
           /\ table'.active = table.active /\ metaCopy' = metaCopy
  <1>1. /\ InWindow /\ run' = run
        /\ ~LoadMetadata /\ ~ReconstructMetadata
        /\ ~ReadyReset /\ ~HostReset /\ ~AppConfirm /\ ~CrashReset
    BY DEF InWindow, Next, LoadMetadata, ReconstructMetadata, Commit, CommitReturns, Command,
           SessionTimeout, EndReturns, Jump, ReadyReset, HostReset, AppConfirm, CrashReset,
           Reset, Restart, vars, bootVars
  <1>2. table'.active = table.active
    BY <1>1, TableMoves, CommandTable
  <1>3. metaCopy' = metaCopy
    <2>1. Command => metaCopy' = metaCopy
      BY DEF Command, NoEffect, Abort, Start, StartRejected, StartFlashError, StartAccepted,
             Data, DataRejected, DataRefused, DataStored, DataSpoilt, DataBeyond,
             End, EndRejected, EndUnverified, EndHeaderError, EndCommit, Store!Begin, storeUnchanged
    <2> QED
      BY <1>1, <2>1
         DEF Next, Commit, CommitStep, CommitReturns, SessionTimeout, Timeout, EndReturns, EndDone,
             EndFailed, Jump, Store!Erase, Store!EraseError, Store!Program, Store!ProgramError,
             Store!Return, storeUnchanged, vars, sessionVars
  <1> QED
    BY <1>1, <1>2, <1>3

(* The decision runs a whole image, by the table it leaves in RAM.         *)
LEMMA DecideStep ==
    ASSUME TypeOK, RecordInv, TrialsAlternate, Decide
    PROVE  LET d == BootDecide(table, Received, [s \in Slots |-> Bootable(s)]) IN
           /\ table \in SlotTable /\ Alternates(table)
           /\ run' = d.run /\ table' = d.table
           /\ run' \in Slots => Bootable(run')
           /\ UNCHANGED <<hdr, area, copies, metaCopy, earned, jumps, faults>>
  <1> DEFINE ok == [s \in Slots |-> Bootable(s)]
             d == BootDecide(table, Received, ok)
  <1>1. table \in SlotTable /\ meta \in Store!Record
    BY DEF TypeOK, Store!StoreTypeOK, Store!Record, table
  <1>2. run' = d.run /\ UNCHANGED <<hdr, area, earned, jumps, faults>> /\ pc = "decide"
    BY DEF Decide
  <1>3. Alternates(table)
    BY <1>2 DEF RecordInv, Phase, TrialsAlternate
  <1>4. d.run \in Slots => ok[d.run]
    BY DecisionProbed
  <1>5. table' = d.table /\ UNCHANGED <<copies, metaCopy>>
    <2>1. ~d.commit => d.table = table
      BY DEF BootDecide
    <2>2. CASE d.commit /\ Store!Begin(d.table)
      <3> HIDE DEF d
      <3> QED
        BY <1>1, <2>2 DEF Store!Begin, Store!Record, table
    <2>3. CASE ~d.commit /\ storeUnchanged
      BY <2>1, <2>3 DEF storeUnchanged, table
    <2> QED
      BY <2>2, <2>3 DEF Decide
  <1> HIDE DEF d
  <1>6. run' \in Slots => Bootable(run')
    BY <1>2, <1>4
  <1> QED
    BY <1>1, <1>2, <1>3, <1>5, <1>6 DEF d

(* One step keeps the running active slot linked for its place.            *)
LEMMA LinkedStep ==
    ASSUME TypeOK, RecordInv, TrialsAlternate, ActiveIsLinked, [Next]_vars
    PROVE  ActiveIsLinked'
  <1> SUFFICES ASSUME Decided', run' = table'.active
               PROVE  VectorValid(area'[run'], run')
    BY DEF ActiveIsLinked
  <1>1. run' \in Slots
    BY DEF Decided
  <1>2. CASE Decide
    <2>1. Bootable(run') /\ area' = area
      BY <1>1, <1>2, DecideStep
    <2> QED
      BY <2>1 DEF Bootable, ImageValid
  <1>3. CASE ~Decide
    <2>1. Decided /\ run' = run /\ run = table.active
      BY <1>1, <1>3, DecidedBefore DEF Decided
    <2>2. area'[run] = area[run]
      BY <1>1, <2>1, ProtectedStep, OneWritable
    <2> QED
      BY <2>1, <2>2 DEF ActiveIsLinked
  <1> QED
    BY <1>2, <1>3

(* One step keeps a running slot that is not active the one on trial.      *)
LEMMA OtherStep ==
    ASSUME TypeOK, TypeOK', RecordInv, SessionFits, TrialsAlternate, DecidesOnDurable, OtherOnTrial,
           [Next]_vars
    PROVE  OtherOnTrial'
  <1> SUFFICES ASSUME Decided', run' # table'.active
               PROVE  /\ run' = Other(table'.active)
                      /\ HasDurable' => Durable'.body.active = table'.active
                      /\ HasLoaded' => Loaded'.body.active = table'.active
    BY DEF OtherOnTrial
  <1>1. run' \in Slots
    BY DEF Decided
  <1>2. CASE Decide
    <2>1. /\ run' = Other(table.active) /\ table'.active = table.active
          /\ copies' = copies /\ metaCopy' = metaCopy
      BY <1>1, <1>2, DecideStep, DecisionAlternates
    <2>2. pc = "decide"
      BY <1>2 DEF Decide
    <2> QED
      BY <2>1, <2>2 DEF DecidesOnDurable, HasDurable, Durable, HasLoaded, Loaded, Store!Valid
  <1>3. CASE ~Decide
    <2>1. /\ Decided /\ run' = run /\ run # table.active
          /\ table'.active = table.active /\ metaCopy' = metaCopy
      BY <1>1, <1>3, DecidedBefore DEF Decided
    <2>2. /\ run = Other(table.active)
          /\ HasDurable => Durable.body.active = table.active
          /\ HasLoaded => Loaded.body.active = table.active
      BY <2>1 DEF OtherOnTrial
    <2>3. [StoreCall]_storeVars
      BY StoreStep
    <2>4. HasDurable' => Durable'.body.active = table.active
      BY <2>2, <2>3, DurableMoves DEF RecordInv, HasDurable, Durable, HasLoaded, Loaded
    <2>5. HasLoaded' => Loaded'.body.active = table.active
      <3>1. metaCopy \in 0 .. 1
        BY DEF TypeOK, Store!StoreTypeOK
      <3>2. HasLoaded' => Store!Valid(copies, metaCopy)'
        BY <2>1 DEF HasLoaded, Store!Valid
      <3> QED
        BY <2>1, <2>2, <2>3, <3>1, <3>2, PagesMove DEF RecordInv, HasLoaded, Loaded
    <2> QED
      BY <2>1, <2>2, <2>4, <2>5
  <1> QED
    BY <1>2, <1>3

(* What is earned stays so outside the window, where no header is written. *)
LEMMA EarnedKept ==
    ASSUME TypeOK, [Next]_vars, pc \in {"reset", "reconstruct", "decide"}
    PROVE  earned' = earned
  <1>1. ~(Command \/ SessionTimeout \/ EndReturns \/ Jump \/ ReadyReset \/ HostReset \/ AppConfirm)
    BY DEF Command, SessionTimeout, EndReturns, Jump, ReadyReset, HostReset, AppConfirm
  <1>2. CASE LoadMetadata \/ ReconstructMetadata \/ Commit \/ CommitReturns \/ UNCHANGED vars
    BY <1>2 DEF LoadMetadata, ReconstructMetadata, Commit, CommitReturns, historyVars, bootVars, vars
  <1>3. CASE Decide
    BY <1>3 DEF Decide
  <1>4. CASE CrashReset
    <2>1. hdr' = hdr /\ SessionHistory
      BY <1>4 DEF CrashReset, TornSlot
    <2>2. earned \in [Slots -> BOOLEAN]
      BY TypeParts DEF HistoryTypes
    <2>3. earned' = [s \in Slots |-> earned[s]]
      BY <2>1, <2>2, Zenon DEF SessionHistory
    <2> QED
      BY <2>2, <2>3
  <1> QED
    BY <1>1, <1>2, <1>3, <1>4 DEF Next

(* One step keeps confirmations earned.  A build linked for the slot that  *)
(* does not run cannot run there as the active image, and next to an       *)
(* active image the slot it names is not pending.                          *)
LEMMA MailStep ==
    ASSUME TypeOK, TypeOK', RecordInv, SessionFits, TrialInv, [Next]_vars
    PROVE  MailEarned'
  <1> SUFFICES ASSUME mailbox' # Blank, mailbox'.magic = "CONFIRM"
               PROVE  /\ pc' \in {"reset", "reconstruct", "decide"}
                      /\ \/ earned'[mailbox'.slot]
                         \/ ~HasDurable'
                         \/ Durable'.body.pending # mailbox'.slot
    BY DEF MailEarned
  <1>1. CASE AppConfirm
    <2> DEFINE p == area[running][0]
    <2>1. /\ p \in Payload /\ LinkSlot[p] \in Slots
          /\ pc' = "reset" /\ mailbox'.slot = LinkSlot[p]
          /\ earned' = [earned EXCEPT ![running] = TRUE]
      BY <1>1, BootloaderAssumption, LinkSlotAssumption DEF AppConfirm, Reset, Restart
    <2>2. Decided /\ running = run /\ earned \in [Slots -> BOOLEAN]
      BY <1>1, TypeParts DEF AppConfirm, RecordInv, Phase, Decided, InWindow, HistoryTypes
    <2> HIDE DEF p
    <2>3. CASE LinkSlot[p] = run
      BY <2>1, <2>2, <2>3 DEF Decided
    <2>4. CASE LinkSlot[p] # run
      <3>1. run # table.active
        BY <2>2, <2>4 DEF TrialInv, ActiveIsLinked, VectorValid, p
      <3>2. /\ run = Other(table.active)
            /\ HasDurable => Durable.body.active = table.active
        BY <2>2, <3>1 DEF TrialInv, OtherOnTrial
      <3>3. HasDurable => Alternates(Durable.body)
        BY DurableIsValid DEF TrialInv, TrialsAlternate, Durable
      <3>4. HasDurable => Durable.body.pending # LinkSlot[p]
        BY <2>1, <2>4, <3>2, <3>3 DEF Alternates, Slots, NONE
      <3>5. /\ HasDurable' => HasDurable
            /\ HasDurable' => Durable'.body = Durable.body
        <4>1. stage = "ready"
          BY <1>1 DEF AppConfirm, RecordInv, Phase
        <4> QED
          BY <1>1, <4>1 DEF AppConfirm, Reset, Store!Crash, HasDurable, Durable
      <3> QED
        BY <2>1, <3>4, <3>5
    <2> QED
      BY <2>3, <2>4
  <1>2. CASE ~AppConfirm
    <2>1. mailbox' \in {mailbox, Blank} \/ (Decide /\ mailbox'.magic # "CONFIRM")
      <3>1. Decide => mailbox' = mailbox \/ mailbox'.magic # "CONFIRM"
        <4>1. mailbox \in Mail \cup {Blank}
          BY DEF TypeOK
        <4> QED
          BY <4>1 DEF Decide, Received, Mail
      <3> QED
        BY <1>2, <3>1
           DEF Next, LoadMetadata, ReconstructMetadata, Commit, CommitReturns, Command,
               SessionTimeout, EndReturns, Jump, ReadyReset, HostReset, CrashReset, Reset,
               Restart, vars, bootVars
    <2>2. /\ mailbox' = mailbox
          /\ pc \in {"reset", "reconstruct", "decide"}
          /\ earned[mailbox.slot] \/ ~HasDurable \/ Durable.body.pending # mailbox.slot
      BY <2>1 DEF TrialInv, MailEarned
    <2>3. earned' = earned
      BY <2>2, EarnedKept
    <2>4. ~Decide
      <3>1. mailbox \in Mail \cup {Blank}
        BY DEF TypeOK
      <3> QED
        BY <2>2, <3>1 DEF Decide, Received, Mail
    <2>5. pc' \in {"reset", "reconstruct", "decide"}
      BY <2>2, <2>4
         DEF Next, LoadMetadata, ReconstructMetadata, Commit, CommitReturns, Command, AppConfirm,
             SessionTimeout, EndReturns, Jump, ReadyReset, HostReset, CrashReset, Reset,
             Restart, vars, bootVars
    <2>6. CASE pc = "reconstruct"
      <3>1. table.pending = NONE /\ NONE \notin Slots /\ mailbox \in Mail
        BY <2>2, <2>6 DEF RecordInv, CommitPages, Slots, NONE, TypeOK
      <3>2. [StoreCall]_storeVars
        BY StoreStep
      <3>3. HasDurable' => Durable'.body = table
        BY <2>6, <3>2, DurableMoves
           DEF RecordInv, TrialInv, DecidesOnDurable, HasDurable, Durable, HasLoaded, Loaded
      <3>4. mailbox.slot \in Slots
        BY <3>1 DEF Mail
      <3> QED
        BY <2>2, <2>5, <3>1, <3>3, <3>4
    <2>7. CASE pc \in {"reset", "decide"}
      <3>1. stage \in {"off", "ready"}
        BY <2>7 DEF RecordInv, Phase
      <3>2. copies' = copies
        BY <2>4, <2>7, <3>1
           DEF Next, LoadMetadata, ReconstructMetadata, Commit, CommitStep, CommitReturns, Command,
               AppConfirm, SessionTimeout, EndReturns, Jump, ReadyReset, HostReset, CrashReset,
               Reset, TornSlot, vars, sessionVars, Store!Load, Store!Reconstruct, Store!Erase,
               Store!EraseError, Store!Program, Store!ProgramError, Store!Return, Store!Crash
      <3> QED
        BY <2>2, <2>3, <2>5, <3>2 DEF HasDurable, Durable
    <2> QED
      BY <2>2, <2>6, <2>7
  <1> QED
    BY <1>1, <1>2

(* What start-up and confirmations rest on is kept while sessions fit.     *)
LEMMA TrialKept == Spec /\ []SessionFits => [](RecordInv /\ TrialInv)
  <1>1. Init => TrialInv
    BY DEF Init, TrialInv, TrialsAlternate, DecidesOnDurable, ActiveIsLinked, OtherOnTrial,
           MailEarned, Decided, InWindow, Store!Valid
  <1>2. TypeOK /\ TypeOK' /\ RecordInv /\ SessionFits /\ TrialInv /\ [Next]_vars => TrialInv'
    BY AlternatesStep, DecidesStep, LinkedStep, OtherStep, MailStep DEF TrialInv
  <1> QED
    BY <1>1, <1>2, RecordInvKept, TypeCorrect, PTL DEF Spec

(* Only an image that has itself called boot_confirm, or was there from    *)
(* the factory, is made active, whatever a confirmation left in SRAM by    *)
(* another image or an earlier one says, and whatever flash fails.         *)
THEOREM PromotionIsEarned == Spec /\ []SessionFits => PromotionEarned
  <1> DEFINE step == \A s \in Slots :
          pc = "decide" /\ table.active # s /\ table'.active = s => earned[s]
  <1>1. ASSUME TypeOK, RecordInv, TrialInv, [Next]_vars
        PROVE  step
    <2> SUFFICES ASSUME NEW s \in Slots, pc = "decide", table.active # s, table'.active = s
                 PROVE  earned[s]
      OBVIOUS
    <2>1. Decide
      BY <1>1, TableMoves DEF LoadMetadata, ReconstructMetadata, Command
    <2>2. /\ table.pending = s
          /\ Confirmed(table, Received, [t \in Slots |-> Bootable(t)])
      BY <1>1, <2>1, DecideStep, DecisionAlternates DEF TrialInv
    <2>3. mailbox # Blank /\ mailbox.magic = "CONFIRM" /\ mailbox.slot = s
      BY <2>2 DEF Confirmed, Received
    <2>4. HasLoaded
      BY <1>1, <2>2 DEF RecordInv, CommitPages
    <2>5. HasDurable /\ Durable.body.pending = s
      BY <1>1, <2>2, <2>4, DurableIsValid DEF TrialInv, DecidesOnDurable
    <2> QED
      BY <1>1, <2>3, <2>5 DEF TrialInv, MailEarned
  <1>2. TypeOK /\ (RecordInv /\ TrialInv) /\ [Next]_vars => [step]_vars
    BY <1>1
  <1>3. Spec /\ []SessionFits => [][step]_vars
    BY <1>2, TrialKept, TypeCorrect, PTL DEF Spec
  <1> QED
    BY <1>3 DEF PromotionEarned

-----------------------------------------------------------------------------
(* An update that is answered.                                             *)

(* Until a flash operation fails, an open session finds its header page    *)
(* erased,                                                                 *)
ErasedUnderSession ==
    faults = 0 /\ pc = "loop" /\ stage = "ready" /\ upd.state = "RECEIVING" =>
        \A s \in Slots : Writable(s) => hdr[s] = Erased

(* and once END begins its commit the image is pending, has never run      *)
InstallIsPending ==
    faults = 0 /\ Installing =>
        LET s == upd.header.target IN
        s \in Slots /\ Writable(s) /\ table.pending = s /\ jumps[s] = 0

(* and is whole.                                                           *)
InstallIsWhole == faults = 0 /\ Installing => Bootable(upd.header.target)

(* A command that no fault hits leaves the header page of an open session  *)
(* erased until END.                                                       *)
LEMMA CommandErased ==
    ASSUME TypeOK, SessionFits, Command, faults' = faults, stage' = "ready",
           upd.state = "RECEIVING", NEW s \in Slots, hdr[s] = Erased
    PROVE  hdr'[s] = Erased
  <1>1. SessionTypes /\ StoreTypes /\ \A len \in Lengths : len \in Nat
    BY TypeParts, BootloaderAssumption, BlUpdateAssumption
  <1>2. \A kind : ~Fault(kind)
    BY <1>1, BlUpdateAssumption DEF Fault, SessionTypes
  <1>3. PICK r \in Reply :
          \/ NoEffect(r)
          \/ Abort(r)
          \/ \E h \in Headers, seq \in 0 .. SeqMod - 1 : Start(h, seq, r)
          \/ \E seq \in 0 .. SeqMod - 1, len \in Lengths, b \in Contents : Data(seq, len, b, r)
          \/ End(r)
    BY DEF Command
  <1>4. CASE NoEffect(r) \/ Abort(r)
    BY <1>4 DEF NoEffect, Abort, flashUnchanged
  <1>5. ASSUME NEW h \in Headers, NEW seq \in 0 .. SeqMod - 1, Start(h, seq, r)
        PROVE  hdr'[s] = Erased
    <2>1. hdr' = hdr \/ hdr' = [hdr EXCEPT ![h.target] = Erased]
      BY <1>2, <1>5 DEF Start, StartRejected, StartFlashError, StartAccepted, flashUnchanged
    <2> QED
      BY <1>1, <2>1 DEF SessionTypes
  <1>6. ASSUME NEW seq \in 0 .. SeqMod - 1, NEW len \in Lengths, NEW b \in Contents,
               Data(seq, len, b, r)
        PROVE  hdr'[s] = Erased
    BY <1>1, <1>6, DataConfined
  <1>7. CASE End(r)
    <2>1. ~EndCommit
      BY DEF EndCommit, Store!Begin
    <2>2. CASE EndRejected(r) \/ EndUnverified(r)
      BY <2>2 DEF EndRejected, EndUnverified, flashUnchanged
    <2>3. CASE EndHeaderError(r)
      <3> DEFINE t == Addressed(upd.header)
      <3>1. /\ hdr' = [hdr EXCEPT ![t] = Junk]
            /\ Junk \in HeaderAfterProgram(hdr[t], upd.header)
            /\ upd.header \in Header
        BY <1>1, <1>2, <2>3
           DEF EndHeaderError, HeaderProgrammable, Complete, SessionTypes, OpenSession
      <3>2. s = t => FALSE
        BY <3>1, HeaderContentAssumption DEF HeaderAfterProgram
      <3> QED
        BY <1>1, <3>1, <3>2 DEF SessionTypes
    <2> QED
      BY <1>7, <2>1, <2>2, <2>3 DEF End
  <1> QED
    BY <1>3, <1>4, <1>5, <1>6, <1>7

(* One step keeps it erased.                                               *)
LEMMA ErasedStep ==
    ASSUME TypeOK, RecordInv, InSync, SessionFits, ErasedUnderSession, [Next]_vars
    PROVE  ErasedUnderSession'
  <1> SUFFICES ASSUME faults' = 0, pc' = "loop", stage' = "ready", upd'.state = "RECEIVING",
                      NEW s \in Slots, Writable(s)'
               PROVE  hdr'[s] = Erased
    BY DEF ErasedUnderSession
  <1>1. faults = 0 /\ stage # "failed"
    BY FaultStep DEF InSync
  <1>2. CASE Command
    <2>1. Writable(s) /\ pc = "loop" /\ stage = "ready"
      BY <1>2, CommandTable, CommandStage
    <2>2. CASE upd.state # "RECEIVING"
      BY <1>2, <2>1, <2>2, OpensErased
    <2>3. CASE upd.state = "RECEIVING"
      BY <1>1, <1>2, <2>1, <2>3, CommandErased DEF ErasedUnderSession
    <2> QED
      BY <2>2, <2>3
  <1>3. CASE UNCHANGED vars
    BY <1>3 DEF vars, sessionVars, bootVars, ErasedUnderSession, Writable, table
  <1> QED
    BY <1>1, <1>2, <1>3, SessionStep DEF RecordInv

(* END begins an installation, and until the reset nothing changes it.     *)
LEMMA InstallingStep ==
    ASSUME TypeOK, RecordInv, [Next]_vars, Installing'
    PROVE  \/ Command /\ EndCommit
           \/ Installing /\ upd'.header = upd.header /\ UNCHANGED <<table, hdr, area, jumps>>
  <1>1. CASE LoadMetadata \/ ReconstructMetadata \/ Jump \/ ReadyReset \/ HostReset \/ AppConfirm
             \/ CrashReset
    BY <1>1 DEF LoadMetadata, ReconstructMetadata, Jump, ReadyReset, HostReset, AppConfirm,
                CrashReset, Reset, Restart, Installing
  <1>2. CASE Commit
    <2>1. UNCHANGED <<pc, upd, hdr, area, jumps>> /\ stage # "ready" /\ table' = table
      BY <1>2, TableMoves
         DEF Commit, CommitStep, bootVars, historyVars, Store!Erase, Store!EraseError, Store!Program,
             Store!ProgramError, LoadMetadata, ReconstructMetadata, Decide, Command, EndCommit,
             RecordInv, Phase, Store!Load, Store!Reconstruct, HeaderProgrammable, Listening
    <2> QED
      BY <2>1 DEF Installing
  <1>3. CASE CommitReturns
    <2>1. upd' = upd /\ upd.state = "IDLE" /\ stage' = "ready"
      BY <1>3, TypeParts DEF CommitReturns, Store!Return, RecordInv, Phase
    <2> QED
      BY <2>1 DEF Installing
  <1>4. CASE Decide
    BY <1>4 DEF Decide, RecordInv, Phase, FreshSession, storeUnchanged, Installing
  <1>5. CASE Command
    <2>1. upd.state # "READY_TO_BOOT" /\ stage = "ready"
      BY <1>5, CommandStage
         DEF Command, NoEffect, Abort, Start, StartRejected, StartFlashError,
             StartAccepted, StartAcceptable, Data, DataRejected, DataRefused, DataStored, DataSpoilt,
             DataBeyond, DataAcceptable, End, EndRejected, EndUnverified, EndHeaderError, EndCommit,
             HeaderProgrammable, Listening
    <2>2. stage' = "ready" \/ EndCommit
      BY <1>5, <2>1
         DEF Command, NoEffect, Abort, Start, StartRejected, StartFlashError, StartAccepted,
             Data, DataRejected, DataRefused, DataStored, DataSpoilt, DataBeyond,
             End, EndRejected, EndUnverified, EndHeaderError, storeUnchanged
    <2>3. upd'.state # "READY_TO_BOOT"
      <3>1. upd \in Session
        BY TypeParts DEF SessionTypes, OpenSession
      <3>2. \A h : HeaderReceived(h) => upd'.state = upd.state
        BY <3>1 DEF HeaderReceived, Session
      <3>3. \A seq, len, b : upd' = DataReceived(seq, len, b) => upd'.state = upd.state
        BY <3>1 DEF DataReceived, Session
      <3> QED
        BY <1>5, <2>1, <3>2, <3>3
           DEF Command, NoEffect, Abort, Start, StartRejected, StartFlashError,
               StartAccepted, Data, DataRejected, DataRefused, DataStored, DataSpoilt,
               DataBeyond, End, EndRejected, EndUnverified, EndHeaderError, EndCommit, Opened,
               FreshSession
    <2> QED
      BY <1>5, <2>2, <2>3 DEF Installing
  <1>6. CASE SessionTimeout
    BY <1>6 DEF SessionTimeout, Timeout, Listening, storeUnchanged, FreshSession, Installing
  <1>7. CASE EndReturns
    <2>1. /\ UNCHANGED <<meta, hdr, area, jumps>> /\ pc = "loop"
          /\ stage # "ready" /\ stage' = "ready"
          /\ upd' = upd \/ upd' = [upd EXCEPT !.state = "READY_TO_BOOT"]
      BY <1>7 DEF EndReturns, EndDone, EndFailed, Store!Return, flashUnchanged, historyVars
    <2>2. upd'.header = upd.header
      BY <2>1, TypeParts DEF SessionTypes, OpenSession, Session
    <2> QED
      BY <2>1, <2>2 DEF Installing, table
  <1>8. CASE UNCHANGED vars
    BY <1>8 DEF vars, sessionVars, bootVars, historyVars, Installing, table
  <1> QED
    BY <1>1, <1>2, <1>3, <1>4, <1>5, <1>6, <1>7, <1>8 DEF Next

(* Without faults END programs the header it has been announced.           *)
LEMMA EndPrograms ==
    ASSUME TypeOK, ErasedUnderSession, Command, EndCommit, faults = 0, faults' = 0
    PROVE  LET s == upd.header.target IN
           /\ s \in Slots /\ Writable(s)
           /\ hdr'[s] = upd.header /\ hdr'[s] # hdr[s]
           /\ area' = area /\ upd' = upd
           /\ jumps'[s] = 0
  <1> DEFINE s == upd.header.target
  <1>1. SessionTypes /\ upd.header \in Header
    BY TypeParts DEF EndCommit, HeaderProgrammable, Complete, SessionTypes, OpenSession
  <1>2. s \in Slots /\ Writable(s) /\ Addressed(upd.header) = s
    BY EndInstalls
  <1>3. hdr[s] = Erased
    BY <1>2 DEF ErasedUnderSession, Command, EndCommit, HeaderProgrammable, Complete, Listening
  <1> HIDE DEF s
  <1>4. ~Fault("silent")
    BY DEF Fault
  <1>5. hdr' = [hdr EXCEPT ![s] = upd.header]
    BY <1>2, <1>3, <1>4 DEF EndCommit, HeaderAfterProgram
  <1>6. hdr'[s] = upd.header /\ hdr'[s] # hdr[s]
    BY <1>1, <1>2, <1>3, <1>5, HeaderContentAssumption DEF SessionTypes
  <1>7. jumps'[s] = 0
    BY <1>2, <1>6 DEF Command, SessionHistory
  <1> QED
    BY <1>2, <1>6, <1>7 DEF EndCommit, s

(* One step keeps what END installs pending and whole.                     *)
LEMMA InstallStep ==
    ASSUME TypeOK, RecordInv, ErasedUnderSession, InstallIsPending, [Next]_vars
    PROVE  /\ InstallIsPending'
           /\ SessionSound /\ InstallIsWhole => InstallIsWhole'
  <1> SUFFICES ASSUME faults' = 0, Installing'
               PROVE  /\ (LET s == upd.header.target IN
                           s \in Slots /\ Writable(s) /\ table.pending = s /\ jumps[s] = 0)'
                      /\ SessionSound /\ InstallIsWhole => Bootable(upd.header.target)'
    BY DEF InstallIsPending, InstallIsWhole
  <1>1. faults = 0
    BY FaultStep
  <1>2. CASE Command /\ EndCommit
    <2> DEFINE s == upd.header.target
    <2>1. /\ s \in Slots /\ hdr'[s] = upd.header /\ area' = area /\ upd' = upd
          /\ jumps'[s] = 0 /\ Writable(s)
      BY <1>1, <1>2, EndPrograms
    <2>2. table' = Install(table, upd.header) /\ table \in SlotTable
      BY <1>2, EndInstalls DEF TypeOK, Store!StoreTypeOK, Store!Record, table
    <2>3. table'.pending = s /\ table'.active = table.active
      BY <2>2 DEF Install, SlotTable
    <2>4. Writable(s)'
      BY <2>1, <2>3 DEF Writable
    <2>5. SessionSound => Bootable(s)'
      <3>1. upd.header \in Header /\ Addressed(upd.header) = s
        BY <1>2, EndInstalls
      <3>2. Verified /\ upd.state = "RECEIVING"
        BY <1>2 DEF EndCommit, HeaderProgrammable, Complete
      <3>3. SessionSound => HeaderValid(upd.header, s)
        BY <2>1, <3>2 DEF SessionSound, SessionFits, HeaderValid
      <3> QED
        BY <2>1, <3>1, <3>2, <3>3 DEF Bootable, ImageValid, Verified
    <2> QED
      BY <2>1, <2>3, <2>4, <2>5
  <1>3. CASE Installing /\ upd'.header = upd.header /\ UNCHANGED <<table, hdr, area, jumps>>
    BY <1>1, <1>3 DEF InstallIsPending, InstallIsWhole, Writable, Bootable
  <1> QED
    BY <1>2, <1>3, InstallingStep

InstallInv == ErasedUnderSession /\ InstallIsPending

(* What END installs is kept pending and untouched, *)
LEMMA InstallKept == Spec /\ []SessionFits => [](RecordInv /\ InSync /\ InstallInv)
  <1>1. Init => InSync /\ InstallInv
    BY DEF Init, InSync, InstallInv, ErasedUnderSession, InstallIsPending, Installing
  <1>2. TypeOK /\ TypeOK' /\ RecordInv /\ SessionFits /\ InSync /\ InstallInv /\ [Next]_vars
           => InSync' /\ InstallInv'
    BY StoreStep, InSyncStep, ErasedStep, InstallStep DEF RecordInv, InstallInv
  <1> QED
    BY <1>1, <1>2, RecordInvKept, TypeCorrect, PTL DEF Spec

(* and whole, when no damaged header has taken the place of the session's. *)
LEMMA WholeKept == Spec /\ []SessionSound => []InstallIsWhole
  <1>1. Init => InstallIsWhole
    BY DEF Init, InstallIsWhole, Installing
  <1>2. TypeOK /\ RecordInv /\ InstallInv /\ SessionSound /\ InstallIsWhole /\ [Next]_vars
           => InstallIsWhole'
    BY InstallStep DEF InstallInv
  <1>3. SessionSound => SessionFits
    BY DEF SessionSound
  <1> QED
    BY <1>1, <1>2, <1>3, InstallKept, TypeCorrect, PTL DEF Spec

(* Until a flash operation fails, an END that is acknowledged has left a   *)
(* whole image in the slot it announced, pending in the record that a      *)
(* restart loads, whatever came between START and END.                     *)
THEOREM EndIsInstalled == Spec /\ []SessionSound => [](faults = 0 => EndLeavesValidImage)
  <1>1. RecordInv /\ InSync /\ InstallInv /\ InstallIsWhole => (faults = 0 => EndLeavesValidImage)
    <2> SUFFICES ASSUME RecordInv, InSync, InstallInv, InstallIsWhole, faults = 0,
                        upd.state = "READY_TO_BOOT"
                 PROVE  /\ Bootable(upd.header.target)
                        /\ HasDurable /\ Durable.body.pending = upd.header.target
      BY DEF EndLeavesValidImage
    <2>1. pc = "loop" /\ stage = "ready" /\ Installing
      BY DEF RecordInv, Phase, CommitIsOfSession, Complete, Installing
    <2> QED
      BY <2>1 DEF InSync, InstallInv, InstallIsPending, InstallIsWhole
  <1>2. SessionSound => SessionFits
    BY DEF SessionSound
  <1> QED
    BY <1>1, <1>2, InstallKept, WholeKept, PTL

-----------------------------------------------------------------------------
(* There is always an image to boot.                                       *)

ActiveBootable(tab) == tab.active \in Slots => Bootable(tab.active)

(* Until a flash operation fails, the active slot of every record that     *)
(* start-up may come to load or has loaded holds an image: the one a       *)
(* restart would load now, the one in RAM and, while a commit erases the   *)
(* other page, the one loaded.  This last may call active the slot an      *)
(* update has just been installed in.                                      *)
ActiveIsBootable ==
    faults = 0 =>
        /\ HasDurable => ActiveBootable(Durable.body)
        /\ stage # "off" => ActiveBootable(table)
        /\ stage \in {"erase", "program"} /\ HasLoaded => ActiveBootable(Loaded.body)

(* No decision makes the device one without an active slot.                *)
ActiveStays ==
    pc \in {"commit", "loop"} /\ HasLoaded /\ Loaded.body.active \in Slots =>
        table.active \in Slots

(* Nothing touches the image of the active slot, or any image while start- *)
(* up runs or a commit is under way.                                       *)
LEMMA ImageKept ==
    ASSUME TypeOK, RecordInv, [Next]_vars, NEW s \in Slots, Bootable(s),
           s = table.active \/ pc # "loop" \/ stage # "ready"
    PROVE  Bootable(s)'
  <1>1. CASE s = table.active
    <2>1. hdr'[s] = hdr[s] /\ area'[s] = area[s]
      BY <1>1, OneWritable, ProtectedStep
    <2> QED
      BY <2>1 DEF Bootable
  <1>2. CASE pc # "loop" \/ stage # "ready"
    <2>1. hdr' = hdr /\ area' = area
      BY <1>2, SlotsUnchanged, CommandStage DEF CrashReset, TornSlot, Listening
    <2> QED
      BY <2>1 DEF Bootable
  <1> QED
    BY <1>1, <1>2

(* One step keeps an active slot once there is one.                        *)
LEMMA ActiveStaysStep ==
    ASSUME TypeOK, TypeOK', RecordInv, SessionFits, TrialInv, ActiveStays, [Next]_vars
    PROVE  ActiveStays'
  <1> SUFFICES ASSUME pc' \in {"commit", "loop"}, HasLoaded', Loaded'.body.active \in Slots
               PROVE  table'.active \in Slots
    BY DEF ActiveStays
  <1>1. CASE Decide
    <2>1. HasLoaded /\ Loaded.body = table
      BY <1>1, DecideStep
         DEF TrialInv, DecidesOnDurable, HasLoaded, Loaded, Store!Valid, Decide
    <2>2. Loaded' = Loaded
      BY <1>1, DecideStep DEF TrialInv, Loaded
    <2>3. table'.active # table.active => table.pending \in Slots /\ table'.active = table.pending
      BY <1>1, DecideStep, DecisionAlternates DEF TrialInv
    <2> QED
      BY <2>1, <2>2, <2>3
  <1>2. CASE ~Decide
    <2>1. InWindow /\ table'.active = table.active /\ metaCopy' = metaCopy
      BY <1>2, DecidedBefore DEF InWindow
    <2>2. pc \in {"commit", "loop"}
      BY <1>2, <2>1
         DEF InWindow, Next, LoadMetadata, ReconstructMetadata, Commit, CommitReturns, Command,
             SessionTimeout, EndReturns, Jump, ReadyReset, HostReset, AppConfirm, CrashReset,
             Reset, Restart, vars, bootVars
    <2>3. metaCopy \in 0 .. 1 /\ Store!Valid(copies, metaCopy)'
      BY <2>1 DEF TypeOK, Store!StoreTypeOK, HasLoaded, Store!Valid
    <2>4. Store!Program => metaCopy # dest
      BY <2>2, <2>3 DEF Store!Program, RecordInv, CommitPages
    <2>5. [StoreCall]_storeVars
      BY StoreStep
    <2>6. HasLoaded /\ Loaded' = Loaded
      BY <2>1, <2>3, <2>4, <2>5, PagesMove DEF RecordInv, HasLoaded, Loaded
    <2> QED
      BY <2>1, <2>2, <2>6 DEF ActiveStays
  <1> QED
    BY <1>1, <1>2

(* One step keeps an image in the active slot of the record in RAM.        *)
LEMMA TableBootableStep ==
    ASSUME TypeOK, RecordInv, TrialInv, ActiveIsBootable, [Next]_vars, faults = 0,
           stage' # "off", table'.active \in Slots
    PROVE  Bootable(table.active)'
  <1>1. CASE table'.active = table.active /\ stage # "off"
    <2>1. Bootable(table.active)
      BY <1>1 DEF ActiveIsBootable, ActiveBootable
    <2> QED
      BY <1>1, <2>1, ImageKept DEF Bootable
  <1>2. CASE LoadMetadata /\ table' = Durable.body
    <2>1. Bootable(Durable.body.active) /\ hdr' = hdr /\ area' = area
      BY <1>2 DEF LoadMetadata, Store!Load, HasDurable, ActiveIsBootable, ActiveBootable
    <2> QED
      BY <1>2, <2>1 DEF Bootable
  <1>3. CASE ReconstructMetadata /\ table' = Reconstructed
    <2>1. hdr' = hdr /\ area' = area /\ table'.active = Reconstructed.active
      BY <1>3 DEF ReconstructMetadata
    <2>2. Reconstructed.active \in Slots => Bootable(Reconstructed.active)
      BY DEF Reconstructed, Slots, NONE
    <2> QED
      BY <2>1, <2>2 DEF Bootable
  <1>4. CASE Decide /\ table'.active # table.active
    <2> DEFINE ok == [s \in Slots |-> Bootable(s)]
    <2>1. /\ table'.active = table.pending /\ table.pending \in Slots
          /\ Confirmed(table, Received, ok)
      BY <1>4, DecideStep, DecisionAlternates DEF TrialInv
    <2>2. Bootable(table.pending)
      BY <2>1 DEF Confirmed
    <2>3. hdr' = hdr /\ area' = area
      BY <1>4 DEF Decide
    <2> QED
      BY <2>1, <2>2, <2>3 DEF Bootable
  <1>5. Decide => stage # "off"
    BY DEF Decide, RecordInv, Phase
  <1>6. Command => stage # "off" /\ table'.active = table.active
    BY CommandStage, CommandTable
  <1> QED
    BY <1>1, <1>2, <1>3, <1>4, <1>5, <1>6, TableMoves

(* And in that of the record loaded, while the other page is rewritten.    *)
LEMMA LoadedBootableStep ==
    ASSUME TypeOK, TypeOK', RecordInv, SessionFits, TrialInv, ActiveIsBootable, ActiveStays,
           InstallIsWhole', InstallIsPending', [Next]_vars, faults' = 0,
           stage' \in {"erase", "program"}, HasLoaded', Loaded'.body.active \in Slots
    PROVE  Bootable(Loaded.body.active)'
  <1>1. faults = 0
    BY FaultStep
  <1>2. CASE ReconstructMetadata
    BY <1>2 DEF ReconstructMetadata, Store!Reconstruct, Store!HasValid, Store!Valid, HasLoaded
  <1>3. CASE Decide
    <2>1. /\ HasLoaded /\ Loaded' = Loaded /\ Loaded.body = table /\ stage = "ready"
          /\ hdr' = hdr /\ area' = area
      BY <1>3, DecideStep
         DEF TrialInv, DecidesOnDurable, HasLoaded, Loaded, Store!Valid, Decide, RecordInv, Phase
    <2> QED
      BY <1>1, <2>1 DEF ActiveIsBootable, ActiveBootable, Bootable
  <1>4. CASE Command /\ EndCommit
    <2> DEFINE a == Loaded.body.active
               t == upd.header.target
    <2>1. copies' = copies /\ metaCopy' = metaCopy /\ upd' = upd
      BY <1>4, EndInstalls DEF EndCommit
    <2>2. HasLoaded /\ Loaded' = Loaded /\ a \in Slots
      BY <2>1 DEF HasLoaded, Loaded, Store!Valid
    <2>3. pc = "loop" /\ stage = "ready"
      BY <1>4, CommandStage
    <2>4. table.active \in Slots
      BY <2>2, <2>3 DEF ActiveStays
    <2>5. CASE a = table.active
      <3>1. Bootable(a)
        BY <1>1, <2>3, <2>4, <2>5 DEF ActiveIsBootable, ActiveBootable
      <3>2. Bootable(a)'
        BY <2>2, <2>5, <3>1, ImageKept DEF Bootable
      <3> QED
        BY <3>2
    <2>6. CASE a # table.active
      <3>1. t = Other(table.active)
        BY <1>4, EndInstalls
      <3>2. a = t
        BY <2>2, <2>4, <2>6, <3>1 DEF Slots, Other
      <3>3. Installing'
        BY <1>4 DEF Command, bootVars, EndCommit, Store!Begin, Installing
      <3>4. Bootable(upd.header.target)'
        BY <3>3 DEF InstallIsWhole
      <3> QED
        BY <2>1, <2>2, <3>2, <3>4 DEF Bootable
    <2> QED
      BY <2>5, <2>6
  <1>5. CASE Commit
    <2>1. stage \in {"erase", "program"} /\ ~Store!Program /\ metaCopy' = metaCopy
      BY <1>5 DEF Commit, CommitStep, Store!Erase, Store!EraseError, Store!Program,
                  Store!ProgramError
    <2>2. metaCopy \in 0 .. 1 /\ Store!Valid(copies, metaCopy)' /\ [StoreCall]_storeVars
      BY <2>1, StoreStep DEF TypeOK, Store!StoreTypeOK, HasLoaded, Store!Valid
    <2>3. HasLoaded /\ Loaded' = Loaded
      BY <2>1, <2>2, PagesMove DEF RecordInv, HasLoaded, Loaded
    <2>4. hdr' = hdr /\ area' = area
      BY <1>5 DEF Commit, CommitStep
    <2> QED
      BY <1>1, <2>1, <2>3, <2>4 DEF ActiveIsBootable, ActiveBootable, Bootable
  <1>6. CASE UNCHANGED vars
    BY <1>1, <1>6 DEF vars, sessionVars, ActiveIsBootable, ActiveBootable, Bootable, HasLoaded, Loaded,
                      Store!Valid
  <1>7. CASE Command /\ ~EndCommit
    BY <1>7, CommandStore, CommandStage, TypeParts DEF storeUnchanged
  <1> QED
    BY <1>2, <1>3, <1>4, <1>5, <1>6, <1>7
       DEF Next, LoadMetadata, Store!Load, CommitReturns, Store!Return, SessionTimeout, Timeout,
           Listening, storeUnchanged, EndReturns, EndDone, EndFailed, Jump, sessionVars, ReadyReset,
           HostReset, AppConfirm, CrashReset, Reset, Store!Crash

(* And in that of the record a restart would load.                         *)
LEMMA DurableBootableStep ==
    ASSUME TypeOK, TypeOK', RecordInv, InSync, SessionFits, ActiveIsBootable, [Next]_vars, faults = 0,
           HasDurable', Durable'.body.active \in Slots
    PROVE  Bootable(Durable.body.active)'
  <1> DEFINE a == Durable'.body.active
  <1>1. [StoreCall]_storeVars
    BY StoreStep
  <1>2. Bootable(a) /\ (a = table.active \/ pc # "loop" \/ stage # "ready")
    <2>1. CASE HasDurable /\ Durable'.body = Durable.body
      BY <2>1 DEF ActiveIsBootable, ActiveBootable, InSync
    <2>2. CASE copies' = copies
      <3>1. HasDurable /\ Durable' = Durable
        BY <2>2 DEF HasDurable, Durable
      <3> QED
        BY <2>1, <3>1
    <2>3. CASE /\ stage \in {"erase", "program"} /\ Store!Valid(copies, metaCopy)
               /\ Durable'.body = copies[metaCopy].body
      BY <2>3 DEF ActiveIsBootable, ActiveBootable, HasLoaded, Loaded
    <2>4. CASE Store!Program /\ Durable'.body = table
      BY <2>4 DEF ActiveIsBootable, ActiveBootable, Store!Program
    <2> QED
      BY <1>1, <2>1, <2>2, <2>3, <2>4, DurableMoves DEF RecordInv
  <1> HIDE DEF a
  <1>3. a \in Slots
    BY DEF a
  <1>4. hdr'[a] = hdr[a] /\ area'[a] = area[a]
    <2>1. CASE a = table.active
      BY <1>3, <2>1, OneWritable, ProtectedStep
    <2>2. CASE pc # "loop" \/ stage # "ready"
      BY <2>2, SlotsUnchanged, CommandStage DEF CrashReset, TornSlot, Listening
    <2> QED
      BY <1>2, <2>1, <2>2
  <1> QED
    BY <1>2, <1>4 DEF Bootable, a

(* The three together.                                                     *)
LEMMA ActiveStep ==
    ASSUME TypeOK, TypeOK', RecordInv, InSync, SessionFits, TrialInv, ActiveIsBootable, ActiveStays,
           InstallIsWhole', InstallIsPending', [Next]_vars
    PROVE  ActiveIsBootable'
  <1>1. ASSUME faults' = 0 PROVE faults = 0
    BY <1>1, FaultStep
  <1> QED
    BY <1>1, TableBootableStep, LoadedBootableStep, DurableBootableStep
       DEF ActiveIsBootable, ActiveBootable

(* Until a flash operation fails, a device whose record names an active    *)
(* slot has an image to boot: through any updates, complete, abandoned,    *)
(* refused or repeated, and resets and power cuts at any point of them.    *)
THEOREM SomeSlotStaysBootable == Spec /\ []SessionSound => [](faults = 0 => SomeSlotBootable)
  <1>1. Init => ActiveIsBootable /\ ActiveStays
    BY DEF Init, ActiveIsBootable, ActiveStays, ActiveBootable, HasDurable, HasLoaded, Store!HasValid,
           Store!Valid
  <1>2. SessionSound => SessionFits
    BY DEF SessionSound
  <1>3. /\ TypeOK /\ TypeOK' /\ RecordInv /\ InSync /\ SessionFits /\ TrialInv
        /\ (InstallIsWhole /\ InstallInv)'
        /\ (ActiveIsBootable /\ ActiveStays) /\ [Next]_vars
        => (ActiveIsBootable /\ ActiveStays)'
    BY ActiveStep, ActiveStaysStep DEF InstallInv
  <1>4. TypeOK /\ ActiveIsBootable => (faults = 0 => SomeSlotBootable)
    BY DurableIsValid DEF ActiveIsBootable, ActiveBootable, SomeSlotBootable, SlotTable
  <1> QED
    BY <1>1, <1>2, <1>3, <1>4, TrialKept, InstallKept, WholeKept, TypeCorrect, PTL DEF Spec

-----------------------------------------------------------------------------
(* Trials are limited.                                                     *)

(* The record counts the jumps to its pending image.                       *)
Counted(tab) == \A s \in Slots : tab.pending = s => jumps[s] <= tab.slot[s].count

(* Until a flash operation fails, every record a restart may come to load  *)
(* counts the jumps there have been, and once decided on the one in RAM    *)
(* has counted the jump to come.                                           *)
JumpsCounted ==
    faults = 0 =>
        /\ AttemptsBounded
        /\ HasDurable => Counted(Durable.body)
        /\ pc \in {"reconstruct", "decide", "commit", "loop"} /\ HasLoaded => Counted(Loaded.body)
        /\ pc \in {"commit", "loop"} /\ table.pending \in Slots =>
               \/ jumps[table.pending] < table.slot[table.pending].count
               \/ jumps[table.pending] = 0 /\ Installing

(* Jumps and counts are numbers, and counts have a limit.                  *)
LEMMA CountType ==
    ASSUME TypeOK, NEW s \in Slots
    PROVE  /\ jumps[s] \in Nat
           /\ \A tab \in SlotTable :
                  tab.slot[s].count \in Nat /\ tab.slot[s].count <= MaxAttempts
  BY MaxAttemptsAssumption DEF TypeOK, SlotTable, SlotRecord

(* Jumps are counted one by one, and forgotten with the image.             *)
LEMMA JumpsMove ==
    ASSUME TypeOK, [Next]_vars, NEW s \in Slots
    PROVE  \/ jumps'[s] = jumps[s]
           \/ jumps'[s] = 0
           \/ Jump /\ s = table.pending /\ jumps'[s] = jumps[s] + 1
  <1>1. jumps \in [Slots -> 0 .. MaxAttempts + 1]
    BY DEF TypeOK
  <1>2. SessionHistory => jumps'[s] = jumps[s] \/ jumps'[s] = 0
    BY DEF SessionHistory
  <1>3. CASE Jump
    BY <1>1, <1>3 DEF Jump
  <1>4. CASE ~Jump
    BY <1>1, <1>2, <1>4
       DEF Next, LoadMetadata, ReconstructMetadata, Commit, CommitReturns, Decide, Command,
           SessionTimeout, EndReturns, ReadyReset, HostReset, AppConfirm, CrashReset, historyVars,
           vars
  <1> QED
    BY <1>1, <1>3, <1>4

(* What is counted stays counted unless the device jumps.                  *)
LEMMA CountedStays ==
    ASSUME TypeOK, [Next]_vars, ~Jump, NEW tab \in SlotTable, Counted(tab)
    PROVE  \A s \in Slots : tab.pending = s => jumps'[s] <= tab.slot[s].count
  <1> SUFFICES ASSUME NEW s \in Slots, tab.pending = s
               PROVE  jumps'[s] <= tab.slot[s].count
    OBVIOUS
  <1>1. jumps[s] <= tab.slot[s].count /\ tab.slot[s].count \in Nat
    BY CountType DEF Counted
  <1> QED
    BY <1>1, CountType, JumpsMove

(* A jump is one that the record, in RAM and in flash, has counted.        *)
LEMMA JumpStep ==
    ASSUME TypeOK, RecordInv, InSync, JumpsCounted, Jump, faults = 0
    PROVE  AttemptsBounded' /\ (HasDurable' => Counted(Durable.body)')
  <1>1. /\ pc = "loop" /\ stage = "ready" /\ ~Installing
        /\ Durable.body = table /\ table \in SlotTable
        /\ UNCHANGED <<copies, meta>>
    BY DEF Jump, Installing, InSync, TypeOK, Store!StoreTypeOK, Store!Record, table, sessionVars
  <1>2. \A s \in Slots : s = table.pending => jumps[s] < table.slot[s].count
    BY <1>1 DEF JumpsCounted
  <1>3. ASSUME NEW s \in Slots
        PROVE  /\ jumps'[s] <= MaxAttempts
               /\ table.pending = s => jumps'[s] <= table.slot[s].count
    <2>1. jumps[s] <= MaxAttempts /\ jumps[s] \in Nat
      BY CountType DEF JumpsCounted, AttemptsBounded
    <2>2. table.slot[s].count \in Nat /\ table.slot[s].count <= MaxAttempts
      BY <1>1, CountType
    <2> QED
      BY <1>2, <2>1, <2>2, JumpsMove, MaxAttemptsAssumption DEF Next
  <1>4. Durable' = Durable
    BY <1>1 DEF Durable
  <1> QED
    BY <1>1, <1>3, <1>4 DEF AttemptsBounded, Counted

(* What the record in RAM says before the next decision is counted too.    *)
LEMMA TableCounted ==
    ASSUME TypeOK, RecordInv, JumpsCounted, faults = 0, stage \in {"erase", "program"}
    PROVE  Counted(table)
  <1>1. pc \in {"reconstruct", "commit", "loop"}
    BY DEF RecordInv, Phase, TypeOK
  <1>2. CASE pc = "reconstruct"
    BY <1>2 DEF RecordInv, CommitPages, Counted, Slots, NONE
  <1>3. CASE pc \in {"commit", "loop"}
    <2> SUFFICES ASSUME NEW s \in Slots, table.pending = s
                 PROVE  jumps[s] <= table.slot[s].count
      BY DEF Counted
    <2>1. table.slot[s].count \in Nat
      BY CountType DEF TypeOK, Store!StoreTypeOK, Store!Record, table
    <2>2. jumps[s] < table.slot[s].count \/ jumps[s] = 0
      BY <1>3 DEF JumpsCounted
    <2> QED
      BY <2>1, <2>2, CountType
  <1> QED
    BY <1>1, <1>2, <1>3

(* A step without a jump keeps the flash records counting, *)
LEMMA PagesCounted ==
    ASSUME TypeOK, TypeOK', RecordInv, SessionFits, JumpsCounted, [Next]_vars, ~Jump, faults = 0
    PROVE  /\ AttemptsBounded'
           /\ HasDurable' => Counted(Durable.body)'
           /\ pc' \in {"reconstruct", "decide", "commit", "loop"} /\ HasLoaded' =>
                  Counted(Loaded.body)'
  <1>1. [StoreCall]_storeVars /\ metaCopy \in 0 .. 1
    BY StoreStep DEF TypeOK, Store!StoreTypeOK
  <1>2. AttemptsBounded'
    <2> SUFFICES ASSUME NEW s \in Slots PROVE jumps'[s] <= MaxAttempts
      BY DEF AttemptsBounded
    <2>1. jumps[s] <= MaxAttempts
      BY DEF JumpsCounted, AttemptsBounded
    <2> QED
      BY <2>1, JumpsMove, MaxAttemptsAssumption
  <1>3. \A c \in 0 .. 1 : Store!Valid(copies, c) => copies[c].body \in SlotTable
    BY DEF TypeOK, Store!StoreTypeOK, Store!Record, Store!Valid
  <1>4. ASSUME Store!Program
        PROVE  Counted(table) /\ table \in SlotTable
    BY <1>4, TableCounted DEF Store!Program, TypeOK, Store!StoreTypeOK, Store!Record, table
  <1>5. ASSUME HasDurable'
        PROVE  Counted(Durable.body)'
    <2>1. CASE HasDurable /\ Durable'.body = Durable.body
      BY <2>1, CountedStays, DurableIsValid DEF JumpsCounted, Counted
    <2>2. CASE copies' = copies
      <3>1. HasDurable /\ Durable' = Durable
        BY <1>5, <2>2 DEF HasDurable, Durable
      <3> QED
        BY <2>1, <3>1
    <2>3. CASE /\ stage \in {"erase", "program"} /\ Store!Valid(copies, metaCopy)
               /\ Durable'.body = copies[metaCopy].body
      <3>1. pc \in {"reconstruct", "commit", "loop"}
        BY <2>3 DEF RecordInv, Phase, TypeOK
      <3>2. Counted(copies[metaCopy].body) /\ copies[metaCopy].body \in SlotTable
        BY <1>1, <1>3, <2>3, <3>1 DEF JumpsCounted, HasLoaded, Loaded
      <3> QED
        BY <2>3, <3>2, CountedStays DEF Counted
    <2>4. CASE Store!Program /\ Durable'.body = table
      BY <1>4, <2>4, CountedStays DEF Counted
    <2> QED
      BY <1>1, <1>5, <2>1, <2>2, <2>3, <2>4, DurableMoves DEF RecordInv
  <1>6. ASSUME pc' \in {"reconstruct", "decide", "commit", "loop"}, HasLoaded'
        PROVE  Counted(Loaded.body)'
    <2>1. CASE LoadMetadata
      <3>1. Loaded' = Durable' /\ HasDurable'
        BY <2>1 DEF LoadMetadata, Store!Load, Loaded, Durable, HasDurable
      <3> QED
        BY <1>5, <3>1 DEF Counted
    <2>2. ~ReconstructMetadata
      BY <1>1, <1>6 DEF ReconstructMetadata, Store!Reconstruct, Store!HasValid, Store!Valid, HasLoaded
    <2>3. CASE ~LoadMetadata
      <3>1. pc \in {"reconstruct", "decide", "commit", "loop"} /\ metaCopy' = metaCopy
        <4>1. /\ pc \in {"reconstruct", "decide", "commit", "loop"}
              /\ ~(Jump \/ ReadyReset \/ HostReset \/ AppConfirm \/ CrashReset)
          BY <1>6, <2>2, <2>3
             DEF Next, Commit, CommitReturns, Decide, Command, SessionTimeout, EndReturns,
                 Jump, ReadyReset, HostReset, AppConfirm, CrashReset, Reset, Restart, vars, bootVars
        <4>2. Command \/ Decide => metaCopy' = metaCopy
          BY CommandStore, TypeParts, EndInstalls DEF Decide, Store!Begin, storeUnchanged
        <4> QED
          BY <2>2, <2>3, <4>1, <4>2
             DEF Next, Commit, CommitStep, CommitReturns, SessionTimeout, Timeout, EndReturns,
                 EndDone, EndFailed, Store!Erase, Store!EraseError, Store!Program,
                 Store!ProgramError, Store!Return, storeUnchanged, vars, sessionVars
      <3>2. Store!Valid(copies, metaCopy)' /\ Loaded' = copies'[metaCopy]
        BY <1>6, <3>1 DEF HasLoaded, Loaded, Store!Valid
      <3>3. CASE Store!Valid(copies, metaCopy) /\ copies'[metaCopy] = copies[metaCopy]
        <4>1. Counted(copies[metaCopy].body) /\ copies[metaCopy].body \in SlotTable
          BY <1>1, <1>3, <3>1, <3>3 DEF JumpsCounted, HasLoaded, Loaded
        <4> QED
          BY <3>2, <3>3, <4>1, CountedStays DEF Counted
      <3>4. CASE Store!Program /\ copies'[metaCopy].body = table
        BY <1>4, <3>2, <3>4, CountedStays DEF Counted
      <3> QED
        BY <1>1, <3>1, <3>2, <3>3, <3>4, PagesMove DEF RecordInv
    <2> QED
      BY <2>1, <2>3
  <1> QED
    BY <1>2, <1>5, <1>6

(* and the one in RAM ahead of them. *)
LEMMA AheadStep ==
    ASSUME TypeOK, TypeOK', RecordInv, InSync, TrialInv, InstallIsPending', JumpsCounted,
           [Next]_vars, faults = 0, faults' = 0,
           pc' \in {"commit", "loop"}, table'.pending \in Slots
    PROVE  \/ jumps'[table'.pending] < table'.slot[table'.pending].count
           \/ jumps'[table'.pending] = 0 /\ Installing'
  <1> DEFINE s == table'.pending
  <1>1. CASE Decide
    <2> DEFINE ok == [t \in Slots |-> Bootable(t)]
    <2>1. /\ table' = BootDecide(table, Received, ok).table /\ jumps' = jumps
          /\ table \in SlotTable
      BY <1>1, DecideStep DEF TrialInv
    <2>2. table' = Attempt(table) /\ table.pending \in Slots
      <3>1. Promote(table).pending = NONE /\ NONE \notin Slots
        BY DEF Promote, Slots, NONE
      <3>2. GiveUp(table).pending = NONE
        BY <2>1 DEF GiveUp, SlotTable
      <3> QED
        BY <2>1, <3>1, <3>2 DEF BootDecide
    <2>3. s = table.pending /\ table'.slot[s].count = table.slot[s].count + 1
      BY <2>1, <2>2 DEF Attempt, SlotTable, SlotRecord
    <2>4. HasDurable /\ Durable.body = table
      BY <1>1, <2>2, DurableIsValid DEF Decide, RecordInv, CommitPages, TrialInv, DecidesOnDurable
    <2>5. jumps[s] <= table.slot[s].count
      BY <2>2, <2>3, <2>4 DEF JumpsCounted, Counted
    <2>6. jumps[s] \in Nat /\ table.slot[s].count \in Nat
      BY <2>1, CountType
    <2> QED
      BY <2>1, <2>3, <2>5, <2>6
  <1>2. CASE Installing'
    <2>1. s = upd'.header.target /\ jumps'[upd'.header.target] = 0
      BY <1>2 DEF InstallIsPending
    <2> QED
      BY <1>2, <2>1
  <1>3. CASE ~Decide /\ ~Installing'
    <2>1. table' = table /\ pc \in {"commit", "loop"} /\ ~Jump
      <3>1. /\ pc \in {"commit", "loop"} /\ ~Jump
            /\ ~LoadMetadata /\ ~ReconstructMetadata
        BY <1>3 DEF Next, LoadMetadata, ReconstructMetadata, Commit, CommitReturns, Command,
                    SessionTimeout, EndReturns, Jump, ReadyReset, HostReset, AppConfirm,
                    CrashReset, Reset, Restart, vars, bootVars
      <3>2. ~(Command /\ EndCommit)
        BY <1>3 DEF Command, bootVars, EndCommit, Store!Begin, Installing
      <3> QED
        BY <1>3, <3>1, <3>2, TableMoves
    <2>2. ~Installing
      <3>1. stage # "failed"
        BY DEF InSync
      <3>2. CASE EndReturns
        <4>1. EndDone("ACK") /\ upd'.state = "READY_TO_BOOT" /\ pc' = "loop"
          <5>1. upd \in Session
            BY TypeParts DEF SessionTypes, OpenSession
          <5> QED
            BY <3>1, <3>2, <5>1 DEF EndReturns, EndDone, EndFailed, bootVars, Session
        <4> QED
          BY <1>3, <4>1 DEF Installing
      <3>3. CASE Command \/ SessionTimeout
        <4>1. Listening
          BY <3>3 DEF Command, NoEffect, Abort, Start, StartRejected, StartFlashError,
             StartAccepted, StartAcceptable, Data, DataRejected, DataRefused, DataStored, DataSpoilt,
             DataBeyond, DataAcceptable, End, EndRejected, EndUnverified, EndHeaderError, EndCommit,
             HeaderProgrammable, SessionTimeout, Timeout
        <4> QED
          BY <4>1 DEF Listening, Installing
      <3>4. CASE Commit
        <4>1. stage' # "ready" /\ pc' = pc
          BY <3>4 DEF Commit, CommitStep, Store!Erase, Store!EraseError, Store!Program,
                      Store!ProgramError, bootVars
        <4> QED
          BY <1>3, <4>1 DEF Installing
      <3>5. CASE CommitReturns
        BY <3>5 DEF CommitReturns, Installing
      <3>6. CASE UNCHANGED vars
        BY <1>3, <3>6 DEF vars, sessionVars, bootVars, Installing
      <3> QED
        BY <1>3, <2>1, <3>2, <3>3, <3>4, <3>5, <3>6
           DEF Next, LoadMetadata, ReconstructMetadata, ReadyReset, HostReset, AppConfirm,
               CrashReset, Reset, Restart
    <2>3. jumps[s] < table.slot[s].count /\ s \in Slots
      BY <2>1, <2>2 DEF JumpsCounted
    <2>4. table \in SlotTable
      BY DEF TypeOK, Store!StoreTypeOK, Store!Record, table
    <2> QED
      BY <2>1, <2>3, <2>4, CountType, JumpsMove
  <1> QED
    BY <1>1, <1>2, <1>3

(* Until a flash operation fails, a pending image is tried at most         *)
(* MaxAttempts times, over any number of updates, resets and power cuts:   *)
(* each jump to it is counted in flash before it is made.                  *)
THEOREM AttemptsAreBounded == Spec /\ []SessionFits => [](faults = 0 => AttemptsBounded)
  <1>1. Init => JumpsCounted
    BY MaxAttemptsAssumption
       DEF Init, JumpsCounted, AttemptsBounded, HasDurable, HasLoaded, Store!HasValid, Store!Valid
  <1>2. /\ TypeOK /\ TypeOK' /\ RecordInv /\ InSync /\ SessionFits /\ TrialInv /\ InstallInv'
        /\ JumpsCounted /\ [Next]_vars
        => JumpsCounted'
    <2> SUFFICES ASSUME TypeOK, TypeOK', RecordInv, InSync, SessionFits, TrialInv, InstallInv',
                        JumpsCounted, [Next]_vars, faults' = 0
                 PROVE  JumpsCounted'
      BY DEF JumpsCounted
    <2>1. faults = 0
      BY FaultStep
    <2>2. CASE Jump
      <3>1. AttemptsBounded' /\ (HasDurable' => Counted(Durable.body)')
        BY <2>1, <2>2, JumpStep
      <3>2. pc' \in {"app", "wild"}
        BY <2>2 DEF Jump
      <3> QED
        BY <3>1, <3>2 DEF JumpsCounted
    <2>3. CASE ~Jump
      BY <2>1, <2>3, PagesCounted, AheadStep DEF JumpsCounted, InstallInv
    <2> QED
      BY <2>2, <2>3
  <1>3. JumpsCounted => (faults = 0 => AttemptsBounded)
    BY DEF JumpsCounted
  <1> QED
    BY <1>1, <1>2, <1>3, TrialKept, InstallKept, TypeCorrect, PTL DEF Spec

=============================================================================
