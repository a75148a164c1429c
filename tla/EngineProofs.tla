----------------------------- MODULE EngineProofs -----------------------------
(***************************************************************************)
(* The update session of the bootloader implements the update engine of    *)
(* UpdateEngine.tla, for any images, headers, packets, flash and faults.   *)
(***************************************************************************)
EXTENDS BootloaderProofs

(* A commit that the loop waits for is that of a session which has all its *)
(* bytes: no other command is handled before its answer.                   *)
CommitIsOfSession ==
    /\ pc = "decide" => stage = "ready"
    /\ pc = "loop" /\ stage # "ready" => Complete

(* The invariant of the refinement. *)
EngineInv == TypeOK /\ CommitIsOfSession

(* A host command that starts a commit is END for a complete session, and  *)
(* no other command moves the store's stage.                               *)
LEMMA CommandStage ==
    ASSUME Command
    PROVE  /\ pc = "loop" /\ stage = "ready"
           /\ stage' # "ready" => Complete'
  <1>1. pc = "loop" /\ Listening
    BY DEF Command, NoEffect, Abort, Start, StartRejected, StartFlashError, StartAccepted,
           StartAcceptable, Data, DataRejected, DataRefused, DataStored, DataSpoilt, DataBeyond,
           DataAcceptable, End, EndRejected, EndUnverified, EndHeaderError, EndCommit,
           HeaderProgrammable
  <1>2. stage' = stage \/ EndCommit
    BY DEF Command, NoEffect, Abort, Start, StartRejected, StartFlashError, StartAccepted,
           Data, DataRejected, DataRefused, DataStored, DataSpoilt, DataBeyond,
           End, EndRejected, EndUnverified, EndHeaderError, storeUnchanged
  <1>3. EndCommit => Complete'
    BY DEF EndCommit, HeaderProgrammable, Complete
  <1> QED
    BY <1>1, <1>2, <1>3 DEF Listening

(* Every step keeps the commit that of the session. *)
LEMMA CommitStepKept ==
    ASSUME CommitIsOfSession, [Next]_vars
    PROVE  CommitIsOfSession'
  <1>1. CASE LoadMetadata \/ ReconstructMetadata \/ CommitReturns
    BY <1>1 DEF LoadMetadata, ReconstructMetadata, CommitReturns, CommitIsOfSession,
                Store!Load, Store!Return
  <1>2. CASE Commit
    <2>1. pc' = pc /\ upd' = upd /\ stage # "ready"
      BY <1>2 DEF Commit, CommitStep, bootVars, Store!Erase, Store!EraseError, Store!Program,
                  Store!ProgramError
    <2> QED
      BY <2>1 DEF CommitIsOfSession, Complete
  <1>3. CASE Decide
    BY <1>3 DEF Decide, CommitIsOfSession, storeUnchanged, Complete
  <1>4. CASE Command
    <2>1. pc' = "loop"
      BY <1>4 DEF Command, bootVars
    <2> QED
      BY <1>4, <2>1, CommandStage DEF CommitIsOfSession
  <1>5. CASE SessionTimeout
    BY <1>5 DEF SessionTimeout, Timeout, Listening, storeUnchanged, bootVars, CommitIsOfSession
  <1>6. CASE EndReturns
    BY <1>6 DEF EndReturns, EndDone, EndFailed, Store!Return, bootVars, CommitIsOfSession
  <1>7. CASE Jump
    BY <1>7 DEF Jump, CommitIsOfSession
  <1>8. CASE ReadyReset \/ HostReset \/ AppConfirm \/ CrashReset
    BY <1>8 DEF ReadyReset, HostReset, AppConfirm, CrashReset, Reset, Restart, CommitIsOfSession
  <1>9. CASE UNCHANGED vars
    BY <1>9 DEF vars, sessionVars, bootVars, CommitIsOfSession, Complete
  <1> QED
    BY <1>1, <1>2, <1>3, <1>4, <1>5, <1>6, <1>7, <1>8, <1>9 DEF Next

-----------------------------------------------------------------------------
(* The steps of the session, as the engine's.                              *)

EngineStep == [Engine!EngineNext]_(Engine!engineVars)

(* A session that does not change is a stutter of the engine.              *)
LEMMA EngineStutters ==
    ASSUME upd' = upd
    PROVE  EngineStep
  BY DEF EngineStep, Engine!engineVars, WhileOpen

(* Dropping a session closes the engine. *)
LEMMA EngineCloses ==
    ASSUME upd' = FreshSession
    PROVE  EngineStep
  BY DEF EngineStep, Engine!EngineNext, Engine!Close, WhileOpen, FreshSession

(* The header of a START that is refused is an announcement, or nothing.   *)
LEMMA EngineAnnounces ==
    ASSUME SessionTypes, NEW h \in Header, HeaderReceived(h)
    PROVE  EngineStep
  <1>1. CASE upd.state = "RECEIVING"
    <2>1. upd' = [upd EXCEPT !.header = h] /\ upd \in Session /\ h.size \in Nat
      BY <1>1 DEF HeaderReceived, SessionTypes, OpenSession, Header
    <2>2. /\ upd'.state = "RECEIVING" /\ upd'.received = upd.received
          /\ upd'.nextSeq = upd.nextSeq /\ upd'.header = h
      BY <1>1, <2>1 DEF Session
    <2>3. Engine!Announce
      BY <1>1, <2>1, <2>2 DEF Engine!Announce, WhileOpen
    <2> QED
      BY <2>3 DEF EngineStep, Engine!EngineNext
  <1>2. CASE upd.state # "RECEIVING"
    BY <1>2, EngineStutters DEF HeaderReceived
  <1> QED
    BY <1>1, <1>2

(* START opens a session. *)
LEMMA EngineOpens ==
    ASSUME SessionTypes, NEW h \in Header, NEW seq \in 0 .. SeqMod - 1,
           upd.state # "READY_TO_BOOT", upd' = Opened(h, seq)
    PROVE  EngineStep
  <1>1. h.size \in Nat /\ (seq + 1) % SeqMod \in 0 .. SeqMod - 1
    BY BlUpdateAssumption DEF Header
  <1>2. Engine!Open
    BY <1>1 DEF Engine!Open, WhileOpen, Opened
  <1> QED
    BY <1>2 DEF EngineStep, Engine!EngineNext

(* DATA that is accepted counts. *)
LEMMA EngineAccepts ==
    ASSUME SessionTypes, NEW seq, NEW len \in Nat \ {0}, NEW b,
           upd.state = "RECEIVING", upd' = DataReceived(seq, len, b)
    PROVE  EngineStep
  <1>1. upd \in Session
    BY DEF SessionTypes, OpenSession
  <1>2. /\ upd'.state = "RECEIVING" /\ upd'.header = upd.header
        /\ upd'.received = upd.received + len
        /\ upd'.nextSeq = (upd.nextSeq + 1) % SeqMod
    BY <1>1 DEF DataReceived, Session
  <1>3. upd.received \in Nat
    BY <1>1 DEF Session
  <1>4. Engine!Accept
    BY <1>2, <1>3 DEF Engine!Accept, Engine!Counts, WhileOpen
  <1> QED
    BY <1>4 DEF EngineStep, Engine!EngineNext

(* The answer to END makes a complete session ready. *)
LEMMA EngineFinishes ==
    ASSUME SessionTypes, Complete, upd' = [upd EXCEPT !.state = "READY_TO_BOOT"]
    PROVE  EngineStep
  <1>1. /\ upd'.state = "READY_TO_BOOT" /\ upd'.header = upd.header
        /\ upd'.received = upd.received /\ upd'.nextSeq = upd.nextSeq
    BY DEF SessionTypes, OpenSession, Session
  <1>2. Engine!Finish
    BY <1>1 DEF Engine!Finish, WhileOpen, Complete
  <1> QED
    BY <1>2 DEF EngineStep, Engine!EngineNext

(* One call of bl_update_handle is a step of the engine. *)
LEMMA CommandEngine ==
    ASSUME SessionTypes, Command
    PROVE  EngineStep
  <1>1. PICK r \in Reply :
          \/ NoEffect(r)
          \/ Abort(r)
          \/ \E h \in Headers, seq \in 0 .. SeqMod - 1 : Start(h, seq, r)
          \/ \E seq \in 0 .. SeqMod - 1, len \in Lengths, b \in Contents : Data(seq, len, b, r)
          \/ End(r)
    BY DEF Command
  <1>2. CASE NoEffect(r) \/ End(r)
    BY <1>2, EngineStutters
       DEF NoEffect, End, EndRejected, EndUnverified, EndHeaderError, EndCommit
  <1>3. CASE Abort(r)
    BY <1>3, EngineStutters, EngineCloses DEF Abort
  <1>4. ASSUME NEW h \in Headers, NEW seq \in 0 .. SeqMod - 1, Start(h, seq, r)
        PROVE  EngineStep
    <2>1. h \in Header
      BY BootloaderAssumption
    <2>2. CASE StartRejected(h, r) \/ StartFlashError(h, r)
      BY <2>1, <2>2, EngineAnnounces DEF StartRejected, StartFlashError
    <2>3. CASE StartAccepted(h, seq, r)
      BY <2>1, <2>3, EngineOpens DEF StartAccepted, StartAcceptable, Listening
    <2> QED
      BY <1>4, <2>2, <2>3 DEF Start
  <1>5. ASSUME NEW seq \in 0 .. SeqMod - 1, NEW len \in Lengths, NEW b \in Contents,
               Data(seq, len, b, r)
        PROVE  EngineStep
    <2>1. len \in Nat
      BY BootloaderAssumption, BlUpdateAssumption
    <2>2. CASE upd' = upd
      BY <2>2, EngineStutters
    <2>3. CASE DataAcceptable(seq, len, b) /\ upd' = DataReceived(seq, len, b)
      BY <2>1, <2>3, EngineAccepts DEF DataAcceptable, InOrder
    <2> QED
      BY <1>5, <2>2, <2>3 DEF Data, DataRejected, DataRefused, DataStored, DataSpoilt, DataBeyond
  <1> QED
    BY <1>1, <1>2, <1>3, <1>4, <1>5

(* One step of the bootloader is a step of the engine. *)
LEMMA DeviceEngine ==
    ASSUME EngineInv, [Next]_vars
    PROVE  EngineStep
  <1>1. SessionTypes
    BY TypeParts DEF EngineInv
  <1>2. CASE LoadMetadata \/ ReconstructMetadata \/ Commit \/ CommitReturns \/ Jump
             \/ UNCHANGED vars
    BY <1>2, EngineStutters
       DEF LoadMetadata, ReconstructMetadata, Commit, CommitStep, CommitReturns, Jump,
           vars, sessionVars
  <1>3. CASE Decide \/ SessionTimeout \/ ReadyReset \/ HostReset \/ AppConfirm \/ CrashReset
    BY <1>3, EngineCloses
       DEF Decide, SessionTimeout, Timeout, ReadyReset, HostReset, AppConfirm, CrashReset,
           Reset, Restart
  <1>4. CASE Command
    BY <1>1, <1>4, CommandEngine
  <1>5. CASE EndReturns
    <2>1. CASE upd' = upd
      BY <2>1, EngineStutters
    <2>2. CASE upd' = [upd EXCEPT !.state = "READY_TO_BOOT"] /\ stage = "ok"
      <3>1. Complete
        BY <1>5, <2>2 DEF EngineInv, CommitIsOfSession, EndReturns
      <3> QED
        BY <1>1, <2>2, <3>1, EngineFinishes
    <2> QED
      BY <1>5, <2>1, <2>2 DEF EndReturns, EndDone, EndFailed
  <1> QED
    BY <1>2, <1>3, <1>4, <1>5 DEF Next

(* The update session refines the engine the cloud client is modelled on:  *)
(* after any sequence of commands, refusals, repeats, faults and resets,   *)
(* bl_update.c counts bytes and packets together from nothing, and is      *)
(* ready to boot only with as many bytes as were announced.                *)
THEOREM SessionImplementsEngine == Spec => IsUpdateEngine
  <1>1. Init => EngineInv /\ Engine!EngineInit
    BY InitType DEF EngineInv, CommitIsOfSession, Init, Engine!EngineInit, WhileOpen, FreshSession
  <1>2. EngineInv /\ [Next]_vars => EngineInv'
    BY TypeStep, CommitStepKept DEF EngineInv
  <1>3. EngineInv /\ [Next]_vars => [Engine!EngineNext]_(Engine!engineVars)
    BY DeviceEngine DEF EngineStep
  <1> QED
    BY <1>1, <1>2, <1>3, PTL DEF Spec, IsUpdateEngine, Engine!EngineSpec

=============================================================================
