------------------------ MODULE BootloaderProperties ------------------------
(***************************************************************************)
(* What the bootloader promises, stated on the model of Bootloader.tla.    *)
(***************************************************************************)
EXTENDS Bootloader

(* The record a restart would load. *)
HasDurable == Store!HasValid(copies)
Durable == copies[Store!Selected(copies)]

-----------------------------------------------------------------------------
(* What the host is expected to do.  The parts of the bootloader rely on   *)
(* it without checking it.                                                 *)

(* The images that the host announces are of one size. *)
OneImageSize == \E n \in 1 .. SlotSize : \A h \in Headers : h.size = n

(* What an open session has received fits the size it has announced and    *)
(* the slot, whatever is refused, repeated or started anew: bl_update.c    *)
(* subtracts the one from the other, and takes addresses from them.        *)
SessionFits ==
    upd.state = "RECEIVING" =>
        upd.received <= upd.header.size /\ upd.header.size \in 1 .. SlotSize

(* No refused START has put a damaged header in place of the session's.    *)
SessionSound == SessionFits /\ (upd.state = "RECEIVING" => upd.header.ok)

(* No commit of END_UPDATE fails. *)
EndCommitsSucceed == pc = "loop" => stage # "failed"

-----------------------------------------------------------------------------
(* The metadata.                                                           *)

(* The calls of ota_metadata.c and the flash steps of a commit: StoreNext, *)
(* with the record a step writes named instead of guessed.                 *)
StoreCall ==
    \/ Store!Load
    \/ Store!Reconstruct(meta'.body)
    \/ Store!Begin(meta'.body)
    \/ Store!Erase \/ Store!EraseError
    \/ Store!Program \/ Store!ProgramError
    \/ Store!Return
    \/ Store!Crash

(* Every step of the bootloader is, on the metadata store, a step that     *)
(* MetadataStore.tla allows the callers of ota_metadata.c: nothing else    *)
(* writes a metadata page or the record in RAM.                            *)
DrivesStore == [][StoreCall]_<<copies, meta, metaCopy, dest, stage>>

(* Once a restart finds a valid record it always will, whatever fails and  *)
(* whenever power is cut (ota_metadata_commit writes the copy that was not *)
(* loaded).                                                                *)
RecordSurvives == [][HasDurable => HasDurable']_vars

(* While no flash operation has failed, what the update window acts on in  *)
(* RAM is what a restart would load: every change bl_main or bl_update     *)
(* makes to the record is durable before the next command is answered.     *)
RecordInSync ==
    pc = "loop" /\ stage = "ready" /\ faults = 0 => HasDurable /\ Durable.body = table

(* PHASE1-SPEC section 8: a commit erases the older copy, and the previous *)
(* valid copy remains untouched until the new one is verified.             *)
NewestCopyKept == stage = "erase" /\ HasDurable => dest # Store!Selected(copies)

-----------------------------------------------------------------------------
(* The slots.                                                              *)

(* No step writes the slot the record in RAM calls active: not START with  *)
(* a header for it, nor DATA or END after a rejected START has replaced    *)
(* the session's header.                                                   *)
ActiveSlotUntouched ==
    [][\A s \in Slots :
          s = table.active => hdr'[s] = hdr[s] /\ area'[s] = area[s]]_vars

(* A header page comes to hold a header only over the payload it           *)
(* describes, so an interrupted transfer never leaves a bootable image     *)
(* (END_UPDATE programs the header last).                                  *)
HeaderProgrammedLast ==
    [][\A s \in Slots :
          hdr'[s] \in Header /\ hdr'[s] # hdr[s] =>
              PayloadCrcMatches(area'[s], hdr'[s]) /\ VectorValid(area'[s], s)]_vars

(* An image, once whole, stops being so only when its header page is       *)
(* written: no DATA, in whatever session, spoils a payload a header still  *)
(* vouches for.                                                            *)
ImageLostOnlyWithHeader ==
    [][\A s \in Slots : Bootable(s) /\ hdr'[s] = hdr[s] => Bootable(s)']_vars

(* An update that reaches READY_TO_BOOT, so an END that is acknowledged,   *)
(* has left a valid image, pending and durable, in the slot it announced.  *)
EndLeavesValidImage ==
    upd.state = "READY_TO_BOOT" =>
        /\ Bootable(upd.header.target)
        /\ HasDurable
        /\ Durable.body.pending = upd.header.target

(* Once a record names an active slot there is always an image to boot:    *)
(* no update, abandoned update or power cut at any point of either, and no *)
(* sequence of them, leaves the device without one.                        *)
SomeSlotBootable ==
    HasDurable /\ Durable.body.active # NONE => \E s \in Slots : Bootable(s)

(* The update session as its callers know it: what counts only while a     *)
(* session is open is hidden when none is.                                 *)
WhileOpen(x) == IF upd.state = "IDLE" THEN 0 ELSE x

Engine == INSTANCE UpdateEngine WITH
    state <- upd.state,
    size <- WhileOpen(upd.header.size),
    got <- WhileOpen(upd.received),
    next <- WhileOpen(upd.nextSeq)

(* The session is the engine of UpdateEngine.tla, on which the cloud       *)
(* client is modelled too: bytes and sequence numbers advance together and *)
(* start from nothing, and only a session that has the bytes announced is  *)
(* installed, whatever is refused, repeated or fails in between.           *)
IsUpdateEngine == Engine!EngineSpec

-----------------------------------------------------------------------------
(* The boot decision.                                                      *)

(* A pending image is tried at most MaxAttempts times without confirming   *)
(* itself, over any number of resets and power cuts.                       *)
AttemptsBounded == \A s \in Slots : jumps[s] <= MaxAttempts

(* Only an image that itself called boot_confirm becomes active: a         *)
(* confirmation left in SRAM by another image or an earlier one is never   *)
(* taken for it.                                                           *)
PromotionEarned ==
    [][\A s \in Slots :
          pc = "decide" /\ table.active # s /\ table'.active = s => earned[s]]_vars

(* The slot decided at start-up stays bootable for as long as no START or  *)
(* END has written its header page in the update window.                   *)
DecisionHolds == pc = "loop" /\ run \in Slots \ written => Bootable(run)

(* PHASE1-SPEC section 9: the bootloader validates the chosen image before *)
(* every jump.                                                             *)
JumpsToValidImage == pc \in {"app", "wild"} => Bootable(running)

(* An image that is still on trial when it runs has its confirmation heard:*)
(* boot_confirm does not return early on the strength of an earlier one    *)
(* that bl_main consumed and did not carry out.                            *)
TrialCanConfirm ==
    pc = "app" /\ table.pending = running =>
        mailbox # [magic |-> "CONFIRMED", slot |-> running,
                   version |-> table.slot[running].version]

-----------------------------------------------------------------------------
(* Liveness.  The processor keeps executing: start-up, commits, the polled *)
(* loop with its two timers, and the application up to boot_confirm.       *)
(* Nothing makes the host send, or power fail.                             *)

Processor ==
    \/ LoadMetadata \/ ReconstructMetadata \/ Commit \/ CommitReturns \/ Decide
    \/ SessionTimeout \/ EndReturns \/ Jump \/ ReadyReset \/ AppConfirm

FairSpec == Spec /\ WF_vars(Processor)

(* An application runs, or the device has none to run and waits. *)
AtRest ==
    \/ pc \in {"app", "wild"}
    \/ pc = "loop" /\ stage = "ready" /\ upd.state = "IDLE" /\ run = NONE

RestReset == CrashReset /\ AtRest

(* From some time on the host is silent, and resets do not hit start-up or *)
(* an update window that ends.                                             *)
HostSilent == <>[][~Command /\ ~HostReset /\ ~(CrashReset /\ ~RestReset)]_vars

Quiet == HostSilent /\ <>[][~RestReset]_vars

(* Left alone, the device comes to rest in an application, or waits for an *)
(* update when no slot is bootable: sessions time out, and a confirmation  *)
(* never makes it reset for ever.                                          *)
ComesToRest ==
    Quiet => <>[](pc \in {"app", "wild"}) \/ <>[](pc = "loop" /\ run = NONE)

(* Where somebody resets a device at rest again and again, a pending image *)
(* is decided on: promoted, or given up after MaxAttempts attempts, even   *)
(* when the commit of that decision is the one that fails.                 *)
TrialEnds ==
    HostSilent /\ WF_vars(RestReset) => <>[](HasDurable /\ Durable.body.pending = NONE)

=============================================================================
