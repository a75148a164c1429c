----------------------------- MODULE Bootloader -----------------------------
(***************************************************************************)
(* The device: bootloader/src/bl_main.c from reset to the jump, with the   *)
(* update session of BlUpdate in its loop, the application it starts and   *)
(* the SRAM confirmation mailbox between the two                           *)
(* (application/src/boot_confirm.c).  UART build: no cloud controller.     *)
(*                                                                         *)
(* The firmware is one thread, so its steps follow each other; what        *)
(* interleaves with them is the host, which may send any command whenever  *)
(* the loop listens, and resets and power cuts, which may come at any      *)
(* step and in the middle of a flash operation.                            *)
(***************************************************************************)
EXTENDS BlUpdate

CONSTANTS
    AppVersion,     \* AppVersion[p]: the version build p confirms itself as
    Confirming,     \* the builds that call boot_confirm
    Factory,        \* the headers of images a programmer may have installed
    Headers,        \* the headers the host announces
    Lengths,        \* the lengths of the DATA the host sends
    Contents        \* what the host's DATA contains

ASSUME BootloaderAssumption ==
    /\ AppVersion \in [Payload -> Version]
    /\ Confirming \subseteq Payload
    /\ Factory \subseteq Header /\ Headers \subseteq Header
    /\ Lengths \subseteq 0 .. PageSize
    /\ Contents \subseteq Payload \cup {Junk}

VARIABLES
    pc,         \* where the processor is
    mailbox,    \* g_mailbox, in SRAM that a reset does not clear
    run,        \* boot_result.decision
    running,    \* the slot the processor jumped to
    written,    \* history: slots whose header page this window has written
    jumps,      \* history: jumps to a slot's image while it was pending
    earned      \* history: the slot's image confirmed itself, or is factory

bootVars == <<pc, mailbox, run, running>>
historyVars == <<written, jumps, earned>>
vars == <<sessionVars, bootVars, historyVars>>

Blank == Erased         \* boot_confirmation_clear fills it with 0xff
Mail == [magic: {"CONFIRM", "CONFIRMED"}, slot: Slots, version: Version]

Bootable(s) == ImageValid(hdr[s], area[s], s)

TypeOK ==
    /\ Store!StoreTypeOK
    /\ SessionTypeOK
    /\ pc \in {"reset", "reconstruct", "decide", "commit", "loop", "app", "wild"}
    /\ mailbox \in Mail \cup {Blank}
    /\ run \in Slots \cup {NONE}
    /\ running \in Slots \cup {NONE}
    /\ written \subseteq Slots
    /\ jumps \in [Slots -> 0 .. MaxAttempts + 1]
    /\ earned \in [Slots -> BOOLEAN]

FactoryArea(h) ==
    [i \in 0 .. SlotSize - 1 |-> IF i < h.size THEN h.payload ELSE Erased]

(* A programmed board: blank metadata and, in each slot, nothing or a      *)
(* factory image.                                                          *)
Init ==
    /\ copies = [c \in 0 .. 1 |-> Bad]
    /\ meta \in [gen: {0},
                 body: {[slot |-> [s \in Slots |-> [state |-> "EMPTY", version |-> v, count |-> 0]],
                         active |-> NONE, pending |-> NONE] : v \in {CHOOSE w \in Version : TRUE}}]
    /\ metaCopy = 0 /\ dest = 0 /\ stage = "off"
    /\ hdr \in [Slots -> Factory \cup {Erased}]
    /\ area = [s \in Slots |-> IF hdr[s] = Erased
                               THEN [i \in 0 .. SlotSize - 1 |-> Erased]
                               ELSE FactoryArea(hdr[s])]
    /\ \A s \in Slots : hdr[s] # Erased => Bootable(s)
    /\ upd = FreshSession /\ faults = 0
    /\ pc = "reset" /\ mailbox = Blank /\ run = NONE /\ running = NONE
    /\ written = {}
    /\ jumps = [s \in Slots |-> 0]
    /\ earned = [s \in Slots |-> TRUE]

-----------------------------------------------------------------------------
(* Start-up.                                                               *)

LoadMetadata ==
    /\ pc = "reset"
    /\ Store!Load
    /\ pc' = "decide"
    /\ UNCHANGED <<hdr, area, upd, faults, mailbox, run, running, historyVars>>

(* The table reconstruct_metadata builds from the images it finds. *)
Reconstructed ==
    LET first == IF Bootable("A") THEN "A" ELSE IF Bootable("B") THEN "B" ELSE NONE
    IN  [slot |-> [s \in Slots |->
                     [state |-> IF s = first THEN "ACTIVE"
                                ELSE IF Bootable(s) THEN "VALID" ELSE "EMPTY",
                      version |-> IF Bootable(s) THEN hdr[s].version
                                  ELSE CHOOSE v \in Version : TRUE,
                      count |-> 0]],
         active |-> first,
         pending |-> NONE]

ReconstructMetadata ==
    /\ pc = "reset"
    /\ Store!Reconstruct(Reconstructed)
    /\ pc' = "reconstruct"
    /\ UNCHANGED <<hdr, area, upd, faults, mailbox, run, running, historyVars>>

(* The flash steps of whichever commit is under way. *)
Commit ==
    /\ CommitStep
    /\ UNCHANGED <<bootVars, historyVars>>

(* reconstruct_metadata and bl_main both carry on whether or not their     *)
(* commit succeeded.                                                       *)
CommitReturns ==
    /\ \/ pc = "reconstruct" /\ pc' = "decide"
       \/ pc = "commit" /\ pc' = "loop"
    /\ Store!Return
    /\ UNCHANGED <<hdr, area, upd, faults, mailbox, run, running, historyVars>>

(* Mutant: a consumed confirmation is taken again. *)
ReceivedAgain ==
    IF mailbox # Blank
    THEN {[slot |-> mailbox.slot, version |-> mailbox.version]}
    ELSE {}

(* The confirmation boot_confirmation_consume finds, if any. *)
Received ==
    IF mailbox # Blank /\ mailbox.magic = "CONFIRM"
    THEN {[slot |-> mailbox.slot, version |-> mailbox.version]}
    ELSE {}

(* boot_confirmation_consume, ota_boot_decide and, when the record has     *)
(* changed, the start of its commit.                                       *)
Decide ==
    /\ pc = "decide"
    /\ mailbox' = IF Received = {} THEN mailbox
                  ELSE [mailbox EXCEPT !.magic = "CONFIRMED"]
    /\ LET d == BootDecide(table, Received, [s \in Slots |-> Bootable(s)]) IN
       /\ run' = d.run
       /\ \/ /\ d.commit
             /\ Store!Begin(d.table)
             /\ pc' = "commit"
          \/ /\ ~d.commit
             /\ storeUnchanged
             /\ pc' = "loop"
    /\ upd' = FreshSession
    /\ written' = {}
    /\ UNCHANGED <<hdr, area, faults, running, jumps, earned>>

-----------------------------------------------------------------------------
(* The update window.                                                      *)

Start(h, seq, r) ==
    \/ StartRejected(h, r)
    \/ StartFlashError(h, r)
    \/ StartAccepted(h, seq, r)

Data(seq, len, b, r) ==
    \/ DataRejected(seq, len, b, r)
    \/ DataRefused(seq, len, b, r)
    \/ DataStored(seq, len, b, r)
    \/ DataSpoilt(seq, len, b, r)
    \/ DataBeyond(seq, len, b, r)

(* Every outcome of END_UPDATE but the last is answered at once. *)
End(r) ==
    \/ EndRejected(r)
    \/ EndUnverified(r)
    \/ EndHeaderError(r)
    \/ EndCommit

(* A slot whose header page changes no longer holds the image the history  *)
(* is about.                                                               *)
SessionHistory ==
    /\ written' = written \cup {s \in Slots : hdr'[s] # hdr[s]}
    /\ jumps' = [s \in Slots |-> IF hdr'[s] = hdr[s] THEN jumps[s] ELSE 0]
    /\ earned' = [s \in Slots |-> hdr'[s] = hdr[s] /\ earned[s]]

Command ==
    /\ pc = "loop"
    /\ \E r \in Reply :
          \/ NoEffect(r)
          \/ Abort(r)
          \/ \E h \in Headers, seq \in 0 .. SeqMod - 1 : Start(h, seq, r)
          \/ \E seq \in 0 .. SeqMod - 1, len \in Lengths, b \in Contents : Data(seq, len, b, r)
          \/ End(r)
    /\ UNCHANGED bootVars
    /\ SessionHistory

SessionTimeout ==
    /\ pc = "loop"
    /\ Timeout
    /\ UNCHANGED <<bootVars, historyVars>>

EndReturns ==
    /\ pc = "loop"
    /\ \E r \in Reply : EndDone(r) \/ EndFailed(r)
    /\ UNCHANGED <<bootVars, historyVars>>

(* The end of the update window: a jump to the slot decided at start-up.   *)
(* An image that is no longer whole may run or run wild.                   *)
Jump ==
    /\ pc = "loop"
    /\ stage = "ready"
    /\ upd.state = "IDLE"
    /\ run \in Slots
    /\ running' = run
    /\ pc' \in IF Bootable(run) THEN {"app"}
               ELSE IF area[run][0] \in Payload THEN {"app", "wild"}
               ELSE {"wild"}
    /\ jumps' = IF run = table.pending /\ jumps[run] <= MaxAttempts
                THEN [jumps EXCEPT ![run] = @ + 1] ELSE jumps
    /\ UNCHANGED <<sessionVars, mailbox, run, written, earned>>

-----------------------------------------------------------------------------
(* Resets.                                                                 *)

(* Mutant: start-up clears the SRAM the mailbox is in. *)
RestartForgets(mail) ==
    /\ pc' = "reset"
    /\ mailbox' = Blank
    /\ upd' = FreshSession
    /\ run' = NONE
    /\ running' = NONE
    /\ UNCHANGED faults

Restart(mail) ==
    /\ pc' = "reset"
    /\ mailbox' = mail
    /\ upd' = FreshSession
    /\ run' = NONE
    /\ running' = NONE
    /\ UNCHANGED faults

Reset(mail) == Restart(mail) /\ Store!Crash

(* The loop sees READY_TO_BOOT: boot_confirmation_clear and a reset. *)
ReadyReset ==
    /\ pc = "loop"
    /\ stage = "ready"
    /\ upd.state = "READY_TO_BOOT"
    /\ Reset(Blank)
    /\ UNCHANGED <<hdr, area, historyVars>>

(* RESET resets inside the handler, so its ACK is never sent. *)
HostReset ==
    /\ pc = "loop"
    /\ Listening
    /\ Reset(mailbox)
    /\ UNCHANGED <<hdr, area, historyVars>>

(* Mutant: boot_confirm always asks for a reset. *)
AppConfirmAlways ==
    /\ pc = "app"
    /\ LET p == area[running][0] IN
       /\ p \in Confirming
       /\ Reset([magic |-> "CONFIRM", slot |-> LinkSlot[p], version |-> AppVersion[p]])
    /\ earned' = [earned EXCEPT ![running] = TRUE]
    /\ UNCHANGED <<hdr, area, written, jumps>>

(* boot_confirm in a running build; it returns early when the bootloader   *)
(* has marked this slot and version confirmed.                             *)
AppConfirm ==
    /\ pc = "app"
    /\ LET p == area[running][0] IN
       /\ p \in Confirming
       /\ mailbox # [magic |-> "CONFIRMED", slot |-> LinkSlot[p], version |-> AppVersion[p]]
       /\ Reset([magic |-> "CONFIRM", slot |-> LinkSlot[p], version |-> AppVersion[p]])
    /\ earned' = [earned EXCEPT ![running] = TRUE]
    /\ UNCHANGED <<hdr, area, written, jumps>>

(* A cut while the loop handles a command spoils the header page START or  *)
(* END is writing, or the cells DATA is writing.                           *)
TornSlot ==
    /\ pc = "loop" /\ Listening
    /\ \/ /\ \E s \in Slots : Writable(s) /\ hdr' = [hdr EXCEPT ![s] = Junk]
          /\ UNCHANGED <<area, copies>>
       \/ /\ upd.state = "RECEIVING" /\ Remaining # 0
          /\ LET n == PageSize - (upd.received % PageSize) IN
             RangeAllowed(At, n) /\ Overwrite(At, n)

(* A reset that keeps SRAM, or a loss of power that does not, at any time. *)
CrashReset ==
    /\ pc # "reset"
    /\ \E mail \in {mailbox, Blank} :
          \/ Reset(mail) /\ UNCHANGED <<hdr, area>>
          \/ TornSlot /\ Restart(mail) /\ stage' = "off" /\ UNCHANGED <<meta, metaCopy, dest>>
    /\ SessionHistory

Next ==
    \/ LoadMetadata
    \/ ReconstructMetadata
    \/ Commit
    \/ CommitReturns
    \/ Decide
    \/ Command
    \/ SessionTimeout
    \/ EndReturns
    \/ Jump
    \/ ReadyReset
    \/ HostReset
    \/ AppConfirm
    \/ CrashReset

Spec == Init /\ [][Next]_vars

=============================================================================
