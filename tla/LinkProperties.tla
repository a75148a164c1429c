---------------------------- MODULE LinkProperties ----------------------------
(* What the PC tool and the bootloader promise together, stated on the     *)
(* model of SerialLink.tla.                                                *)
EXTENDS SerialLink, BootloaderProperties

(* Whatever is sent again, lost or answered late, in this invocation or an *)
(* earlier one, what a session has stored is a prefix of the file: no DATA *)
(* is stored twice, left out or in another's place (the sequence check and *)
(* the duplicate rule of bl_update.c, the numbering of client.py).         *)
TransferIsPrefix ==
    upd.state = "RECEIVING" =>
        \A i \in 0 .. upd.received - 1 : area[File.target][i] = File.payload

(* update() returns without an error only if the device has the image,     *)
(* whole: no answer to another request, or to another invocation, is taken *)
(* for the one it waits for.                                               *)
DoneMeansInstalled ==
    [][Invocation = "update" /\ host.result = "going" /\ host'.result = "done" =>
          Bootable(File.target) /\ hdr[File.target] = File]_<<vars, linkVars>>

(* On a prompt line update() does not fail when nothing is lost and the    *)
(* device stays in its window: not because of what an earlier invocation   *)
(* left in the device or on the line, nor because END resets the device    *)
(* before the last request.  (A slot that the range guard does not let     *)
(* through, the active one or, on a blank board, slot B, is refused.)      *)
FailureHasCause ==
    line = "prompt" /\ Invocation = "update" /\ host.result = "failed" =>
        mishap \/ ~Writable(File.target)

(* On a prompt line only the first send of a request stores anything: the  *)
(* session times out before the second, so retries can repeat an answer    *)
(* but never make up for a DATA or a START that was lost.                  *)
RetryStoresNothing ==
    [][line = "prompt" /\ upd'.received > upd.received => host.sends = 1]_<<vars, linkVars>>

(* Every invocation comes to an end, on any line.                          *)
HostFinishes == <>(host.at = Len(Script) /\ host.result # "going")

(* The image of the last update that succeeded is in the end the active    *)
(* one: its window ends, it runs, and its confirmation is heard.           *)
InstalledImageConfirmed ==
    []<>(Invocation = "update" /\ host.result = "done") => <>[](table.active = File.target)

(* PROTOCOL.md, update order: three unconfirmed boots mark the new slot    *)
(* FAILED.  So a whole image that has never run is not given up.           *)
FailedOnlyAfterBoot ==
    [][\A s \in Slots :
          table.pending = s /\ table'.slot[s].state = "FAILED" /\ Bootable(s) =>
              jumps[s] > 0]_<<vars, linkVars>>

=============================================================================
