----------------------------- MODULE MCSerialLink -----------------------------
(* Instances of the PC tool and the bootloader for TLC: a factory image in *)
(* slot A and a file for slot B.                                           *)
EXTENDS LinkProperties

CONSTANTS v1, v2, a1, b2

MCLinkSlot == [p \in Payload |-> IF p = a1 THEN "A" ELSE "B"]
MCAppVersion == [p \in Payload |-> IF p = a1 THEN v1 ELSE v2]

Image(p) == [ok |-> TRUE, target |-> MCLinkSlot[p], version |-> MCAppVersion[p],
             size |-> SlotSize - 3, payload |-> p]

MCFile == Image(b2)
MCHeaders == {MCFile}
MCFactory == {Image(a1)}

MCUpdateAgain == <<"update", "reset", "update", "update">>
MCUpdateThenReset == <<"update", "reset">>

=============================================================================
