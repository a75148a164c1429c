----------------------------- MODULE MCBootloader -----------------------------
(* Instances of the bootloader for TLC. *)
EXTENDS BootloaderProperties

CONSTANTS v1, v2, a1, a2, b1, b2

(* a1, a2 are linked for slot A and b1, b2 for slot B. *)
MCLinkSlot == [p \in Payload |-> IF p \in {a1, a2} THEN "A" ELSE "B"]
MCAppVersion == [p \in Payload |-> IF p \in {a1, b1} THEN v1 ELSE v2]

ImageSize == IF SlotSize = 1 THEN 1 ELSE SlotSize - 1

Image(p) == [ok |-> TRUE, target |-> MCLinkSlot[p], version |-> MCAppVersion[p],
             size |-> ImageSize, payload |-> p]

MCFactory == {Image(a1)}
MCHeaders == {Image(p) : p \in Payload}

(* Also a header that ota_header_validate rejects: damaged, for no slot and *)
(* announcing a smaller payload.                                           *)
MCAllHeaders ==
    MCHeaders \cup {[Image(b2) EXCEPT !.ok = FALSE, !.target = "other", !.size = 1]}

=============================================================================
