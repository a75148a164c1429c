----------------------------- MODULE UpdateEngine -----------------------------
(***************************************************************************)
(* What bl_update.c promises whoever drives it, over a serial line or from *)
(* the cloud client: a session that counts its bytes and its packets       *)
(* together, starts from nothing, and ends installed only when it has as   *)
(* many bytes as announced.                                                *)
(***************************************************************************)
EXTENDS Integers

CONSTANT SeqMod         \* sequence numbers are counted modulo SeqMod

VARIABLES
    state,      \* "IDLE", "RECEIVING" or "READY_TO_BOOT"
    size,       \* the bytes announced
    got,        \* the bytes accepted
    next        \* the sequence number that is due

engineVars == <<state, size, got, next>>

EngineInit == state = "IDLE" /\ size = 0 /\ got = 0 /\ next = 0

(* A session starts, in place of an open one if there is one. *)
Open ==
    /\ state # "READY_TO_BOOT"
    /\ state' = "RECEIVING"
    /\ size' \in Nat /\ got' = 0 /\ next' \in 0 .. SeqMod - 1

(* A START that is refused changes what an open session has announced. *)
Announce ==
    /\ state = "RECEIVING"
    /\ size' \in Nat
    /\ UNCHANGED <<state, got, next>>

Counts == got' \in Nat /\ got' > got /\ next' = (next + 1) % SeqMod

Accept ==
    /\ state = "RECEIVING"
    /\ Counts
    /\ UNCHANGED <<state, size>>

(* The caller may have held back the last packet until now. *)
Finish ==
    /\ state = "RECEIVING" /\ state' = "READY_TO_BOOT"
    /\ Counts \/ UNCHANGED <<got, next>>
    /\ got' = size
    /\ UNCHANGED size

(* ABORT, a time-out or a reset, which alone ends a session that is ready. *)
Close == state' = "IDLE" /\ size' = 0 /\ got' = 0 /\ next' = 0

EngineNext == Open \/ Announce \/ Accept \/ Finish \/ Close

EngineSpec ==
    EngineInit /\ [][EngineNext]_engineVars

=============================================================================
