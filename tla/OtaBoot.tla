------------------------------- MODULE OtaBoot -------------------------------
(***************************************************************************)
(* The slot table of the metadata record (common/inc/ota_types.h), images  *)
(* and their validation (common/src/ota_image.c), and the boot decision    *)
(* (common/src/ota_boot.c) as operators on a slot table.                   *)
(***************************************************************************)
EXTENDS Integers

CONSTANTS
    Version,        \* firmware versions
    Payload,        \* distinct application builds
    LinkSlot,       \* LinkSlot[p]: the slot p's vector table points into
    SlotSize,       \* cells of a slot's payload area
    MaxAttempts,    \* OTA_PENDING_BOOT_MAX_ATTEMPTS, 3 in the code
    Erased, Junk    \* contents of flash that are no part of an image

Slots == {"A", "B"}
NONE == "none"

Other(s) == IF s = "A" THEN "B" ELSE "A"

ASSUME VersionAssumption == Version # {}
ASSUME LinkSlotAssumption == LinkSlot \in [Payload -> Slots]
ASSUME SlotSizeAssumption == SlotSize \in Nat \ {0}
ASSUME MaxAttemptsAssumption == MaxAttempts \in Nat \ {0}
ASSUME ContentAssumption == Erased # Junk /\ Erased \notin Payload /\ Junk \notin Payload

(* EMPTY is also the state reconstruct_metadata gives a slot that holds no *)
(* image; CONFIRMED is defined by the code and never used.                 *)
State == {"EMPTY", "VALID", "ACTIVE", "PENDING", "FAILED"}

SlotRecord == [state: State, version: Version, count: 0 .. MaxAttempts]

SlotTable == [slot: [Slots -> SlotRecord],
              active: Slots \cup {NONE},
              pending: Slots \cup {NONE}]

-----------------------------------------------------------------------------
(* Images.  A header names its target slot and describes a payload by size *)
(* and CRC; "ok" stands for its magic, schema, reserved bytes and own CRC. *)
(* A CRC identifies the bytes it was computed over.                        *)

HeaderTarget == Slots \cup {"other"}

Header == [ok: BOOLEAN, target: HeaderTarget, version: Version,
           size: Nat, payload: Payload]

ASSUME HeaderContentAssumption == Erased \notin Header /\ Junk \notin Header

Byte == Payload \cup {Erased, Junk}     \* one cell of a payload area

HeaderValid(h, s) ==
    /\ h.ok
    /\ s \in Slots
    /\ h.target = s
    /\ h.size \in 1 .. SlotSize

(* The first cell of a payload is its vector table. *)
VectorValid(area, s) ==
    /\ area[0] \in Payload
    /\ LinkSlot[area[0]] = s

PayloadCrcMatches(area, h) ==
    \A i \in 0 .. h.size - 1 : i < SlotSize /\ area[i] = h.payload

(* ota_image_validate on a slot whose header page holds h. *)
ImageValid(h, area, s) ==
    /\ h \in Header
    /\ HeaderValid(h, s)
    /\ VectorValid(area, s)
    /\ PayloadCrcMatches(area, h)

-----------------------------------------------------------------------------
(* The boot decision.  ok[s] says whether slot s probes as bootable; conf  *)
(* is the set of the confirmation received, or empty.                      *)

Confirmed(tab, conf, ok) ==
    /\ [slot |-> tab.pending, version |-> tab.slot[tab.pending].version] \in conf
    /\ ok[tab.pending]

(* Mutant: one attempt too many. *)
ExhaustedLate(tab, ok) ==
    \/ ~ok[tab.pending]
    \/ tab.slot[tab.pending].count > MaxAttempts

Exhausted(tab, ok) ==
    \/ ~ok[tab.pending]
    \/ tab.slot[tab.pending].count >= MaxAttempts

(* The table after an accepted confirmation. *)
Promote(tab) ==
    [slot |-> [s \in Slots |->
                  IF s = tab.pending
                  THEN [tab.slot[s] EXCEPT !.state = "ACTIVE", !.count = 0]
                  ELSE IF s = tab.active
                  THEN [tab.slot[s] EXCEPT !.state = "VALID"]
                  ELSE tab.slot[s]],
     active |-> tab.pending,
     pending |-> NONE]

(* The table after the pending image is given up. *)
GiveUp(tab) ==
    [tab EXCEPT !.slot[tab.pending].state = "FAILED", !.pending = NONE]

(* Mutant: attempts are not counted. *)
AttemptUncounted(tab) == tab

(* The table after one more attempt at the pending image. *)
Attempt(tab) ==
    [tab EXCEPT !.slot[tab.pending].count = @ + 1]

(* Mutant: the backup is run without being validated. *)
FallbackUnprobed(tab, ok) ==
    IF tab.active \in Slots /\ ok[tab.active] THEN tab.active ELSE Other(tab.active)

(* The slot to run when nothing is pending: the active one, else the other *)
(* one (slot A when none is active), else NONE for OTA_BOOT_STAY.          *)
Fallback(tab, ok) ==
    IF tab.active \in Slots /\ ok[tab.active] THEN tab.active
    ELSE IF ok[Other(tab.active)] THEN Other(tab.active)
    ELSE NONE

(* ota_boot_decide: the new table, whether it is to be committed and the   *)
(* slot to run.                                                            *)
BootDecide(tab, conf, ok) ==
    IF tab.pending \notin Slots THEN
        [table |-> tab, commit |-> FALSE, run |-> Fallback(tab, ok)]
    ELSE IF Confirmed(tab, conf, ok) THEN
        [table |-> Promote(tab), commit |-> TRUE, run |-> tab.pending]
    ELSE IF Exhausted(tab, ok) THEN
        [table |-> GiveUp(tab), commit |-> TRUE, run |-> Fallback(GiveUp(tab), ok)]
    ELSE
        [table |-> Attempt(tab), commit |-> TRUE, run |-> tab.pending]

=============================================================================
