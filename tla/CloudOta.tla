------------------------------- MODULE CloudOta -------------------------------
(***************************************************************************)
(* The cloud client of the update session                                  *)
(* (tm4c_uart_esp32_bridge/cloud_ota.c) as operators: a package comes in   *)
(* cell by cell and goes to the update engine as START, DATA and END.  The *)
(* engine is what cloud_ota.c sees of bl_update.c.                         *)
(*                                                                         *)
(* A package is a header structure, padding up to the end of the header    *)
(* page, and a payload.  A cell the client gets is right or not: the       *)
(* package's at the position the client has reached, or anything else.     *)
(***************************************************************************)
EXTENDS Integers

CONSTANTS
    HeaderSize,     \* cells of ota_firmware_header_t
    HeaderPage,     \* OTA_SLOT_HEADER_SIZE
    MaxPayload,     \* OTA_SLOT_PAYLOAD_SIZE
    ChunkSize       \* OTA_PROTOCOL_MAX_PAYLOAD_SIZE and OTA_HTTP_CHUNK_SIZE

ASSUME CloudOtaAssumption ==
    /\ HeaderSize \in Nat \ {0} /\ HeaderPage \in Nat /\ HeaderSize <= HeaderPage
    /\ MaxPayload \in Nat \ {0} /\ ChunkSize \in Nat \ {0}

(* size: of the file; header: the structure is valid, for the version      *)
(* requested and for this size; slot: its target is not the active slot;   *)
(* image: the payload's CRC and vector table are right.                    *)
Package == [size: Nat, header: BOOLEAN, slot: BOOLEAN, image: BOOLEAN]

(* The update engine: the payload it has got, whether that is the          *)
(* package's, and next_sequence.                                           *)
Engine == [state: {"IDLE", "RECEIVING", "READY_TO_BOOT"},
           got: Nat, right: BOOLEAN, next: Nat]

IdleEngine == [state |-> "IDLE", got |-> 0, right |-> TRUE, next |-> 0]

(* cloud_ota_t.  attached is update # NULL, got is package_received and    *)
(* header_received is the part of it below HeaderSize; right says that the *)
(* header and the chunk hold the package's bytes.                          *)
Cloud == [attached: BOOLEAN, size: Nat, got: Nat, chunk: Nat, right: BOOLEAN,
          sequence: Nat, started: BOOLEAN]

ClearedCloud ==
    [attached |-> FALSE, size |-> 0, got |-> 0, chunk |-> 0, right |-> TRUE,
     sequence |-> 0, started |-> FALSE]

-----------------------------------------------------------------------------
(* Every operation yields the set of its outcomes, which a flash operation *)
(* that fails makes more than one: the client and the engine after it, and *)
(* whether the result is CLOUD_OTA_OK.                                     *)
Outcome(cloud, engine, ok) == [cloud |-> cloud, engine |-> engine, ok |-> ok]

Submitted(cloud) == [cloud EXCEPT !.sequence = @ + 1]

(* Mutant: START does not begin again from the first byte. *)
SubmitStartContinues(cloud, engine, pkg) ==
    LET opened == [state |-> "RECEIVING", got |-> engine.got, right |-> TRUE,
                   next |-> cloud.sequence + 1]
    IN  {Outcome(Submitted(cloud), engine, FALSE)}
            \cup IF pkg.slot
                 THEN {Outcome([Submitted(cloud) EXCEPT !.started = TRUE], opened, TRUE)}
                 ELSE {}

(* submit(START_UPDATE), and what the engine makes of it.                  *)
SubmitStart(cloud, engine, pkg) ==
    LET opened == [state |-> "RECEIVING", got |-> 0, right |-> TRUE,
                   next |-> cloud.sequence + 1]
    IN  {Outcome(Submitted(cloud), engine, FALSE)}
            \cup IF pkg.slot
                 THEN {Outcome([Submitted(cloud) EXCEPT !.started = TRUE], opened, TRUE)}
                 ELSE {}

(* start_from_header, when the header structure is complete. *)
StartFromHeader(cloud, engine, pkg) ==
    IF cloud.right /\ pkg.header /\ cloud.size = pkg.size
    THEN SubmitStart(cloud, engine, pkg)
    ELSE {Outcome(cloud, engine, FALSE)}

DataInOrder(cloud, engine, pkg) ==
    /\ engine.state = "RECEIVING"
    /\ cloud.sequence = engine.next
    /\ engine.got + cloud.chunk <= pkg.size - HeaderPage

(* Mutant: the chunk is not emptied. *)
FlushKeepsChunk(cloud, engine, pkg) ==
    IF cloud.chunk = 0 \/ ~DataInOrder(cloud, engine, pkg)
    THEN {Outcome(cloud, engine, cloud.chunk = 0)}
    ELSE {Outcome(Submitted(cloud),
                  [engine EXCEPT !.got = @ + cloud.chunk, !.next = @ + 1], TRUE)}

(* flush_chunk *)
FlushChunk(cloud, engine, pkg) ==
    IF cloud.chunk = 0 THEN {Outcome(cloud, engine, TRUE)}
    ELSE {Outcome(Submitted(cloud), engine, FALSE)}
            \cup IF DataInOrder(cloud, engine, pkg)
                 THEN {Outcome([Submitted(cloud) EXCEPT !.chunk = 0],
                               [engine EXCEPT !.got = @ + cloud.chunk,
                                              !.right = @ /\ cloud.right,
                                              !.next = @ + 1],
                               TRUE)}
                 ELSE {}

(* cloud_ota_begin *)
Begin(size) ==
    IF size <= HeaderPage \/ size > HeaderPage + MaxPayload
    THEN ClearedCloud
    ELSE [ClearedCloud EXCEPT !.attached = TRUE, !.size = size]

(* cloud_ota_write of one cell.  A chunk that could not be flushed is never *)
(* added to: the controller stops the stream. *)
Write(cloud, engine, pkg, right) ==
    LET read == [cloud EXCEPT !.got = @ + 1] IN
    IF ~cloud.attached \/ cloud.got >= cloud.size
    THEN {Outcome(cloud, engine, FALSE)}
    ELSE IF cloud.got < HeaderSize
    THEN LET head == [read EXCEPT !.right = @ /\ right] IN
         IF head.got = HeaderSize
         THEN StartFromHeader(head, engine, pkg)
         ELSE {Outcome(head, engine, TRUE)}
    ELSE IF cloud.got < HeaderPage
    THEN {Outcome(read, engine, TRUE)}
    ELSE LET full == [read EXCEPT !.right = @ /\ right, !.chunk = @ + 1] IN
         IF full.chunk = ChunkSize
         THEN FlushChunk(full, engine, pkg)
         ELSE {Outcome(full, engine, TRUE)}

(* The engine's END_UPDATE, whose verification reads back the payload.     *)
SubmitEnd(cloud, engine, pkg) ==
    {Outcome(Submitted(cloud), engine, FALSE)}
        \cup IF /\ engine.state = "RECEIVING"
                /\ engine.got = pkg.size - HeaderPage
                /\ engine.right /\ pkg.image
             THEN {Outcome(Submitted(cloud), [engine EXCEPT !.state = "READY_TO_BOOT"], TRUE)}
             ELSE {}

(* cloud_ota_finish *)
Finish(cloud, engine, pkg) ==
    IF ~cloud.attached \/ ~cloud.started \/ cloud.got # cloud.size
    THEN {Outcome(cloud, engine, FALSE)}
    ELSE UNION {IF f.ok THEN SubmitEnd(f.cloud, f.engine, pkg) ELSE {f} :
                f \in FlushChunk(cloud, engine, pkg)}

(* cloud_ota_abort *)
Abort(cloud, engine) ==
    IF cloud.attached /\ cloud.started /\ engine.state = "RECEIVING"
    THEN Outcome([Submitted(cloud) EXCEPT !.started = FALSE, !.chunk = 0],
                 [engine EXCEPT !.state = "IDLE"], TRUE)
    ELSE Outcome(cloud, engine, TRUE)

=============================================================================
