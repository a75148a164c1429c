----------------------------- MODULE FrameReader -----------------------------
(***************************************************************************)
(* What the serial parser promises: a reader that holds the bytes since    *)
(* the last start of a frame while they may still become one, and gives    *)
(* out the packet of each whole frame with the right version and CRC.  It  *)
(* never goes back over bytes it has given up, except that the byte on     *)
(* which it gives up may itself start a frame.                             *)
(***************************************************************************)
EXTENDS Integers, Sequences

CONSTANTS
    Byte,           \* the values of a field of a frame, one byte each here
    SOF0, SOF1, Version,
    MaxPayload,     \* OTA_PROTOCOL_MAX_PAYLOAD_SIZE
    CrcSize,        \* bytes of a CRC
    Crc(_)          \* the CRC of a sequence of bytes

VARIABLES
    held,       \* the bytes of a frame that is not whole yet
    out         \* the set of the packet the last byte completed, or empty

(* A header is version, command and length: the sequence number goes with  *)
(* the command.                                                            *)
HeaderSize == 3
Announced(frame) == frame[2 + HeaderSize]
FrameSize(frame) == 2 + HeaderSize + Announced(frame) + CrcSize

(* The bytes, at least one, may be the first of a frame. *)
MayBecomeFrame(bytes) ==
    /\ bytes[1] = SOF0
    /\ Len(bytes) >= 2 => bytes[2] = SOF1
    /\ Len(bytes) >= 2 + HeaderSize => Announced(bytes) <= MaxPayload

Whole(bytes) ==
    /\ MayBecomeFrame(bytes)
    /\ Len(bytes) >= 2 + HeaderSize
    /\ Len(bytes) = FrameSize(bytes)

Right(frame) ==
    /\ frame[3] = Version
    /\ SubSeq(frame, Len(frame) - CrcSize + 1, Len(frame)) =
          Crc(SubSeq(frame, 3, Len(frame) - CrcSize))

PacketOf(frame) ==
    [command |-> frame[4],
     payload |-> SubSeq(frame, 3 + HeaderSize, Len(frame) - CrcSize)]

Begun(byte) == IF byte = SOF0 THEN <<byte>> ELSE <<>>

ReaderInit == held = <<>> /\ out = {}

(* One more byte. *)
Read(byte) ==
    LET bytes == Append(held, byte) IN
    /\ held' = IF MayBecomeFrame(bytes) /\ ~Whole(bytes) THEN bytes ELSE Begun(byte)
    /\ out' = IF Whole(bytes) /\ Right(bytes) THEN {PacketOf(bytes)} ELSE {}

(* A byte after a silence, with which a frame that has begun ends. *)
ReadAfresh(byte) == held' = Begun(byte) /\ out' = {}

ReaderNext == \E byte \in Byte : Read(byte) \/ ReadAfresh(byte)

FrameReaderSpec == ReaderInit /\ [][ReaderNext]_<<held, out>>

=============================================================================
