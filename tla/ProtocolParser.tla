---------------------------- MODULE ProtocolParser ----------------------------
(***************************************************************************)
(* The parser of the bootloader's serial protocol                          *)
(* (common/src/ota_protocol.c), byte by byte, and the encoder of frames.   *)
(* One action per state, as in the switch of ota_parser_consume, and one   *)
(* for the time-out before it.                                             *)
(***************************************************************************)
EXTENDS Integers, Sequences

CONSTANTS Byte, SOF0, SOF1, Version, MaxPayload, CrcSize, Crc(_)    \* see FrameReader

ASSUME FrameAssumption ==
    /\ Byte \subseteq Nat /\ {SOF0, SOF1, Version} \subseteq Byte /\ SOF0 # SOF1
    /\ MaxPayload \in Nat /\ CrcSize \in Nat \ {0}

VARIABLES
    parser,     \* ota_parser_t: its state and what each part of the frame has so far
    result,     \* what the last call returned
    packet      \* the set of the packet it gave out, or empty

parserVars == <<parser, result, packet>>

HeaderSize == 3         \* version, command with sequence number, length

Packet == [command: Byte, payload: {s \in Seq(Byte) : Len(s) <= MaxPayload}]

ParserTypeOK ==
    /\ parser \in [state: {"SOF0", "SOF1", "HEADER", "PAYLOAD", "CRC"},
                   header: Seq(Byte), payload: Seq(Byte), crc: Seq(Byte)]
    /\ result \in {"MORE", "PACKET", "TIMEOUT", "BAD_LENGTH", "BAD_CRC"}
    /\ Len(parser.header) <= HeaderSize
    /\ Len(parser.payload) <= MaxPayload
    /\ Len(parser.crc) < CrcSize
    /\ \A p \in packet : p.command \in Byte /\ p.payload \in Seq(Byte)
    /\ result = "PACKET" <=> packet # {}

(* The part of a frame that its CRC is taken of. *)
Covered(p) == <<Version, p.command, Len(p.payload)>> \o p.payload

(* ota_packet_encode *)
Encode(p) == <<SOF0, SOF1>> \o Covered(p) \o Crc(Covered(p))

In(state) == [state |-> state, header |-> <<>>, payload |-> <<>>, crc |-> <<>>]

(* Mutant: the byte a frame ends with is not looked at. *)
RestartedBlind(byte) == In("SOF0")

(* parser_restart *)
Restarted(byte) == In(IF byte = SOF0 THEN "SOF1" ELSE "SOF0")

(* ota_parser_init *)
ParserInit == parser = In("SOF0") /\ result = "MORE" /\ packet = {}

Returns(r) == result' = r /\ packet' = {}

-----------------------------------------------------------------------------
(* ota_parser_consume: the byte comes more than OTA_PACKET_TIMEOUT_MS      *)
(* after the one before, or not.                                           *)

TimedOut(byte) ==
    /\ parser.state # "SOF0"
    /\ parser' = Restarted(byte)
    /\ Returns("TIMEOUT")

Sof0(byte) ==
    /\ parser.state = "SOF0"
    /\ parser' = IF byte = SOF0 THEN In("SOF1") ELSE parser
    /\ Returns("MORE")

Sof1(byte) ==
    /\ parser.state = "SOF1"
    /\ parser' = IF byte = SOF1 THEN In("HEADER") ELSE Restarted(byte)
    /\ Returns("MORE")

(* Mutant: a length that is too large is found one too late. *)
HeaderByteLong(byte) ==
    LET header == Append(parser.header, byte) IN
    /\ parser.state = "HEADER"
    /\ \/ /\ Len(header) < HeaderSize
          /\ parser' = [parser EXCEPT !.header = header]
          /\ Returns("MORE")
       \/ /\ Len(header) = HeaderSize /\ byte > MaxPayload + 1
          /\ parser' = Restarted(byte)
          /\ Returns("BAD_LENGTH")
       \/ /\ Len(header) = HeaderSize /\ byte <= MaxPayload + 1
          /\ parser' = [parser EXCEPT !.header = header,
                                      !.state = IF byte = 0 THEN "CRC" ELSE "PAYLOAD"]
          /\ Returns("MORE")

(* The length is the last field of the header. *)
HeaderByte(byte) ==
    LET header == Append(parser.header, byte) IN
    /\ parser.state = "HEADER"
    /\ \/ /\ Len(header) < HeaderSize
          /\ parser' = [parser EXCEPT !.header = header]
          /\ Returns("MORE")
       \/ /\ Len(header) = HeaderSize /\ byte > MaxPayload
          /\ parser' = Restarted(byte)
          /\ Returns("BAD_LENGTH")
       \/ /\ Len(header) = HeaderSize /\ byte <= MaxPayload
          /\ parser' = [parser EXCEPT !.header = header,
                                      !.state = IF byte = 0 THEN "CRC" ELSE "PAYLOAD"]
          /\ Returns("MORE")

PayloadByte(byte) ==
    LET payload == Append(parser.payload, byte) IN
    /\ parser.state = "PAYLOAD"
    /\ parser' = [parser EXCEPT !.payload = payload,
                                !.state = IF Len(payload) = parser.header[HeaderSize]
                                          THEN "CRC" ELSE "PAYLOAD"]
    /\ Returns("MORE")

(* Mutant: the version is not looked at. *)
CrcByteAnyVersion(byte) ==
    LET crc == Append(parser.crc, byte)
        right == crc = Crc(parser.header \o parser.payload)
    IN
    /\ parser.state = "CRC"
    /\ \/ /\ Len(crc) < CrcSize
          /\ parser' = [parser EXCEPT !.crc = crc]
          /\ Returns("MORE")
       \/ /\ Len(crc) = CrcSize /\ ~right
          /\ parser' = Restarted(byte)
          /\ Returns("BAD_CRC")
       \/ /\ Len(crc) = CrcSize /\ right
          /\ parser' = Restarted(byte)
          /\ result' = "PACKET"
          /\ packet' = {[command |-> parser.header[2], payload |-> parser.payload]}

(* The frame is judged when its last byte has come, and the parser starts  *)
(* again on that byte.                                                     *)
CrcByte(byte) ==
    LET crc == Append(parser.crc, byte)
        right == /\ parser.header[1] = Version
                 /\ crc = Crc(parser.header \o parser.payload)
    IN
    /\ parser.state = "CRC"
    /\ \/ /\ Len(crc) < CrcSize
          /\ parser' = [parser EXCEPT !.crc = crc]
          /\ Returns("MORE")
       \/ /\ Len(crc) = CrcSize /\ ~right
          /\ parser' = Restarted(byte)
          /\ Returns("BAD_CRC")
       \/ /\ Len(crc) = CrcSize /\ right
          /\ parser' = Restarted(byte)
          /\ result' = "PACKET"
          /\ packet' = {[command |-> parser.header[2], payload |-> parser.payload]}

InTime(byte) ==
    \/ Sof0(byte) \/ Sof1(byte) \/ HeaderByte(byte) \/ PayloadByte(byte) \/ CrcByte(byte)

Consume(byte, late) ==
    IF late /\ parser.state # "SOF0" THEN TimedOut(byte) ELSE InTime(byte)

ParserNext == \E byte \in Byte, late \in BOOLEAN : Consume(byte, late)

ParserSpec == ParserInit /\ [][ParserNext]_parserVars

-----------------------------------------------------------------------------
(* The bytes of the frame the parser is in. *)
Held ==
    CASE parser.state = "SOF0" -> <<>>
      [] parser.state = "SOF1" -> <<SOF0>>
      [] OTHER -> <<SOF0, SOF1>> \o parser.header \o parser.payload \o parser.crc

Reader == INSTANCE FrameReader WITH held <- Held, out <- packet

(* The parser, with its state, its indices and its separate buffers, is a  *)
(* reader of frames: it gives out a packet exactly when the bytes since it *)
(* last looked for a start are a frame with that version and that CRC.     *)
IsFrameReader == Reader!FrameReaderSpec

=============================================================================
