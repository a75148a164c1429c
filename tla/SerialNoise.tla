----------------------------- MODULE SerialNoise -----------------------------
(* The serial line into the parser of ProtocolParser.tla: frames as the    *)
(* encoder makes them, of which bytes are damaged or lost, with noise and  *)
(* silences between them.  The line is external.                           *)
EXTENDS ProtocolParser

CONSTANT Packets        \* what is sent

ASSUME NoiseAssumption ==
    /\ Packets \subseteq Packet
    /\ \A p \in Packets :
          /\ Len(p.payload) \in Byte
          /\ Crc(Covered(p)) \in Seq(Byte) /\ Len(Crc(Covered(p))) = CrcSize

VARIABLES
    sent,       \* the packet being sent
    rest,       \* the bytes of its frame still to come
    intact      \* history: the parser was between frames, and no byte was damaged

noiseVars == <<parserVars, sent, rest, intact>>

BetweenFrames == parser.state \in {"SOF0", "SOF1"}

NoiseInit ==
    /\ ParserInit
    /\ sent \in Packets /\ rest = <<>> /\ intact = FALSE

NoiseTypeOK ==
    /\ ParserTypeOK
    /\ sent \in Packets /\ rest \in Seq(Byte) /\ intact \in BOOLEAN

(* The first byte of a frame, which may follow a silence. *)
FrameBegins ==
    /\ rest = <<>>
    /\ \E p \in Packets, late \in BOOLEAN :
          /\ Consume(SOF0, late)
          /\ sent' = p /\ rest' = Tail(Encode(p))
          /\ intact' = (late \/ BetweenFrames)

FrameContinues ==
    /\ rest # <<>>
    /\ Consume(Head(rest), FALSE)
    /\ rest' = Tail(rest)
    /\ UNCHANGED <<sent, intact>>

(* A byte of the frame comes late, damaged or not at all. *)
FrameSuffers ==
    /\ rest # <<>>
    /\ \/ Consume(Head(rest), TRUE)
       \/ \E byte \in Byte : Consume(byte, FALSE)
       \/ UNCHANGED parserVars
    /\ rest' = Tail(rest)
    /\ intact' = FALSE
    /\ UNCHANGED sent

Noise ==
    /\ rest = <<>>
    /\ \E byte \in Byte, late \in BOOLEAN : Consume(byte, late)
    /\ intact' = FALSE
    /\ UNCHANGED <<sent, rest>>

NoiseNext == FrameBegins \/ FrameContinues \/ FrameSuffers \/ Noise

NoiseSpec == NoiseInit /\ [][NoiseNext]_noiseVars

(* A frame that nothing damages is heard with its last byte, whatever came *)
(* before it, if it follows a silence or the parser is not inside another. *)
(* So a damaged frame costs the frames after it only until a silence.      *)
IntactFrameHeard == intact /\ rest = <<>> => packet = {sent}

=============================================================================
