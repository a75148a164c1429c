---------------------------- MODULE MCSerialNoise ----------------------------
(* An instance of the serial parser for TLC: four bytes, all of which may  *)
(* be data, and a CRC that depends on the order of the bytes.              *)
EXTENDS SerialNoise, FiniteSets

MCCrc(bytes) ==
    LET weight(k) == Cardinality({i \in DOMAIN bytes : bytes[i] = k /\ i % 2 = 0})
        count(k) == Cardinality({i \in DOMAIN bytes : bytes[i] = k})
    IN  <<(count(1) + 2 * count(2) + 3 * count(3)) % 4,
          (weight(1) + 2 * weight(2) + 3 * weight(3) + Len(bytes)) % 4>>

MCPackets ==
    {[command |-> 0, payload |-> <<>>], [command |-> 3, payload |-> <<2>>],
     [command |-> 2, payload |-> <<3, 2>>], [command |-> 1, payload |-> <<3, 3>>]}

=============================================================================
