\* Frames, damage, noise and silences.
CONSTANTS
    Byte = {0, 1, 2, 3}
    SOF0 = 3
    SOF1 = 2
    Version = 1
    MaxPayload = 2
    CrcSize = 2
    Crc <- MCCrc
    Packets <- MCPackets
SPECIFICATION NoiseSpec
INVARIANTS NoiseTypeOK IntactFrameHeard
PROPERTIES IsFrameReader
