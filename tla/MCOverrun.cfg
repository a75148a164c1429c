\* A session whose header a rejected START replaced runs into the metadata.
CONSTANTS
    v1 = v1
    v2 = v2
    a1 = a1
    a2 = a2
    b1 = b1
    b2 = b2
    Version = {v1, v2}
    Payload = {a1, b2}
    LinkSlot <- MCLinkSlot
    AppVersion <- MCAppVersion
    SlotSize = 4
    MaxAttempts = 1
    PageSize = 2
    WordSize = 1
    Erased = Erased
    Junk = Junk
    Bad = Bad
    GenMod = 3
    SeqMod = 2
    LenMod = 16
    FaultKinds = {"erase", "program"}
    MaxFaults = 0
    Confirming = {}
    Factory <- MCFactory
    Headers <- MCAllHeaders
    Lengths = {0, 1, 2}
    Contents = {b2}
SPECIFICATION Spec
PROPERTY RecordSurvives
