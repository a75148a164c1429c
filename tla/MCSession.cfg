\* Transfers of several DATA packets, rejected STARTs and flash errors.
CONSTANTS
    v1 = v1
    v2 = v2
    a1 = a1
    a2 = a2
    b1 = b1
    b2 = b2
    Version = {v1, v2}
    Payload = {a1, b2}
    LinkSlot <- MCLinkSlot
    AppVersion <- MCAppVersion
    SlotSize = 4
    MaxAttempts = 1
    PageSize = 2
    WordSize = 2
    Erased = Erased
    Junk = Junk
    Bad = Bad
    GenMod = 3
    SeqMod = 2
    LenMod = 16
    FaultKinds = {"erase"}
    MaxFaults = 1
    Confirming = {}
    Factory <- MCFactory
    Headers <- MCAllHeaders
    Lengths = {1, 2}
    Contents = {b2}
SPECIFICATION Spec
PROPERTIES ActiveSlotUntouched HeaderProgrammedLast ImageLostOnlyWithHeader IsUpdateEngine
