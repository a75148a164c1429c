CONSTANTS
    v1 = v1
    v2 = v2
    a1 = a1
    a2 = a2
    b1 = b1
    b2 = b2
    Version = {v1, v2}
    Payload = {a1, b2}
    LinkSlot <- MCLinkSlot
    AppVersion <- MCAppVersion
    SlotSize = 1
    MaxAttempts = 3
    PageSize = 1
    WordSize = 1
    Erased = Erased
    Junk = Junk
    Bad = Bad
    GenMod = 3
    SeqMod = 2
    LenMod = 16
    FaultKinds = {}
    MaxFaults = 0
    Confirming = {a1, b2}
    Factory <- MCFactory
    Headers <- MCHeaders
    Lengths = {1}
    Contents = {a1, b2}
SPECIFICATION Spec
INVARIANT TrialCanConfirm
