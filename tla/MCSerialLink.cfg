\* An update, a reset and the update twice more, three troubles, a prompt line and a slow one.
CONSTANTS
    v1 = v1
    v2 = v2
    a1 = a1
    b2 = b2
    Version = {v1, v2}
    Payload = {a1, b2}
    LinkSlot <- MCLinkSlot
    AppVersion <- MCAppVersion
    SlotSize = 8
    MaxAttempts = 3
    PageSize = 4
    WordSize = 2
    Erased = Erased
    Junk = Junk
    Bad = Bad
    GenMod = 4
    SeqMod = 8
    LenMod = 16
    FaultKinds = {}
    MaxFaults = 0
    Confirming = {a1, b2}
    Factory <- MCFactory
    Headers <- MCHeaders
    Lengths = {1, 2}
    Contents = {b2, Junk}
    Script <- MCUpdateAgain
    File <- MCFile
    Chunk = 2
    Retries = 2
    MaxTrouble = 3
SPECIFICATION LinkFairSpec
INVARIANTS LinkTypeOK TransferIsPrefix FailureHasCause
PROPERTIES DoneMeansInstalled RetryStoresNothing HostFinishes InstalledImageConfirmed
\* The script ends.
CHECK_DEADLOCK FALSE
