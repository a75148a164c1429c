\* The cloud client against any network and against a good one.
CONSTANTS
    HeaderSize = 1
    HeaderPage = 4
    MaxPayload = 3
    ChunkSize = 2
    Packages <- MCPackages
    Sizes = {0, 4, 6, 7}
    MaxRetries = 3
SPECIFICATION DeviceFairSpec
INVARIANTS HandoffTypeOK SessionFollowsClient RangeFollowsClient AttemptStartsClean StartsBounded
PROPERTIES DrivesUpdateEngine RequestHandedOver LeavesBootloader GoodNetworkUpdates
\* The bootloader ends with the reset into a new image.
CHECK_DEADLOCK FALSE
