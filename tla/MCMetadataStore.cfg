\* Any number of commits, failed commits and crashes.
CONSTANTS
    Body = {b1,b2,b3}
    Bad = Bad
    GenMod = 6
SPECIFICATION StoreSpec
INVARIANTS StoreTypeOK LoadedCopyKept
PROPERTIES RecordSurvives DurableSpec
