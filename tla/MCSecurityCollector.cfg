CONSTANTS
    HHDM = HHDM
    SECURITY = SECURITY
    Ids = {HHDM, SECURITY}
    Bodies <- MCBodies
    MaxTag = 128
    MaxTags = 2
    MaxPhys = 600
    MaxInfo = 592
    SizeMax = 1023
    ArenaPhys <- MCArenaPhys
    Capacities <- MCCapacities
    TagSizes <- MCTagSizes
    BlobSizes <- MCBlobSizes
    Counts <- MCCounts
    MaxMeasurements = 2
    MaxCalls = 2
    DataLengths <- MCDataLengths
    Registers <- MCRegisters
    BlockBytes = 8
    LengthBytes = 2
    DigestBytes = 4
SPECIFICATION CollectSpec
INVARIANTS LogMatchesPcr PlanIsExact LogReplaysToRegister
PROPERTIES FailureIsAtomic
CHECK_DEADLOCK FALSE
