CONSTANTS
    HHDM = "hhdm"
    Ids <- MCIds
    Bodies <- MCBodies
    MaxTag = 224
    MaxTags = 5
    MaxPhys = 920
    MaxInfo = 592
    SizeMax = 1023
    ArenaPhys <- MCArenaPhys
    Capacities <- MCCapacities
    TagSizes <- MCTagSizes
    BlobSizes <- MCBlobSizes
    MaxDim = 5
    PageSize = 64
    Snapshots <- MCSnapshots
    MaxCalls = 1
SPECIFICATION FairImportSpec
INVARIANTS ImportedIsSound
PROPERTIES AllOrNothing ImportReturns
CHECK_DEADLOCK FALSE
