CONSTANTS
    HHDM = HHDM
    Ids = {HHDM}
    Bodies <- MCBodies
    MaxTag = 64
    MaxTags = 3
    MaxPhys = 176
    MaxInfo = 242
    SizeMax = 255
    ArenaPhys <- MCArenaPhys
    Capacities <- MCCapacities
    TagSizes <- MCTagSizes
    BlobSizes <- MCBlobSizes
SPECIFICATION FairSpec
INVARIANTS AllocationsDisjoint ChainWellFormed SealedIsComplete
PROPERTIES OverflowFailsClosed FinalizeTerminates
CHECK_DEADLOCK FALSE
