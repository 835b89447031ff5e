CONSTANTS
    HHDM = HHDM
    ACPI = ACPI
    Ids = {HHDM, ACPI}
    Bodies <- MCBodies
    MaxTag = 64
    MaxTags = 3
    MaxPhys = 184
    MaxInfo = 264
    SizeMax = 384
    ArenaPhys <- MCArenaPhys
    Capacities <- MCCapacities
    TagSizes <- MCTagSizes
    BlobSizes <- MCBlobSizes
    Hints <- MCHints
    Windows <- MCNone
    Arenas <- MCNone
    StopSets <- MCStops
    MaxFaults = 1
    DamagedNexts <- MCDamagedNexts
    DamagedSizes <- MCDamagedSizes
SPECIFICATION HandoffSpec
INVARIANTS HandoffIsFaithful BodyDamageIsContained
PROPERTY OnlySealedTagsDelivered
CHECK_DEADLOCK FALSE
