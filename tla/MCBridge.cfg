CONSTANTS
    Ids = {"hhdm", "mods", "cmdline", "misc"}
    HHDM = "hhdm"
    Bodies = {0, 1}
    MaxTag = 120
    MaxTags = 3
    MaxPhys = 8192
    MaxInfo = 560
    SizeMax = 100000
    Hints = {0}
    Windows = {}
    Arenas = {}
    StopSets = {}
    MaxDirents = 5
    MaxAlignment = 16
    MaxExtent = 560
    MaxCrcWork = 600
    Opaque = {"misc"}
    Arrays = {"mods"}
    Pointers = {"mods", "cmdline"}
    FixedSize <- MCFixedSize
    Stride = 12
    Sources <- MCSources
    FromCalls <- MCFromCalls
    ToCalls <- MCToCalls
    Profiles <- MCProfiles
    MaxU64 = 15
    MaxMemories = 2
    Offsets = {60, 64, 112, 300, 312, 400, 416, 568}
    Alignments = {1, 3, 16, 32}
    MaxEdits = 1
SPECIFICATION BridgeSpec
INVARIANTS
    ParsersAreExact
    ProfileIsUnambiguous
    BridgeIsFaithful
CHECK_DEADLOCK FALSE
