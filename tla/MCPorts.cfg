SPECIFICATION PortSpec
CONSTANTS
    Ids = {0, 1, 2, 3, 4, 5, 6, 7, 8}
    HHDM = 1
    Bodies = {0}
    MaxTag = 400
    MaxTags = 8
    MaxPhys = 100000
    MaxInfo = 2000
    SizeMax = 1000000
    ArenaPhys = {4096, 8192}
    Capacities = {0}
    TagSizes = {0}
    BlobSizes = {0}
    Hints = {0}
    Windows = {}
    Arenas = {}
    StopSets = {}
    PortNames = {"josh", "minix", "tina", "linux01"}
    Snapshots <- MCSnapshots
    StaticArena = 4096
    ArenaBytes = 544
    Offset = 50000
    KernelSlide = 120000
    MaxEntries = 3
    MaxCpus = 2
    MaxCalls = 2
INVARIANTS
    ParserReadsArena
    PublishedIsOffered
CHECK_DEADLOCK FALSE
