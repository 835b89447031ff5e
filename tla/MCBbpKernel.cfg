CONSTANTS
    HHDM = HHDM
    ACPI = ACPI
    Ids = {HHDM, ACPI}
    Bodies = {}
    MaxTag = 64
    MaxTags = 3
    MaxPhys = 112
    MaxInfo = 200
    SizeMax = 224
    Hints <- MCHints
    Windows <- MCWindows
    Arenas <- MCArenas
    StopSets <- MCStops
SPECIFICATION Spec
INVARIANTS ReadsStayInBounds LookupsAgree
PROPERTY WalkTerminates
