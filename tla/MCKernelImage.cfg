CONSTANTS
    Images <- MCImages
    PageSize = 16
    Fan = 4
    Gbs = 2
    PoolPages = 13
    MaxHeaders = 3
    MaxLoad = 2
    PhysLimit = 640
    EhdrSize = 16
    PhdrSize = 8
    BearSize = 8
    RequestSize = 4
    MaxRequests = 4
    Machines <- MCMachines
    Holdings <- MCHoldings
    Oddities <- MCOddities
    MaxEntries = 10
SPECIFICATION ImageSpec
INVARIANTS KernelIsMapped TakenMemoryIsSafe
CHECK_DEADLOCK FALSE
