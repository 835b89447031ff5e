CONSTANTS
    p1 = p1
    p2 = p2
    x = x
    Procs = {p1, p2}
    Configs = {x}
    AnyRole = {"release"}
    MaxGen = 2
    MaxSeq = 2
    MaxDamage = 1
SPECIFICATION Spec
SYMMETRY Symmetry
INVARIANTS RecordsBelowFloor StaleWritersConflict AckedIsDurable OneDamagedFileTolerated NoRollbackAccepted
PROPERTIES HoldIsBounded ImplementsLog
