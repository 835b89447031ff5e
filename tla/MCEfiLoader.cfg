CONSTANTS
    MaxAttempts = 3
    Slack = 1
    SizeLimit = 5
    MaxMap = 5
    MaxChanges = 2
    MaxSegments = 2
SPECIFICATION LoaderSpec
INVARIANTS FinalMapIsCurrent QuietFirmwareExits CleanReturn HandoffStaysHeld
PROPERTY LoaderEnds
CHECK_DEADLOCK FALSE
