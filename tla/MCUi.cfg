CONSTANTS
    Id <- Clips
    Buffer = 1
    MaxOps = 2
    MaxRetries = 1
    MaxStops = 1
SPECIFICATION FairSpec
INVARIANTS ListTellsTheHistory TrayTellsTheStatus
PROPERTIES AppRecovers
CHECK_DEADLOCK FALSE
