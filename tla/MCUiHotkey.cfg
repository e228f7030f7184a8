CONSTANTS
    Id <- Clips
    Buffer = 2
    MaxOps = 1
    MaxRetries = 0
    MaxStops = 0
SPECIFICATION Spec
INVARIANTS HotkeyFollowsSettings
CHECK_DEADLOCK FALSE
