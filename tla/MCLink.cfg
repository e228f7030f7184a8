CONSTANTS
    Scripts <- MCScripts
    RekeyAfter = 5
    MaxFrames = 2
SPECIFICATION FairSpec
INVARIANTS NoncesAgree LimitMeetsTheSpeaker LastWordHeard
PROPERTIES ImplementsChannel BothEnd
CHECK_DEADLOCK FALSE
