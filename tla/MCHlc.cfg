SPECIFICATION Spec
CONSTANTS
    None = None
    Device = {1, 2}
    Self = 1
    MaxCounter = 2
    MaxDrift = 1
    Task = {t1, t2}
    Remote <- MCRemote
    MaxWall = 2
    MaxCalls = 4
INVARIANTS
    TypeOK
    AfterHeard
    NotPoisoned
PROPERTIES
    StampsIncrease
