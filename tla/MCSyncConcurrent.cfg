SPECIFICATION Spec
CONSTANTS
    l1 = l1
    l2 = l2
    Device = {1, 2}
    MaxCounter = 3
    MaxDrift = 1
    Id = {1, 2}
    Hash = {h1}
    None = None
    Link = {l1, l2}
    Dialler <- MCDialler
    Responder <- MCResponder
    BlobHash = {h1}
    Quota = 0
    Offset <- NoSkew
    MaxWall = 0
    MaxOps = 2
    MaxFaults = 0
INVARIANTS
    NeverStuck
    OneLiveRow
    CleanSessionAgrees
    StampMeansState
