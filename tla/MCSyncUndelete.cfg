SPECIFICATION Spec
CONSTANTS
    l1 = l1
    l2 = l2
    Device = {1, 2}
    MaxCounter = 3
    MaxDrift = 1
    Id = {1, 2}
    Hash = {h1}
    None = None
    Link = {l1}
    Dialler <- MCDialler
    Responder <- MCResponder
    BlobHash = {}
    Quota = 1
    Offset <- NoSkew
    MaxWall = 1
    MaxOps = 3
    MaxFaults = 0
INVARIANTS
    UndeleteReplicates
