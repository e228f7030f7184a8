SPECIFICATION FairSpec
CONSTANTS
    l1 = l1
    l2 = l2
    Device = {1, 2}
    MaxCounter = 3
    MaxDrift = 1
    Id = {1, 2}
    Hash = {h1}
    None = None
    Link = {l1}
    Dialler <- MCDialler
    Responder <- MCResponder
    BlobHash = {h1}
    Quota = 1
    Offset <- Skew
    MaxWall = 1
    MaxOps = 3
    MaxFaults = 1
INVARIANTS
    TypeOK
    OneTalker
    Provenance
    BlobsFollowRows
PROPERTIES
    SessionsEnd
    Delivered
