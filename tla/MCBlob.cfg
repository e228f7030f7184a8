SPECIFICATION Spec
CONSTANTS
    g1 = g1
    g2 = g2
    Digest <- Digests
    Session = {s1, s2}
    Capturer = c
    Inode = {1, 2, 3, 4, 5, 6, 7, 8}
    NoFile = NoFile
    Quota = 1
    MaxPuts = 4
    MaxCrashes = 1
INVARIANTS
    WholeAtPath
    GhostsAreCrashes
    LeaksAreCrashes
PROPERTIES
    PinnedBlobsStay
