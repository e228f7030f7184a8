CONSTANTS
    p = p
    l = l
    t = t
    Homes <- MCHomes
    Records <- MCRecords
    Peer = {p}
    Stranger = s
    None = none
    Addr = {l, t}
    OnTailnet = {t}
    LinkLocal = {}
    Writer = {v, w}
    Slot = {i}
    MaxLan = 1
    MaxFound = 1
    MaxAttempt = 1
    MaxTime = 2
    MaxUpsets = 2
SPECIFICATION Spec
INVARIANTS TableFollowsTrust
