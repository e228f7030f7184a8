CONSTANTS
    Device = {a, b, c}
    Call = {p, q}
    OfferId = {o1, o2}
    Code = {x, y}
    None = None
    MaxTargets = 1
    MaxLookupAttempts = 2
    MaxUpsets = 1
SPECIFICATION Spec
SYMMETRY Symmetry
CHECK_DEADLOCK FALSE
INVARIANT TypeOK
INVARIANT Consent
INVARIANT OneCeremony
INVARIANT Durable
INVARIANT Mutual
