CONSTANTS
    w = w
    o = o
    text = text
    cut = cut
    image = image
    password = password
    key = key
    huge = huge
    Device = {w, o}
    Setups <- MCSetups
    Format = {"Text", "Html", "Tiff"}
    Bytes = {text, cut, image, password, key, huge}
    Secret = {key}
    Big = {huge}
    Trim <- MCTrim
    Evicted = {"Text"}
    Copies <- MCCopies
    Asking = {o}
    Task = {k}
    Capacity = 1
    MaxNotes = 2
    MaxCopies = 2
    MaxUpsets = 1
SPECIFICATION FairSpec
INVARIANTS NothingPrivateStored OneEchoPerWrite LastCopyStored
PROPERTIES EchoesDieOut
CHECK_DEADLOCK FALSE
