SPECIFICATION Spec
CONSTANTS
    account = account
    other = other
    nilId = nilId
    good = good
    better = better
    bad = bad
    none = none
    Ids <- MCIds
    NilId = nilId
    DefaultId = account
    SpecIds <- DatabaseIds
    Bodies <- MCBodies
    Refused <- BadBodies
    Unencodable <- NoBodies
    NoBody = none
    LateInit = TRUE
    Resends = TRUE
    MaxEdits = 2
    MaxFaults = 1
CHECK_DEADLOCK FALSE
INVARIANTS
    NoOrphan
