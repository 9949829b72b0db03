SPECIFICATION Spec
CONSTANTS
    account = account
    other = other
    nilId = nilId
    good = good
    better = better
    bad = bad
    none = none
    Ids <- MCIds
    NilId = nilId
    DefaultId = account
    SpecIds <- MovedIds
    Bodies <- MCBodies
    Refused <- BadBodies
    Unencodable <- NoBodies
    NoBody = none
    LateInit = TRUE
    Resends = FALSE
    MaxEdits = 2
    MaxFaults = 0
CHECK_DEADLOCK FALSE
INVARIANTS
    NothingLeftBehind
