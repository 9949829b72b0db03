SPECIFICATION FairSpec
CONSTANTS
    account = account
    other = other
    nilId = nilId
    good = good
    better = better
    bad = bad
    none = none
    Ids <- MCIds
    NilId = nilId
    DefaultId = account
    SpecIds <- JobIds
    Bodies <- MCBodies
    Refused <- NoBodies
    Unencodable <- BadBodies
    NoBody = none
    LateInit = FALSE
    Resends = TRUE
    MaxEdits = 4
    MaxFaults = 2
CHECK_DEADLOCK FALSE
PROPERTIES
    DeletionCompletes
    Converges
