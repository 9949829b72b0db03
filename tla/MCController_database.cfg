SPECIFICATION FairSpec
CONSTANTS
    account = account
    other = other
    nilId = nilId
    good = good
    better = better
    bad = bad
    none = none
    Ids <- MCIds
    NilId = nilId
    DefaultId = account
    SpecIds <- DatabaseIds
    Bodies <- MCBodies
    Refused <- BadBodies
    Unencodable <- NoBodies
    NoBody = none
    LateInit = TRUE
    Resends = FALSE
    MaxEdits = 3
    MaxFaults = 2
CHECK_DEADLOCK FALSE
INVARIANTS
    TypeOK
    FinalizerInv
    OwnershipInv
    AppliedInv
    NoOrphan
    CleanPassSettles
    TerminalMeansRefused
    SuccessClearsErrors
PROPERTIES
    WritesOnlyManaged
    KeepsOwnership
    DeletionCompletes
    Converges
