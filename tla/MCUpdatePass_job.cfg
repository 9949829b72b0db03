SPECIFICATION FairUpdateSpec
CONSTANTS
    app = app
    ctl = ctl
    aws = aws
    empty = empty
    v = v
    good = good
    better = better
    bare = bare
    bad = bad
    Absent = Absent
    Nil = Nil
    EmptyValue = empty
    Keys <- MCKeys
    Values <- MCValues
    AWSKeys <- MCAWSKeys
    DefaultTags <- MCDefaultTags
    TagLimit = 3
    ReportsReadErrors = FALSE
    UserKeys <- MCUserKeys
    Bodies <- MCBodies
    Refused <- MCRefused
    Observed <- MCObserved
    MaxEdits = 2
    MaxFaults = 1
INVARIANTS
    SuccessMeansBoth
PROPERTIES
    TagsReachGlue
    FieldsReachGlue
    ComesToRest
