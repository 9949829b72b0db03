SPECIFICATION Spec
CONSTANTS
    app = app
    env = env
    ctl = ctl
    aws = aws
    empty = empty
    v = v
    Absent = Absent
    Nil = Nil
    EmptyValue = empty
    Keys <- MCKeys
    Values <- MCValues
    AWSKeys <- MCAWSKeys
    DefaultTags <- MCDefaultTags
    TagLimit = 3
    ReportsReadErrors = FALSE
    UserKeys <- MCUserKeys
    MaxEdits = 3
    MaxFaults = 1
INVARIANTS
    SuccessMeansInSync
