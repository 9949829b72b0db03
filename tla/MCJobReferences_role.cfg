SPECIFICATION FairSpec
CONSTANTS
    mine = mine
    arn1 = arn1
    arn2 = arn2
    noRole = noRole
    Arns <- MCArns
    UserRoles <- MCUserRoles
    NoRole = noRole
    EnableCrossNamespace = FALSE
    MaxEdits = 3
INVARIANTS
    TypeOK
    ReferenceInv
PROPERTIES
    RequestNamesReadyRole
    ReadyRoleResolves
    ReferenceReachesGlue
