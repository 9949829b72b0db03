\* A field that the user leaves out and Glue has nothing for.
CONSTANTS
    Fields <- AllFields
    CreateKind <- CreateKinds
    UpdateKind <- UpdateKinds
    ReadKind <- ReadKinds
    a = a
    b = b
    Nil = Nil
    Half <- MCHalf
    Numbers <- MCNumbers
    Texts <- MCTexts
    Lists <- MCLists
    MaxChanges = 0
SPECIFICATION Spec
INVARIANT EmptyFromGlueRests
