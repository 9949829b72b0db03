\* Every field of a Database and of a Job, with two edits or foreign writes.
CONSTANTS
    a = a
    b = b
    Fields <- AllFields
    CreateKind <- CreateKinds
    UpdateKind <- UpdateKinds
    ReadKind <- ReadKinds
    Nil = Nil
    Half <- MCHalf
    Numbers <- MCNumbers
    Texts <- MCTexts
    Lists <- MCLists
    MaxChanges = 2
SPECIFICATION Spec
SYMMETRY MCSymmetry
INVARIANTS
    TypeOK
    FieldAgrees
    SuccessMeansApplied
    WrittenFieldsRest
