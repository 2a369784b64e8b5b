\* A reference to one Key that comes, fails, recovers and goes
SPECIFICATION Spec
CONSTANTS
    Nil = Nil
    Keys = {k}
    Arns = {arn1, arn2}
    UserKeys = {own}
    InvalidRef = invalidRef
    EmptyRef = emptyRef
    EditedSpecs <- ReferenceSpecs
    MaxEdits = 2
    MaxKeyChanges = 4
    MaxFaults = 1
    MaxCrashes = 1
INVARIANTS
    TypeOK
PROPERTIES
    NeverMadeWithoutItsKey
    ConflictCreatesNothing
    UsableReferenceResolves
