\* Tags, policy and protection edited together, with a lost answer and a process that stops
SPECIFICATION AttemptsSpec
CONSTANTS
    Nil = Nil
    NoTag = NoTag
    KmsKeys = {}
    MultiRegions = {}
    PeeredMultiRegions = {}
    EmptyPolicy = noPolicy
    Policies = {noPolicy, p1, bad}
    InvalidPolicies = {bad}
    UserTagKeys = {u}
    SystemTagKeys = {}
    AwsTagKeys = {}
    TagValues = {"v1", "v2"}
    SystemTagValue = "v1"
    MaxClusters = 1
    DriftKinds = {"protection", "tags", "policy", "delete"}
    InitialSpecs <- ContentInitial
    EditedSpecs <- ContentEdited
    LostReplies = TRUE
    MaxEdits = 1
    MaxFaults = 1
    MaxCrashes = 1
    MaxDrifts = 1
INVARIANTS
    SuccessIsApplied
    MutatesOnlySettled
\* A custom resource that is gone leaves nothing to do.
CHECK_DEADLOCK FALSE
