\* An edit, a deletion, a fault or a lost answer and a change by others, and then quiet
SPECIFICATION FairSpec
CONSTANTS
    Nil = Nil
    NoTag = NoTag
    KmsKeys = {}
    MultiRegions = {}
    PeeredMultiRegions = {}
    EmptyPolicy = noPolicy
    Policies = {noPolicy, p1}
    InvalidPolicies = {}
    UserTagKeys = {}
    SystemTagKeys = {}
    AwsTagKeys = {}
    TagValues = {"v1"}
    SystemTagValue = "v1"
    MaxClusters = 3
    DriftKinds = {"protection", "policy", "delete"}
    InitialSpecs <- ConvergeInitial
    EditedSpecs <- ConvergeEdited
    LostReplies = TRUE
    MaxEdits = 1
    MaxFaults = 1
    MaxCrashes = 0
    MaxDrifts = 1
INVARIANT OrphansAccounted
PROPERTIES
    Converges
    DeletionCompletes
\* A custom resource that is gone leaves nothing to do.
CHECK_DEADLOCK FALSE
