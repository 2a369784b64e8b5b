\* The custom resource goes before its cluster
SPECIFICATION Spec
CONSTANTS
    Nil = Nil
    NoTag = NoTag
    KmsKeys = {}
    MultiRegions = {}
    PeeredMultiRegions = {}
    EmptyPolicy = noPolicy
    Policies = {noPolicy}
    InvalidPolicies = {}
    UserTagKeys = {}
    SystemTagKeys = {}
    AwsTagKeys = {}
    TagValues = {"v1"}
    SystemTagValue = "v1"
    MaxClusters = 1
    DriftKinds = {}
    InitialSpecs <- ProtectionSpecs
    EditedSpecs <- ProtectionSpecs
    LostReplies = FALSE
    MaxEdits = 0
    MaxFaults = 0
    MaxCrashes = 0
    MaxDrifts = 0
INVARIANTS
    ReleasedOnlyWhenGone
\* A custom resource that is gone leaves nothing to do.
CHECK_DEADLOCK FALSE
