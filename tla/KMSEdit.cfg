\* A changed KMS key is reported as applied and is not
SPECIFICATION Spec
CONSTANTS
    Nil = Nil
    NoTag = NoTag
    KmsKeys = {k1, k2}
    MultiRegions = {}
    PeeredMultiRegions = {}
    EmptyPolicy = noPolicy
    Policies = {noPolicy}
    InvalidPolicies = {}
    UserTagKeys = {}
    SystemTagKeys = {}
    AwsTagKeys = {}
    TagValues = {"v1"}
    SystemTagValue = "v1"
    MaxClusters = 1
    DriftKinds = {}
    InitialSpecs <- KMSSpecs
    EditedSpecs <- KMSSpecs
    LostReplies = FALSE
    MaxEdits = 1
    MaxFaults = 0
    MaxCrashes = 0
    MaxDrifts = 0
INVARIANTS
    KMSKeyIsApplied
\* A custom resource that is gone leaves nothing to do.
CHECK_DEADLOCK FALSE
