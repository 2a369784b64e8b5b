\* Creation, protection and deletion, with calls that fail on the way
SPECIFICATION AttemptsSpec
CONSTANTS
    Nil = Nil
    NoTag = NoTag
    KmsKeys = {}
    MultiRegions = {}
    PeeredMultiRegions = {}
    EmptyPolicy = noPolicy
    Policies = {noPolicy}
    InvalidPolicies = {}
    UserTagKeys = {}
    SystemTagKeys = {}
    AwsTagKeys = {}
    TagValues = {"v1"}
    SystemTagValue = "v1"
    MaxClusters = 2
    DriftKinds = {"protection", "delete"}
    InitialSpecs <- ProtectionSpecs
    EditedSpecs <- ProtectionSpecs
    LostReplies = FALSE
    MaxEdits = 2
    MaxFaults = 2
    MaxCrashes = 0
    MaxDrifts = 1
INVARIANTS
    TypeOK
    NoOrphan
    NoSecondCluster
PROPERTIES
    ProtectionHonoured
    ImplementsContract
\* A custom resource that is gone leaves nothing to do.
CHECK_DEADLOCK FALSE
