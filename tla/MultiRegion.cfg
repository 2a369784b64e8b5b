\* A multi-region cluster waits for its peers
SPECIFICATION FairSpec
CONSTANTS
    Nil = Nil
    NoTag = NoTag
    KmsKeys = {}
    MultiRegions = {witness, peered}
    PeeredMultiRegions = {peered}
    EmptyPolicy = noPolicy
    Policies = {noPolicy}
    InvalidPolicies = {}
    UserTagKeys = {}
    SystemTagKeys = {}
    AwsTagKeys = {}
    TagValues = {"v1"}
    SystemTagValue = "v1"
    MaxClusters = 2
    DriftKinds = {}
    InitialSpecs <- MultiRegionInitial
    EditedSpecs <- MultiRegionEdited
    LostReplies = TRUE
    MaxEdits = 2
    MaxFaults = 1
    MaxCrashes = 0
    MaxDrifts = 0
PROPERTIES
    PendingSetupResolves
    Converges
\* A custom resource that is gone leaves nothing to do.
CHECK_DEADLOCK FALSE
