\* An update of tags alone returns the status of before the update
SPECIFICATION Spec
CONSTANTS
    Nil = Nil
    NoTag = NoTag
    KmsKeys = {}
    MultiRegions = {}
    PeeredMultiRegions = {}
    EmptyPolicy = noPolicy
    Policies = {noPolicy}
    InvalidPolicies = {}
    UserTagKeys = {u}
    SystemTagKeys = {}
    AwsTagKeys = {}
    TagValues = {"v1", "v2"}
    SystemTagValue = "v1"
    MaxClusters = 1
    DriftKinds = {}
    InitialSpecs <- TagInitial
    EditedSpecs <- TagEdited
    LostReplies = FALSE
    MaxEdits = 1
    MaxFaults = 0
    MaxCrashes = 0
    MaxDrifts = 0
INVARIANTS
    UpdateReturnsCurrentStatus
\* A custom resource that is gone leaves nothing to do.
CHECK_DEADLOCK FALSE
