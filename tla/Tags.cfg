\* Tags of the user, of the controller and of AWS, changed by others too
SPECIFICATION Spec
CONSTANTS
    Nil = Nil
    NoTag = NoTag
    KmsKeys = {}
    MultiRegions = {}
    PeeredMultiRegions = {}
    EmptyPolicy = noPolicy
    Policies = {noPolicy}
    InvalidPolicies = {}
    UserTagKeys = {u}
    SystemTagKeys = {s}
    AwsTagKeys = {a}
    TagValues = {"v1", "v2"}
    SystemTagValue = "v1"
    MaxClusters = 1
    DriftKinds = {"tags", "protection"}
    InitialSpecs <- TagInitial
    EditedSpecs <- TagEdited
    LostReplies = FALSE
    MaxEdits = 1
    MaxFaults = 0
    MaxCrashes = 1
    MaxDrifts = 2
INVARIANTS
    AWSTagsLeftAlone
    SystemTagsStayOut
PROPERTIES
    StatedFieldsKept
\* A custom resource that is gone leaves nothing to do.
CHECK_DEADLOCK FALSE
