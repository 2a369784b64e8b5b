\* Two replicas, and the lease changes hands once
SPECIFICATION FairReplicas
CONSTANTS
    Nil = Nil
    NoTag = NoTag
    KmsKeys = {}
    MultiRegions = {}
    PeeredMultiRegions = {}
    EmptyPolicy = noPolicy
    Policies = {noPolicy, p1}
    InvalidPolicies = {}
    UserTagKeys = {u}
    SystemTagKeys = {}
    AwsTagKeys = {}
    TagValues = {"v1"}
    SystemTagValue = "v1"
    MaxClusters = 2
    DriftKinds = {"protection"}
    InitialSpecs <- ConvergeInitial
    EditedSpecs <- ConvergeEdited
    LostReplies = FALSE
    MaxEdits = 1
    MaxFaults = 0
    MaxCrashes = 1
    MaxDrifts = 1
    LeaderElection = TRUE
INVARIANTS
    HandoverCostsOneAtMost
PROPERTIES
    ActsAsOneProcess
    SettlesUnderEitherLeader
\* A custom resource that is gone leaves nothing to do.
CHECK_DEADLOCK FALSE
