--------------------------- MODULE ClusterResource ---------------------------
(***************************************************************************)
(* The Cluster custom resource and the pure functions of the resource      *)
(* manager: the spec and status a *resource carries, the delta between two *)
(* resources, the tag helpers, the conditions and the request payloads.    *)
(*                                                                         *)
(* A resource is a record [spec, status].  Optional fields hold Nil.  Tags *)
(* are a total function over TagKeys in which NoTag means "no such key",   *)
(* with the keys split by who owns them: the user, the --resource-tags     *)
(* flag of the controller, or AWS (the prefix "aws:").                     *)
(*                                                                         *)
(* Here and in the other modules a name with an underscore is not the      *)
(* code: it is a plausible mistake in the definition that follows it, kept *)
(* to show that a property would notice it.                                *)
(***************************************************************************)
EXTENDS Naturals

CONSTANTS
    Nil,            \* an unset optional field
    KmsKeys,        \* KMS keys a user may name
    MultiRegions,   \* values of spec.multiRegionProperties other than Nil
    Policies,       \* policy documents, EmptyPolicy and InvalidPolicies included
    EmptyPolicy,    \* the document ""
    UserTagKeys, SystemTagKeys, AwsTagKeys,
    TagValues,
    NoTag,          \* a key the tag map does not hold
    SystemTagValue, \* the value the controller gives to its own tags
    MaxClusters     \* how many clusters the AWS account can ever hold

ASSUME ResourceAssumption ==
    /\ MaxClusters \in Nat
    /\ Nil \notin 1 .. MaxClusters
    /\ Nil \notin {"on", "off"}
    /\ SystemTagValue \in TagValues
    /\ NoTag \notin TagValues

Ids     == 1 .. MaxClusters
TagKeys == UserTagKeys \cup SystemTagKeys \cup AwsTagKeys
TagMaps == [TagKeys -> TagValues \cup {NoTag}]

Statuses == {"ACTIVE", "CREATING", "DELETED", "DELETING", "FAILED", "IDLE",
             "INACTIVE", "PENDING_DELETE", "PENDING_SETUP", "UPDATING"}

ClusterSpec ==
    [deletionProtection : {"on", "off", Nil},
     kmsKey             : KmsKeys \cup {Nil},
     multiRegion        : MultiRegions \cup {Nil},
     policy             : Policies \cup {Nil},
     tags               : TagMaps]

\* terminal, recoverable and synced stand for the conditions ACK.Terminal,
\* ACK.Recoverable and ACK.ResourceSynced: TRUE when present with status True.
ClusterStatus ==
    [identifier  : Ids \cup {Nil},
     status      : Statuses \cup {Nil},
     terminal    : BOOLEAN,
     recoverable : BOOLEAN,
     synced      : BOOLEAN]

Resource == [spec : ClusterSpec, status : ClusterStatus]

\* What a call of the AWS API, or a step of the manager, can answer: "none" is
\* a nil error, "validation" a ValidationException, "notFound" a
\* ResourceNotFoundException or ackerr.NotFound, "rejected" any other API error,
\* "transport" a call without an answer and "requeue" an ackrequeue error.

-----------------------------------------------------------------------------
(* Statuses *)

TransitionalStatuses_NoUpdating    == {"CREATING"}
TransitionalStatuses_PendingSetup  == {"CREATING", "UPDATING", "PENDING_SETUP"}
TransitionalStatuses == {"CREATING", "UPDATING"}

RequeueIfTransitional(latest) == latest.status.status \in TransitionalStatuses

IsSynced_ActiveOnly(r) == r.status.status = "ACTIVE"
IsSynced(r) == r.status.status \in {"ACTIVE", "IDLE", "INACTIVE"}

-----------------------------------------------------------------------------
(* Tags *)

\* The keys TagResource is called with: new, or with a new value.
TagsAdded(from, to) == {k \in TagKeys : to[k] # NoTag /\ to[k] # from[k]}

\* The keys UntagResource is called with.  GetTagsDifference also reports a key
\* whose value changed as removed; the loop takes those out.
TagsRemoved(from, to) ==
    {k \in TagKeys : from[k] # NoTag /\ to[k] # from[k]} \ TagsAdded(from, to)

\* The controller's tags are added without overriding the resource's own.
EnsureTags(r) ==
    [r EXCEPT !.spec.tags =
        [k \in TagKeys |-> IF k \in SystemTagKeys /\ r.spec.tags[k] = NoTag
                           THEN SystemTagValue ELSE r.spec.tags[k]]]

IgnoreSystemTags_KeepsAWS(tags) ==
    [k \in TagKeys |-> IF k \in SystemTagKeys THEN NoTag ELSE tags[k]]

IgnoreSystemTags(tags) ==
    [k \in TagKeys |-> IF k \in AwsTagKeys \cup SystemTagKeys THEN NoTag ELSE tags[k]]

FilterSystemTags(r) == [r EXCEPT !.spec.tags = IgnoreSystemTags(@)]

SyncAWSTags_Forgotten(a, b) == a

\* The tags a, with those of b that AWS owns; one AWS has taken off stays in a.
SyncAWSTags(a, b) ==
    [k \in TagKeys |-> IF k \in AwsTagKeys /\ b[k] # NoTag THEN b[k] ELSE a[k]]

MirrorAWSTags(r, observed) ==
    [r EXCEPT !.spec.tags = SyncAWSTags(@, observed.spec.tags)]

-----------------------------------------------------------------------------
(* Deltas *)

NewResourceDelta_NoPolicy(a, b) ==
    {f \in DOMAIN a.spec \ {"policy"} : a.spec[f] # b.spec[f]}

\* The paths at which two resources differ.  A policy "" differs from no
\* policy: HasNilDifference compares nilness before content.
NewResourceDelta(a, b) == {f \in DOMAIN a.spec : a.spec[f] # b.spec[f]}

NewResourceDeltaForPreDelete_Empty(a, b) == {}

\* Only deletionProtectionEnabled is configured for the pre-delete comparison.
NewResourceDeltaForPreDelete(a, b) ==
    {f \in {"deletionProtection"} : a.spec[f] # b.spec[f]}

PreDeleteMerge(a, b) ==
    [b EXCEPT !.spec.deletionProtection = a.spec.deletionProtection]

-----------------------------------------------------------------------------
(* Conditions *)

TerminalAWSError(err) == err = "validation"

\* A terminal error leaves the Recoverable condition as it was.
UpdateConditions(status, err) ==
    [status EXCEPT
        !.terminal    = TerminalAWSError(err),
        !.recoverable = IF TerminalAWSError(err) THEN @ ELSE err # "none"]

OnError(r, err) == [r EXCEPT !.status = UpdateConditions(@, err)]
OnSuccess(r)    == [r EXCEPT !.status = UpdateConditions(@, "none")]

-----------------------------------------------------------------------------
(* Payloads and answers *)

\* sdkFind and setResourcePolicy overwrite exactly these fields of the resource
\* they were given; the KMS key of the spec is not among them.
Observe(r, cluster) ==
    [r EXCEPT !.spec.deletionProtection = cluster.deletionProtection,
              !.spec.multiRegion        = cluster.multiRegion,
              !.spec.tags               = cluster.tags,
              !.status.status           = cluster.status]

Created_NoIdentifier(r, id, cluster) ==
    [r EXCEPT !.spec.deletionProtection = cluster.deletionProtection,
              !.spec.multiRegion        = cluster.multiRegion,
              !.status.status           = cluster.status]

\* The resource sdkCreate returns for the cluster it created.
Created(r, id, cluster) ==
    [r EXCEPT !.spec.deletionProtection = cluster.deletionProtection,
              !.spec.multiRegion        = cluster.multiRegion,
              !.status.identifier       = id,
              !.status.status           = cluster.status]

NewUpdateRequestPayload_AlwaysPeers(desired, latest) ==
    [deletionProtection |-> desired.spec.deletionProtection,
     kmsKey             |-> desired.spec.kmsKey,
     multiRegion        |-> desired.spec.multiRegion]

\* UpdateCluster's input; multiRegionProperties only in PENDING_SETUP.
NewUpdateRequestPayload(desired, latest) ==
    [deletionProtection |-> desired.spec.deletionProtection,
     kmsKey             |-> desired.spec.kmsKey,
     multiRegion        |-> IF latest.status.status = "PENDING_SETUP"
                            THEN desired.spec.multiRegion ELSE Nil]

LateInitialize(r, observed) ==
    IF r.spec.deletionProtection = Nil
    THEN [r EXCEPT !.spec.deletionProtection = observed.spec.deletionProtection]
    ELSE r

CallsFor_SkipsUpdate(delta, desired, latest) ==
    {c \in {"tag", "untag", "policy", "cluster"} :
        \/ /\ c = "tag"
           /\ "tags" \in delta
           /\ TagsAdded(latest.spec.tags, desired.spec.tags) # {}
        \/ /\ c = "untag"
           /\ "tags" \in delta
           /\ TagsRemoved(latest.spec.tags, desired.spec.tags) # {}
        \/ c = "policy" /\ "policy" \in delta
        \/ c = "cluster" /\ delta \cap {"tags", "policy"} = {}}

\* The calls sdkUpdate makes for a delta, in this order: "tag", "untag",
\* "policy" (customUpdate) and then "cluster", unless only tags or the policy
\* changed.
CallsFor(delta, desired, latest) ==
    {c \in {"tag", "untag", "policy", "cluster"} :
        \/ /\ c = "tag"
           /\ "tags" \in delta
           /\ TagsAdded(latest.spec.tags, desired.spec.tags) # {}
        \/ /\ c = "untag"
           /\ "tags" \in delta
           /\ TagsRemoved(latest.spec.tags, desired.spec.tags) # {}
        \/ c = "policy" /\ "policy" \in delta
        \/ c = "cluster" /\ delta \ {"tags", "policy"} # {}}
=============================================================================
