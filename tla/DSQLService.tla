----------------------------- MODULE DSQLService -----------------------------
(***************************************************************************)
(* Amazon Aurora DSQL as the controller sees it through the AWS SDK.  The  *)
(* service is not part of the repository: every definition here is what    *)
(* the code, its comments and its tests rely on.                           *)
(*                                                                         *)
(* aws[id] is the cluster with identifier id.  A verdict is what the       *)
(* service answers to a call; a call changes the account only when the     *)
(* verdict is "none".                                                      *)
(***************************************************************************)
EXTENDS ClusterResource

CONSTANTS
    PeeredMultiRegions, \* multi-region properties that name the linked clusters
    InvalidPolicies,    \* policies the service answers a ValidationException
    DriftKinds          \* what others than the controller may change

ASSUME ServiceAssumption ==
    /\ EmptyPolicy \notin InvalidPolicies
    /\ PeeredMultiRegions \subseteq MultiRegions
    /\ DriftKinds \subseteq {"protection", "tags", "policy", "delete"}

VARIABLE aws

Deleted == {"PENDING_DELETE", "DELETING", "DELETED"}
Gone    == {"absent", "purged"}

Cluster ==
    [status             : Statuses \cup Gone,
     deletionProtection : {"on", "off"},
     kmsKey             : KmsKeys \cup {Nil},
     multiRegion        : MultiRegions \cup {Nil},
     policy             : (Policies \ {EmptyPolicy}) \cup {Nil},
     tags               : TagMaps]

NoCluster(status) ==
    [status             |-> status,
     deletionProtection |-> "on",
     kmsKey             |-> Nil,
     multiRegion        |-> Nil,
     policy             |-> Nil,
     tags               |-> [k \in TagKeys |-> NoTag]]

ServiceTypeOK == aws \in [Ids -> Cluster]
ServiceInit   == aws = [id \in Ids |-> NoCluster("absent")]

\* A cluster that exists and that nobody has asked to delete.
Live(id) == aws[id].status \notin Deleted \cup Gone

-----------------------------------------------------------------------------
(* Verdicts *)

Found(id) == aws[id].status \notin Gone

GetVerdict_Always(id) == "none"

GetVerdict(id) == IF Found(id) THEN "none" ELSE "notFound"

GetPolicyVerdict(id) ==
    IF Found(id) /\ aws[id].policy # Nil THEN "none" ELSE "notFound"

\* The states in which every mutation is rejected.
Busy == {"CREATING", "UPDATING"} \cup Deleted

MutateVerdict(id) ==
    CASE ~Found(id)              -> "notFound"
      [] aws[id].status \in Busy -> "rejected"
      [] OTHER                   -> "none"

PutPolicyVerdict(id, policy) ==
    IF MutateVerdict(id) = "none" /\ policy \in InvalidPolicies
    THEN "validation" ELSE MutateVerdict(id)

DeletePolicyVerdict(id) ==
    IF MutateVerdict(id) = "none" /\ aws[id].policy = Nil
    THEN "notFound" ELSE MutateVerdict(id)

UpdateVerdict(id, input) ==
    IF /\ MutateVerdict(id) = "none"
       /\ input.multiRegion # Nil
       /\ aws[id].status # "PENDING_SETUP"
    THEN "rejected" ELSE MutateVerdict(id)

DeleteVerdict(id) ==
    IF MutateVerdict(id) = "none" /\ aws[id].deletionProtection = "on"
    THEN "validation" ELSE MutateVerdict(id)

\* An identifier is never handed out twice; running out of them is the quota.
Unused == {id \in Ids : aws[id].status = "absent"}
NextId == CHOOSE id \in Unused : TRUE

CreateVerdict(spec) ==
    CASE spec.policy \in InvalidPolicies -> "validation"
      [] Unused = {}                     -> "rejected"
      [] OTHER                           -> "none"

-----------------------------------------------------------------------------
(* Effects: the account after a call whose verdict is "none" *)

\* Deletion protection is on unless the input says otherwise.
NewCluster(spec) ==
    [status             |-> "CREATING",
     deletionProtection |-> IF spec.deletionProtection = "off" THEN "off" ELSE "on",
     kmsKey             |-> spec.kmsKey,
     multiRegion        |-> spec.multiRegion,
     policy             |-> IF spec.policy = EmptyPolicy THEN Nil ELSE spec.policy,
     tags               |-> spec.tags]

AfterCreate(spec) == [aws EXCEPT ![NextId] = NewCluster(spec)]

AfterTag(id, keys, tags) ==
    [aws EXCEPT ![id].tags = [k \in TagKeys |-> IF k \in keys THEN tags[k] ELSE @[k]]]

AfterUntag(id, keys) ==
    [aws EXCEPT ![id].tags = [k \in TagKeys |-> IF k \in keys THEN NoTag ELSE @[k]]]

AfterPolicy(id, policy) == [aws EXCEPT ![id].policy = policy]

\* Fields the input leaves out keep their value.  An update that changes
\* something takes the cluster to UPDATING; one in PENDING_SETUP leaves it there.
Updated(cluster, input) ==
    [cluster EXCEPT
        !.deletionProtection =
            IF input.deletionProtection = Nil THEN @ ELSE input.deletionProtection,
        !.kmsKey      = IF input.kmsKey = Nil THEN @ ELSE input.kmsKey,
        !.multiRegion = IF input.multiRegion = Nil THEN @ ELSE input.multiRegion]

AfterUpdate(id, input) ==
    LET changed == Updated(aws[id], input)
    IN [aws EXCEPT ![id] =
          IF changed = aws[id] \/ aws[id].status \notin {"ACTIVE", "IDLE", "INACTIVE"}
          THEN changed ELSE [changed EXCEPT !.status = "UPDATING"]]

AfterDelete(id) == [aws EXCEPT ![id].status = "PENDING_DELETE"]

-----------------------------------------------------------------------------
(* What happens in the account without a call of the controller *)

MoveTo(id, status) == aws' = [aws EXCEPT ![id].status = status]

\* The service finishes what it has begun.
Settle(id) ==
    \/ /\ aws[id].status = "CREATING"
       /\ \/ MoveTo(id, "FAILED")
          \/ MoveTo(id, IF aws[id].multiRegion = Nil THEN "ACTIVE" ELSE "PENDING_SETUP")
    \/ /\ aws[id].status = "PENDING_SETUP"
       /\ aws[id].multiRegion \in PeeredMultiRegions
       /\ MoveTo(id, "ACTIVE")
    \/ aws[id].status = "UPDATING"       /\ MoveTo(id, "ACTIVE")
    \/ aws[id].status = "PENDING_DELETE" /\ MoveTo(id, "DELETING")
    \/ aws[id].status = "DELETING"       /\ MoveTo(id, "DELETED")
    \/ /\ aws[id].status = "DELETED"
       /\ aws' = [aws EXCEPT ![id] = NoCluster("purged")]

\* A cluster without load goes to sleep and wakes up.
Idle(id) ==
    \/ aws[id].status = "ACTIVE"   /\ MoveTo(id, "IDLE")
    \/ aws[id].status = "IDLE"     /\ MoveTo(id, "INACTIVE")
    \/ aws[id].status = "INACTIVE" /\ MoveTo(id, "ACTIVE")

\* An update of the protection alone.
Protect(p) == [deletionProtection |-> p, kmsKey |-> Nil, multiRegion |-> Nil]

\* Somebody else, or AWS itself for the "aws:" tags, changes the cluster.  The
\* protection is changed by an UpdateCluster, as the controller changes it.
Drift(id) ==
    /\ MutateVerdict(id) = "none"
    /\ \/ /\ "protection" \in DriftKinds
          /\ \E p \in {"on", "off"} \ {aws[id].deletionProtection} :
                aws' = AfterUpdate(id, Protect(p))
       \/ /\ "tags" \in DriftKinds
          /\ \E k \in TagKeys, v \in TagValues \cup {NoTag} :
                /\ v # aws[id].tags[k]
                /\ aws' = [aws EXCEPT ![id].tags[k] = v]
       \/ /\ "policy" \in DriftKinds
          /\ aws[id].policy # Nil
          /\ aws' = AfterPolicy(id, Nil)
       \/ /\ "delete" \in DriftKinds
          /\ DeleteVerdict(id) = "none"
          /\ aws' = AfterDelete(id)
=============================================================================
