--------------------------- MODULE ReconcileProofs ---------------------------
(***************************************************************************)
(* Proofs about ClusterReconcile: every step keeps the types; each answer  *)
(* that is lost and each stop of the process costs at most one cluster,    *)
(* and without them the controller loses none and makes no second one.     *)
(***************************************************************************)
EXTENDS ClusterReconcile, FiniteSetTheorems, TLAPS

-----------------------------------------------------------------------------
(* The functions of the resource manager *)

\* A tag map holds a value or NoTag for each key.
LEMMA TagsType ==
    ASSUME NEW t \in TagMaps, NEW k \in TagKeys
    PROVE  t[k] \in TagValues \cup {NoTag}
    BY DEF TagMaps

\* The empty resource the idle worker holds is a resource.
LEMMA BlankType == Blank \in Resource
<1>1. BlankSpec.tags \in TagMaps
    BY DEF BlankSpec, TagMaps
<1> QED
    BY <1>1 DEF Blank, BlankSpec, BlankStatus, Resource, ClusterSpec, ClusterStatus

\* EnsureTags changes the tags of the spec and nothing of the status.
LEMMA EnsureTagsType ==
    ASSUME NEW r \in Resource
    PROVE  /\ EnsureTags(r) \in Resource
           /\ EnsureTags(r).status = r.status
<1> DEFINE tags == [k \in TagKeys |-> IF k \in SystemTagKeys /\ r.spec.tags[k] = NoTag
                                      THEN SystemTagValue ELSE r.spec.tags[k]]
<1>1. r.spec \in ClusterSpec /\ r.status \in ClusterStatus /\ r.spec.tags \in TagMaps
    BY DEF Resource, ClusterSpec
<1>2. tags \in TagMaps
    BY <1>1, TagsType, ResourceAssumption DEF TagMaps
<1>3. EnsureTags(r) = [r EXCEPT !.spec.tags = tags]
    BY DEF EnsureTags
<1> HIDE DEF tags
<1> QED
    BY <1>1, <1>2, <1>3 DEF Resource, ClusterSpec

\* mirrorAWSTags changes the tags of the spec and nothing of the status.
LEMMA MirrorType ==
    ASSUME NEW r \in Resource, NEW o \in Resource
    PROVE  /\ MirrorAWSTags(r, o) \in Resource
           /\ MirrorAWSTags(r, o).status = r.status
<1> DEFINE tags == [k \in TagKeys |-> IF k \in AwsTagKeys /\ o.spec.tags[k] # NoTag
                                      THEN o.spec.tags[k] ELSE r.spec.tags[k]]
<1>1. /\ r.spec \in ClusterSpec /\ r.status \in ClusterStatus /\ r.spec.tags \in TagMaps
      /\ o.spec.tags \in TagMaps
    BY DEF Resource, ClusterSpec
<1>2. tags \in TagMaps
    BY <1>1, TagsType DEF TagMaps
<1>3. MirrorAWSTags(r, o) = [r EXCEPT !.spec.tags = tags]
    BY DEF MirrorAWSTags, SyncAWSTags
<1> HIDE DEF tags
<1> QED
    BY <1>1, <1>2, <1>3 DEF Resource, ClusterSpec

\* updateConditions sets conditions and keeps the identifier.
LEMMA UpdateConditionsType ==
    ASSUME NEW s \in ClusterStatus, NEW err
    PROVE  /\ UpdateConditions(s, err) \in ClusterStatus
           /\ UpdateConditions(s, err).identifier = s.identifier
    BY DEF UpdateConditions, TerminalAWSError, ClusterStatus

\* onError and onSuccess change conditions only.
LEMMA ConditionsType ==
    ASSUME NEW r \in Resource, NEW err
    PROVE  /\ OnError(r, err) \in Resource
           /\ OnError(r, err).status.identifier = r.status.identifier
           /\ OnSuccess(r) \in Resource
           /\ OnSuccess(r).status.identifier = r.status.identifier
<1>1. r.status \in ClusterStatus
    BY DEF Resource
<1>2. OnSuccess(r) = [r EXCEPT !.status = UpdateConditions(r.status, "none")]
    BY DEF OnSuccess
<1>3. OnError(r, err) = [r EXCEPT !.status = UpdateConditions(r.status, err)]
    BY DEF OnError
<1> QED
    BY <1>1, <1>2, <1>3, UpdateConditionsType DEF Resource

\* sdkFind keeps the identifier it was given.
LEMMA ObserveType ==
    ASSUME NEW r \in Resource, NEW c \in Cluster, c.status \in Statuses
    PROVE  /\ Observe(r, c) \in Resource
           /\ Observe(r, c).status.identifier = r.status.identifier
    BY DEF Observe, Resource, ClusterSpec, ClusterStatus, Cluster

\* sdkCreate records the identifier of the new cluster.
LEMMA CreatedType ==
    ASSUME NEW r \in Resource, NEW c \in Cluster, c.status \in Statuses, NEW id \in Ids
    PROVE  /\ Created(r, id, c) \in Resource
           /\ Created(r, id, c).status.identifier = id
    BY DEF Created, Resource, ClusterSpec, ClusterStatus, Cluster

\* LateInitialize fills a field of the spec and keeps the status.
LEMMA LateInitializeType ==
    ASSUME NEW r \in Resource, NEW o \in Resource
    PROVE  /\ LateInitialize(r, o) \in Resource
           /\ LateInitialize(r, o).status = r.status
    BY DEF LateInitialize, Resource, ClusterSpec

\* The pre-delete merge takes the observed status.
LEMMA PreDeleteMergeType ==
    ASSUME NEW a \in Resource, NEW b \in Resource
    PROVE  /\ PreDeleteMerge(a, b) \in Resource
           /\ PreDeleteMerge(a, b).status = b.status
    BY DEF PreDeleteMerge, Resource, ClusterSpec

\* FilterSystemTags yields a resource and takes the tags of the system off it.
LEMMA FilterType ==
    ASSUME NEW r \in Resource
    PROVE  /\ FilterSystemTags(r) \in Resource
           /\ \A k \in SystemTagKeys \cup AwsTagKeys : FilterSystemTags(r).spec.tags[k] = NoTag
<1> DEFINE tags == IgnoreSystemTags(r.spec.tags)
<1>1. r.spec \in ClusterSpec /\ r.status \in ClusterStatus /\ r.spec.tags \in TagMaps
    BY DEF Resource, ClusterSpec
<1>2. /\ tags \in TagMaps
      /\ \A k \in SystemTagKeys \cup AwsTagKeys : tags[k] = NoTag
    BY <1>1, TagsType DEF IgnoreSystemTags, TagMaps, TagKeys
<1>3. FilterSystemTags(r) = [r EXCEPT !.spec.tags = tags]
    BY DEF FilterSystemTags
<1> HIDE DEF tags
<1>4. FilterSystemTags(r) \in Resource /\ FilterSystemTags(r).spec.tags = tags
    BY <1>1, <1>2, <1>3 DEF Resource, ClusterSpec
<1> QED
    BY <1>2, <1>4

\* A merge patch of specs is a spec.
LEMMA MergePatchType ==
    ASSUME NEW s \in ClusterSpec, NEW a \in ClusterSpec, NEW b \in ClusterSpec
    PROVE  MergePatch(s, a, b) \in ClusterSpec
<1>1. s.tags \in TagMaps /\ a.tags \in TagMaps /\ b.tags \in TagMaps
    BY DEF ClusterSpec
<1>2. [k \in TagKeys |-> Merge(s.tags[k], a.tags[k], b.tags[k])] \in TagMaps
    BY <1>1, TagsType DEF Merge, TagMaps
<1> QED
    BY <1>2 DEF MergePatch, Merge, ClusterSpec

\* sdkUpdate makes no other calls than the four.
LEMMA CallsType ==
    ASSUME NEW delta, NEW a, NEW b
    PROVE  CallsFor(delta, a, b) \in SUBSET Calls
    BY DEF CallsFor, Calls

-----------------------------------------------------------------------------
(* What the worker does between two calls *)

\* The idle worker is of its type.
LEMMA IdleType == IdleCtl \in Controller
    BY BlankType DEF IdleCtl, Controller, Calls

\* A failure leads to publish, with the identifier of the resource it is given.
LEMMA FailType ==
    ASSUME NEW c \in Controller, NEW r \in Resource, NEW err
    PROVE  /\ Fail(c, r, err) \in Controller
           /\ Fail(c, r, err).pc = "publish"
           /\ Fail(c, r, err).caller = c.caller
           /\ Fail(c, r, err).desired = c.desired
           /\ Fail(c, r, err).latest.status.identifier = r.status.identifier
    BY ConditionsType DEF Fail, Controller

\* The start of a read changes neither of the resources the worker holds.
LEMMA StartReadType ==
    ASSUME NEW c \in Controller, NEW caller \in {"sync", "created", "lateInit", "delete"}
    PROVE  /\ StartRead(c, caller) \in Controller
           /\ StartRead(c, caller).pc = "getCluster"
           /\ StartRead(c, caller).caller = caller
           /\ StartRead(c, caller).desired = c.desired
           /\ StartRead(c, caller).latest = c.latest
    BY DEF StartRead, Controller

\* What the worker holds, and what it reads, are resources.
LEMMA SubjectType ==
    ASSUME NEW c \in Controller
    PROVE  /\ c.desired \in Resource /\ c.latest \in Resource /\ c.observed \in Resource
           /\ Subject(c) \in Resource
    BY DEF Subject, Controller

\* The parts of a resource.
LEMMA StatusType ==
    ASSUME NEW r \in Resource
    PROVE  /\ r.spec \in ClusterSpec /\ r.status \in ClusterStatus
           /\ r.status.identifier \in Ids \cup {Nil}
    BY DEF Resource, ClusterStatus

\* The fields of the delta are those in which the specs differ.
LEMMA DeltaFields ==
    ASSUME NEW a \in Resource, NEW b \in Resource
    PROVE  /\ "policy" \notin NewResourceDelta(a, b) => a.spec.policy = b.spec.policy
           /\ "tags" \notin NewResourceDelta(a, b) => a.spec.tags = b.spec.tags
           /\ "deletionProtection" \notin NewResourceDelta(a, b)
                => a.spec.deletionProtection = b.spec.deletionProtection
           /\ NewResourceDelta(a, b) = {} => a.spec = b.spec
<1>1. a.spec \in ClusterSpec /\ b.spec \in ClusterSpec
    BY StatusType
<1>2. DOMAIN a.spec = {"deletionProtection", "kmsKey", "multiRegion", "policy", "tags"}
    BY <1>1 DEF ClusterSpec
<1>3. \A f \in DOMAIN a.spec : f \notin NewResourceDelta(a, b) => a.spec[f] = b.spec[f]
    BY DEF NewResourceDelta
<1>4. ASSUME NewResourceDelta(a, b) = {}
      PROVE  a.spec = b.spec
    <2>1. /\ a.spec.deletionProtection = b.spec.deletionProtection
          /\ a.spec.kmsKey = b.spec.kmsKey
          /\ a.spec.multiRegion = b.spec.multiRegion
          /\ a.spec.policy = b.spec.policy
          /\ a.spec.tags = b.spec.tags
        BY <1>2, <1>3, <1>4
    <2> QED
        BY <1>1, <2>1 DEF ClusterSpec
<1> QED
    BY <1>2, <1>3, <1>4

\* A failed read keeps the type of the worker.
LEMMA ReadFailedType ==
    ASSUME NEW c \in Controller, NEW err
    PROVE  ReadFailed(c, err) \in Controller
    BY FailType, SubjectType DEF ReadFailed, Controller

\* Update begins with its calls or ends in a requeue, on the same identifiers.
LEMMA BeginUpdateType ==
    ASSUME NEW c \in Controller, NEW delta
    PROVE  /\ BeginUpdate(c, delta) \in Controller
           /\ BeginUpdate(c, delta).pc \in {"publish", "mutate"}
           /\ BeginUpdate(c, delta).caller = c.caller
           /\ BeginUpdate(c, delta).desired = c.desired
           /\ BeginUpdate(c, delta).latest.status.identifier = c.latest.status.identifier
<1>1. CallsFor(delta, c.desired, c.latest) \in SUBSET Calls
    BY CallsType
<1>2. CASE RequeueIfTransitional(c.latest)
    BY <1>2, FailType, SubjectType DEF BeginUpdate
<1>3. CASE ~RequeueIfTransitional(c.latest)
    BY <1>1, <1>3 DEF BeginUpdate, Controller
<1> QED
    BY <1>2, <1>3

\* A sync goes on to late initialization, or to an update with the same identifier.
LEMMA AfterSyncReadType ==
    ASSUME NEW c \in Controller, NEW o \in Resource
    PROVE  LET d == AfterSyncRead(c, o)
           IN /\ d \in Controller
              /\ d.desired.status = c.desired.status
              /\ d.latest.status.identifier = o.status.identifier
              /\ \/ d.pc = "getCluster" /\ d.caller = "lateInit"
                 \/ d.pc \in {"publish", "mutate"} /\ d.caller = c.caller
<1> DEFINE read  == [c EXCEPT !.desired = MirrorAWSTags(c.desired, o), !.latest = o]
           delta == NewResourceDelta(read.desired, read.latest)
<1>1. /\ read \in Controller
      /\ read.caller = c.caller
      /\ read.desired.status = c.desired.status
      /\ read.latest = o
    BY MirrorType, SubjectType DEF Controller
<1>2. AfterSyncRead(c, o) = IF delta = {} THEN StartRead(read, "lateInit")
                                          ELSE BeginUpdate(read, delta)
    BY DEF AfterSyncRead
<1> HIDE DEF read, delta
<1> QED
    BY <1>1, <1>2, StartReadType, BeginUpdateType

\* A delete goes on to an update or to DeleteCluster, on what it observed.
LEMMA AfterDeleteReadType ==
    ASSUME NEW c \in Controller, NEW o \in Resource
    PROVE  LET d == AfterDeleteRead(c, o)
           IN /\ d \in Controller
              /\ d.desired.status = o.status
              /\ d.latest.status.identifier = o.status.identifier
              /\ d.pc \in {"publish", "mutate", "delete"}
              /\ d.caller = c.caller
<1> DEFINE current == MirrorAWSTags(c.desired, o)
           delta   == NewResourceDeltaForPreDelete(current, o)
           read    == [c EXCEPT !.desired = PreDeleteMerge(current, o), !.latest = o]
<1>1. /\ PreDeleteMerge(current, o) \in Resource
      /\ PreDeleteMerge(current, o).status = o.status
    BY MirrorType, PreDeleteMergeType, SubjectType
<1>2. /\ read \in Controller
      /\ read.caller = c.caller
      /\ read.desired.status = o.status
      /\ read.latest = o
    BY <1>1 DEF Controller
<1>3. AfterDeleteRead(c, o) = IF delta = {} THEN [read EXCEPT !.pc = "delete"]
                                            ELSE BeginUpdate(read, delta)
    BY DEF AfterDeleteRead
<1> HIDE DEF current, read, delta
<1>4. CASE delta = {}
    BY <1>2, <1>3, <1>4 DEF Controller
<1>5. CASE delta # {}
    BY <1>2, <1>3, <1>5, BeginUpdateType
<1> QED
    BY <1>4, <1>5

\* Late initialization ends in a patch or in publish, on the same status.
LEMMA AfterLateInitType ==
    ASSUME NEW c \in Controller, NEW r \in Resource, r.status = c.latest.status
    PROVE  LET d == AfterLateInit(c, r)
           IN /\ d \in Controller
              /\ d.latest.status = c.latest.status
              /\ d.pc \in {"publish", "patchSpec"}
              /\ d.caller = c.caller
              /\ d.desired = c.desired
    BY DEF AfterLateInit, Controller

\* All that a successful read leads to.
LEMMA ReadDoneType ==
    ASSUME NEW c \in Controller, NEW o \in Resource, c.caller # "none",
           o.status.identifier = Subject(c).status.identifier
    PROVE  LET d == ReadDone(c, o)
           IN /\ d \in Controller
              /\ c.caller \in {"created", "lateInit"} =>
                    /\ d.latest.status.identifier = c.latest.status.identifier
                    /\ d.caller = c.caller
                    /\ d.pc \in {"publish", "patchSpec"}
              /\ c.caller = "sync" =>
                    /\ d.latest.status.identifier = c.desired.status.identifier
                    /\ d.desired.status.identifier = c.desired.status.identifier
                    /\ \/ d.pc = "getCluster" /\ d.caller = "lateInit"
                       \/ d.pc \in {"publish", "mutate"} /\ d.caller = "sync"
              /\ c.caller = "delete" =>
                    /\ d.latest.status.identifier = c.desired.status.identifier
                    /\ d.desired.status.identifier = c.desired.status.identifier
                    /\ d.pc \in {"publish", "mutate", "delete"}
                    /\ d.caller = "delete"
<1>1. CASE c.caller = "sync"
    BY <1>1, AfterSyncReadType DEF ReadDone, Subject
<1>2. CASE c.caller = "delete"
    BY <1>2, AfterDeleteReadType DEF ReadDone, Subject
<1>3. CASE c.caller = "created"
    <2> DEFINE r == [MirrorAWSTags(c.latest, o) EXCEPT !.status = o.status]
    <2>1. r \in Resource /\ r.status = o.status
        BY MirrorType, SubjectType, StatusType DEF Resource
    <2>2. ReadDone(c, o) = [c EXCEPT !.pc = "patchSpec", !.latest = r]
        BY <1>3 DEF ReadDone
    <2> HIDE DEF r
    <2> QED
        BY <1>3, <2>1, <2>2 DEF Controller, Subject
<1>4. CASE c.caller = "lateInit"
    <2> DEFINE r == LateInitialize(MirrorAWSTags(c.latest, o), o)
    <2>1. r \in Resource /\ r.status = c.latest.status
        BY MirrorType, LateInitializeType, SubjectType
    <2>2. ReadDone(c, o) = AfterLateInit(c, r)
        BY <1>4 DEF ReadDone
    <2> HIDE DEF r
    <2> QED
        BY <1>4, <2>1, <2>2, AfterLateInitType
<1> QED
    BY <1>1, <1>2, <1>3, <1>4 DEF Controller

\* A call of an update leads to the next, to what follows the update or to publish.
LEMMA AfterCallType ==
    ASSUME NEW c \in Controller, NEW err, NEW r \in Resource
    PROVE  LET d == AfterCall(c, err, r)
           IN /\ d \in Controller
              /\ d.caller = c.caller
              /\ d.desired = c.desired
              /\ \/ d.pc = c.pc
                 \/ d.pc = "delete" /\ c.caller = "delete"
                 \/ d.pc = "patchSpec" /\ c.caller # "delete"
                 \/ d.pc = "publish"
              /\ \/ d.latest.status.identifier = c.latest.status.identifier
                 \/ d.latest.status.identifier = r.status.identifier
<1> DEFINE left == c.todo \ {NextCall(c)}
           rest == [c EXCEPT !.todo = {}]
<1>1. left \in SUBSET Calls
    BY DEF Controller
<1>2. /\ rest \in Controller /\ rest.caller = c.caller
      /\ rest.desired = c.desired /\ rest.latest = c.latest
    BY DEF Controller
<1>3. AfterCall(c, err, r) =
          IF err # "none" THEN Fail(rest, c.latest, err)
          ELSE IF left # {} THEN [c EXCEPT !.todo = left] ELSE UpdateDone(rest, r)
    BY DEF AfterCall
<1> HIDE DEF left, rest
<1>4. CASE err # "none"
    BY <1>2, <1>3, <1>4, FailType, SubjectType
<1>5. CASE err = "none" /\ left # {}
    BY <1>1, <1>3, <1>5 DEF Controller
<1>6. CASE err = "none" /\ left = {}
    BY <1>2, <1>3, <1>6, ConditionsType DEF UpdateDone, Controller
<1> QED
    BY <1>4, <1>5, <1>6

-----------------------------------------------------------------------------
(* The service *)

\* Every identifier has a cluster, and a cluster that is found has a status.
LEMMA ClusterType ==
    ASSUME ServiceTypeOK, NEW id \in Ids
    PROVE  /\ aws[id] \in Cluster
           /\ aws[id].status \in Statuses \cup Gone
           /\ aws[id].tags \in TagMaps
           /\ Found(id) => aws[id].status \in Statuses
    BY DEF ServiceTypeOK, Cluster, Found

\* The record of a cluster that is not there.
LEMMA NoClusterType ==
    ASSUME NEW s \in Gone
    PROVE  NoCluster(s) \in Cluster /\ NoCluster(s).status = s
<1>1. [k \in TagKeys |-> NoTag] \in TagMaps
    BY DEF TagMaps
<1> QED
    BY <1>1 DEF NoCluster, Cluster

\* A new cluster is in CREATING.
LEMMA NewClusterType ==
    ASSUME NEW spec \in ClusterSpec
    PROVE  NewCluster(spec) \in Cluster /\ NewCluster(spec).status = "CREATING"
    BY DEF NewCluster, ClusterSpec, Cluster, Statuses

\* A create that is not refused gets an unused identifier.
LEMMA NextIdType ==
    ASSUME NEW spec, CreateVerdict(spec) = "none"
    PROVE  NextId \in Ids /\ aws[NextId].status = "absent"
<1>1. Unused # {}
    BY DEF CreateVerdict
<1> QED
    BY <1>1 DEF NextId, Unused

\* A create keeps the type of the account.
LEMMA AfterCreateType ==
    ASSUME ServiceTypeOK, NEW spec \in ClusterSpec
    PROVE  AfterCreate(spec) \in [Ids -> Cluster]
    BY NewClusterType DEF AfterCreate, ServiceTypeOK

\* A call that changes a cluster neither creates nor revives one.
Tamer(before, after) ==
    /\ after \in [Ids -> Cluster]
    /\ \A i \in Ids : before[i].status \in Deleted \cup Gone
                        => after[i].status \in Deleted \cup Gone

\* TagResource is tame.
LEMMA TagIsTame ==
    ASSUME ServiceTypeOK, NEW id \in Ids, NEW keys, NEW tags \in TagMaps
    PROVE  Tamer(aws, AfterTag(id, keys, tags))
<1> DEFINE new == [k \in TagKeys |-> IF k \in keys THEN tags[k] ELSE aws[id].tags[k]]
<1>1. new \in TagMaps
    BY ClusterType, TagsType DEF TagMaps
<1>2. AfterTag(id, keys, tags) = [aws EXCEPT ![id].tags = new]
    BY DEF AfterTag
<1> HIDE DEF new
<1> QED
    BY <1>1, <1>2 DEF Tamer, ServiceTypeOK, Cluster

\* UntagResource is tame.
LEMMA UntagIsTame ==
    ASSUME ServiceTypeOK, NEW id \in Ids, NEW keys
    PROVE  Tamer(aws, AfterUntag(id, keys))
<1> DEFINE new == [k \in TagKeys |-> IF k \in keys THEN NoTag ELSE aws[id].tags[k]]
<1>1. new \in TagMaps
    BY ClusterType, TagsType DEF TagMaps
<1>2. AfterUntag(id, keys) = [aws EXCEPT ![id].tags = new]
    BY DEF AfterUntag
<1> HIDE DEF new
<1> QED
    BY <1>1, <1>2 DEF Tamer, ServiceTypeOK, Cluster

\* PutClusterPolicy and DeleteClusterPolicy are tame.
LEMMA PolicyIsTame ==
    ASSUME ServiceTypeOK, NEW id \in Ids,
           NEW policy \in (Policies \ {EmptyPolicy}) \cup {Nil}
    PROVE  Tamer(aws, AfterPolicy(id, policy))
    BY DEF AfterPolicy, Tamer, ServiceTypeOK, Cluster

\* What an UpdateCluster may be asked for.
UpdateInput ==
    [deletionProtection : {"on", "off", Nil},
     kmsKey             : KmsKeys \cup {Nil},
     multiRegion        : MultiRegions \cup {Nil}]

\* The controller asks for that, and so does who switches the protection.
LEMMA InputType ==
    /\ \A r, latest \in Resource : NewUpdateRequestPayload(r, latest) \in UpdateInput
    /\ \A p \in {"on", "off"} : Protect(p) \in UpdateInput
    BY DEF UpdateInput, NewUpdateRequestPayload, Protect, Resource, ClusterSpec

\* UpdateCluster is tame.
LEMMA UpdateIsTame ==
    ASSUME ServiceTypeOK, NEW id \in Ids, NEW input \in UpdateInput
    PROVE  Tamer(aws, AfterUpdate(id, input))
<1> DEFINE changed == Updated(aws[id], input)
<1>2. aws[id] \in Cluster
    BY ClusterType
<1>3. changed \in Cluster /\ changed.status = aws[id].status
    BY <1>2 DEF Updated, Cluster, UpdateInput
<1>4. AfterUpdate(id, input) =
          [aws EXCEPT ![id] =
             IF changed = aws[id] \/ aws[id].status \notin {"ACTIVE", "IDLE", "INACTIVE"}
             THEN changed ELSE [changed EXCEPT !.status = "UPDATING"]]
    BY DEF AfterUpdate
<1>5. [changed EXCEPT !.status = "UPDATING"] \in Cluster
    BY <1>3 DEF Cluster, Statuses
<1> HIDE DEF changed
<1> QED
    BY <1>3, <1>4, <1>5 DEF Tamer, ServiceTypeOK, Deleted, Gone

\* DeleteCluster is tame.
LEMMA DeleteIsTame ==
    ASSUME ServiceTypeOK, NEW id \in Ids
    PROVE  Tamer(aws, AfterDelete(id))
    BY DEF AfterDelete, Tamer, ServiceTypeOK, Cluster, Statuses, Deleted

\* A change of status is tame unless it brings a deleted cluster back.
LEMMA MoveIsTame ==
    ASSUME ServiceTypeOK, NEW id \in Ids, NEW s \in Statuses, MoveTo(id, s),
           aws[id].status \notin Deleted \/ s \in Deleted, aws[id].status \notin Gone
    PROVE  Tamer(aws, aws')
<1>1. aws[id] \in Cluster /\ aws' = [aws EXCEPT ![id] = [aws[id] EXCEPT !.status = s]]
    BY ClusterType DEF MoveTo
<1>2. /\ [aws[id] EXCEPT !.status = s] \in Cluster
      /\ [aws[id] EXCEPT !.status = s].status = s
    BY <1>1 DEF Cluster
<1>3. aws' \in [Ids -> Cluster]
    BY <1>1, <1>2 DEF ServiceTypeOK
<1>4. \A i \in Ids : aws'[i].status = IF i = id THEN s ELSE aws[i].status
    BY <1>1, <1>2 DEF ServiceTypeOK
<1> QED
    BY <1>3, <1>4 DEF Tamer

\* What happens in the account on its own revives no cluster either.
LEMMA ServiceIsTame ==
    ASSUME ServiceTypeOK, NEW id \in Ids, Settle(id) \/ Idle(id) \/ Drift(id)
    PROVE  Tamer(aws, aws')
<1>1. CASE Settle(id)
    <2>1. CASE aws[id].status = "DELETED" /\ aws' = [aws EXCEPT ![id] = NoCluster("purged")]
        BY <2>1, NoClusterType DEF Tamer, ServiceTypeOK, Gone
    <2>2. ASSUME NEW s \in {"FAILED", "ACTIVE", "PENDING_SETUP"}, MoveTo(id, s),
                 aws[id].status \in {"CREATING", "PENDING_SETUP", "UPDATING"}
          PROVE  Tamer(aws, aws')
        BY <2>2, MoveIsTame DEF Statuses, Deleted, Gone
    <2>3. ASSUME NEW s \in {"DELETING", "DELETED"}, MoveTo(id, s),
                 aws[id].status \in {"PENDING_DELETE", "DELETING"}
          PROVE  Tamer(aws, aws')
        BY <2>3, MoveIsTame DEF Statuses, Deleted, Gone
    <2> QED
        BY <1>1, <2>1, <2>2, <2>3 DEF Settle
<1>2. CASE Idle(id)
    <2>1. \E s \in Statuses : /\ MoveTo(id, s)
                               /\ aws[id].status \notin Deleted
                               /\ aws[id].status \notin Gone
        BY <1>2 DEF Idle, Statuses, Deleted, Gone
    <2> QED
        BY <2>1, MoveIsTame
<1>3. CASE Drift(id)
    <2>1. ASSUME NEW p \in {"on", "off"}, aws' = AfterUpdate(id, Protect(p))
          PROVE  Tamer(aws, aws')
        BY <2>1, InputType, UpdateIsTame
    <2>2. ASSUME NEW k \in TagKeys, NEW v \in TagValues \cup {NoTag},
                 aws' = [aws EXCEPT ![id].tags[k] = v]
          PROVE  Tamer(aws, aws')
        <3> DEFINE new == [aws[id].tags EXCEPT ![k] = v]
        <3>1. new \in TagMaps
            BY ClusterType DEF TagMaps
        <3>2. aws' = [aws EXCEPT ![id].tags = new]
            BY <2>2
        <3> HIDE DEF new
        <3> QED
            BY <3>1, <3>2 DEF Tamer, ServiceTypeOK, Cluster
    <2>3. CASE aws' = AfterPolicy(id, Nil)
        BY <2>3, PolicyIsTame
    <2>4. CASE aws' = AfterDelete(id)
        BY <2>4, DeleteIsTame
    <2> QED
        BY <1>3, <2>1, <2>2, <2>3, <2>4 DEF Drift
<1> QED
    BY <1>1, <1>2, <1>3

-----------------------------------------------------------------------------
(* The inductive invariant *)

\* The identifier the controller goes by: that of the result it is about to
\* publish, once there is one, else the recorded one.
Known == IF ctl.caller \in {"created", "lateInit"}
         THEN ctl.latest.status.identifier ELSE cr.status.identifier

\* Which calls belong to which part of a reconciliation.
CallerInv ==
    /\ ctl.pc = "idle" <=> ctl.caller = "none"
    /\ ctl.pc \in {"manage", "create"} => ctl.caller = "sync"
    /\ ctl.pc \in {"unmanage", "mutate"} => ctl.caller \in {"sync", "delete"}
    /\ ctl.pc = "delete" => ctl.caller = "delete"
    /\ ctl.pc = "patchSpec" => ctl.caller \in {"sync", "created", "lateInit"}

\* The worker never mixes up identifiers: until it has a result of its own, what
\* it works on carries the recorded one.
IdentifierInv ==
    /\ ctl.caller \in {"sync", "delete"} =>
          ctl.desired.status.identifier = cr.status.identifier
    /\ ctl.pc = "getPolicy" =>
          ctl.observed.status.identifier = Subject(ctl).status.identifier
    /\ ctl.pc = "getPolicy" => Subject(ctl).status.identifier # Nil
    /\ ctl.pc \in {"mutate", "delete"} => ctl.desired.status.identifier # Nil
    /\ \/ ctl.caller = "sync" /\ ctl.pc \in {"mutate", "patchSpec", "unmanage", "publish"}
       \/ ctl.caller = "delete" /\ ctl.pc \in {"mutate", "delete", "publish"}
       => ctl.latest.status.identifier = cr.status.identifier

\* But for those in lost, every live cluster is the known one and a finalizer stands
\* for it, and there is none where the controller creates one or lets go of the resource.
Held(lost) ==
    /\ \A id \in Ids \ lost : Live(id) => id = Known /\ cr.exists /\ cr.finalizer
    /\ ctl.pc \in {"manage", "create", "unmanage"} => \A id \in Ids \ lost : ~Live(id)
    /\ ctl.pc = "create" => cr.exists /\ cr.finalizer

\* No cluster is lost ...
LiveInv == Held({})

\* ... or as many as answers were lost and processes stopped.
LossInv ==
    \E lost \in SUBSET Ids :
        Held(lost) /\ Cardinality(lost) <= spent.faults + spent.crashes

WorkerInv == TypeOK /\ CallerInv /\ IdentifierInv

IndInv == WorkerInv /\ LiveInv

-----------------------------------------------------------------------------
(* Types, and which identifier the worker holds *)

Counters == [edits : 0 .. MaxEdits, faults : 0 .. MaxFaults,
             crashes : 0 .. MaxCrashes, drifts : 0 .. MaxDrifts]

\* A call spends at most one fault.
LEMMA SpendType ==
    ASSUME TypeOK, NEW fate \in Fates, Spend(fate)
    PROVE  spent' \in Counters
    BY ReconcileAssumption DEF Spend, Fates, TypeOK, Counters

\* A fault spends no intervention of others.
LEMMA SpendKeepsDrifts ==
    ASSUME TypeOK, NEW fate, Spend(fate)
    PROVE  spent'.drifts = spent.drifts
    BY DEF Spend, TypeOK

\* A call with a tame effect is tame whether it is served, dropped or lost.
LEMMA EffectIsTame ==
    ASSUME ServiceTypeOK, NEW fate, NEW verdict, NEW effect, Effect(fate, verdict, effect),
           verdict = "none" => Tamer(aws, effect)
    PROVE  Tamer(aws, aws')
    BY DEF Effect, Tamer, ServiceTypeOK

\* The worker is consistent at the start.
LEMMA WorkerInit == Init => WorkerInv
<1> SUFFICES ASSUME Init
             PROVE  WorkerInv
    OBVIOUS
<1>1. ServiceTypeOK
    BY NoClusterType DEF Init, ServiceInit, ServiceTypeOK, Gone
<1>2. cr \in CustomResource
    BY ReconcileAssumption, BlankType
    DEF Init, CustomResource, BlankStatus, ClusterStatus
<1>3. ctl \in Controller /\ ctl = IdleCtl
    BY IdleType DEF Init
<1>4. queued \in BOOLEAN /\ spent \in Counters
    BY ReconcileAssumption DEF Init, Counters
<1> QED
    BY <1>1, <1>2, <1>3, <1>4
    DEF WorkerInv, TypeOK, CallerInv, IdentifierInv, IdleCtl, Counters

\* The four calls of an update change one cluster, and the worker goes on with what
\* AfterCall makes of a resource of the same spec and identifier.
LEMMA MutateCalls ==
    ASSUME WorkerInv, TagResource \/ UntagResource \/ SyncPolicy \/ UpdateCluster
    PROVE  /\ ctl.pc = "mutate" /\ cr' = cr /\ queued' = queued
           /\ spent' \in Counters
           /\ Tamer(aws, aws')
           /\ \E err, r :
                 /\ r \in Resource
                 /\ r.spec = ctl.desired.spec
                 /\ r.status.identifier = ctl.desired.status.identifier
                 /\ ctl' = AfterCall(ctl, err, r)
<1>t. /\ ServiceTypeOK /\ ctl \in Controller /\ IdentifierInv
    BY DEF WorkerInv, TypeOK
<1>r. ctl.desired \in Resource /\ ctl.latest \in Resource
    BY <1>t, SubjectType
<1>1. ctl.pc = "mutate" /\ cr' = cr /\ queued' = queued
    BY DEF TagResource, UntagResource, SyncPolicy, UpdateCluster
<1>2. spent' \in Counters
    BY SpendType DEF WorkerInv, TagResource, UntagResource, SyncPolicy, UpdateCluster
<1>i. Id \in Ids
    BY <1>r, <1>t, <1>1, StatusType DEF IdentifierInv, Id
<1>g. /\ ctl.desired.spec.tags \in TagMaps
      /\ ctl.desired.spec.policy \in Policies \cup {Nil}
    BY <1>r DEF Resource, ClusterSpec
<1>3. CASE TagResource
    BY <1>3, <1>1, <1>2, <1>i, <1>g, <1>t, <1>r, TagIsTame, EffectIsTame DEF TagResource
<1>4. CASE UntagResource
    BY <1>4, <1>1, <1>2, <1>i, <1>t, <1>r, UntagIsTame, EffectIsTame DEF UntagResource
<1>5. CASE SyncPolicy
    <2> DEFINE policy  == ctl.desired.spec.policy
               remove  == policy \in {Nil, EmptyPolicy}
               verdict == IF remove THEN DeletePolicyVerdict(Id)
                                    ELSE PutPolicyVerdict(Id, policy)
               wanted  == IF remove THEN Nil ELSE policy
    <2>1. PICK fate \in Fates :
                /\ Effect(fate, verdict, AfterPolicy(Id, wanted))
                /\ ctl' = AfterCall(ctl,
                             IF remove /\ Answer(fate, verdict) = "notFound" THEN "none"
                             ELSE Answer(fate, verdict),
                             ctl.desired)
        BY <1>5 DEF SyncPolicy
    <2>3. wanted \in (Policies \ {EmptyPolicy}) \cup {Nil}
        BY <1>g
    <2>4. Tamer(aws, AfterPolicy(Id, wanted))
        BY <1>i, <1>t, <2>3, PolicyIsTame
    <2>5. Tamer(aws, aws')
        BY <1>t, <2>1, <2>4, EffectIsTame
    <2> QED
        BY <1>1, <1>2, <1>r, <2>1, <2>5
<1>6. CASE UpdateCluster
    <2> DEFINE input   == NewUpdateRequestPayload(ctl.desired, ctl.latest)
               verdict == UpdateVerdict(Id, input)
               updated == [ctl.desired EXCEPT !.status.status =
                              AfterUpdate(Id, input)[Id].status]
    <2>1. PICK fate \in Fates :
                /\ Effect(fate, verdict, AfterUpdate(Id, input))
                /\ ctl' = AfterCall(ctl, Answer(fate, verdict), updated)
        BY <1>6 DEF UpdateCluster
    <2>3. Tamer(aws, AfterUpdate(Id, input))
        BY <1>r, <1>t, <1>i, InputType, UpdateIsTame
    <2>4. Tamer(aws, aws')
        BY <1>t, <2>1, <2>3, EffectIsTame
    <2>5. CASE Answer(fate, verdict) # "none"
        <3>1. ctl' = AfterCall(ctl, Answer(fate, verdict), ctl.desired)
            BY <2>1, <2>5 DEF AfterCall
        <3> QED
            BY <1>1, <1>2, <1>r, <2>4, <3>1
    <2>6. CASE Answer(fate, verdict) = "none"
        <3>1. aws[Id].status \in Statuses
            BY <1>t, <1>i, <2>6, ClusterType DEF Answer, UpdateVerdict, MutateVerdict
        <3>2. AfterUpdate(Id, input)[Id].status \in Statuses
            BY <1>t, <1>i, <3>1 DEF AfterUpdate, Updated, ServiceTypeOK, Cluster, Statuses
        <3>3. updated \in Resource
            BY <1>r, <3>2 DEF Resource, ClusterStatus
        <3>4. /\ updated.spec = ctl.desired.spec
              /\ updated.status.identifier = ctl.desired.status.identifier
            BY <1>r DEF Resource, ClusterStatus
        <3> HIDE DEF updated
        <3> QED
            BY <1>1, <1>2, <2>1, <2>4, <3>3, <3>4
    <2> QED
        BY <2>5, <2>6
<1> QED
    BY <1>3, <1>4, <1>5, <1>6

\* Every step keeps the types and the worker consistent.
LEMMA WorkerStep == WorkerInv /\ [Next]_vars => WorkerInv'
<1> SUFFICES ASSUME WorkerInv, [Next]_vars
             PROVE  WorkerInv'
    OBVIOUS
<1> USE DEF WorkerInv
<1>t. /\ ServiceTypeOK /\ cr \in CustomResource /\ queued \in BOOLEAN
      /\ ctl \in Controller /\ spent \in Counters
    BY DEF TypeOK, Counters
<1>r. /\ ctl.desired \in Resource /\ ctl.latest \in Resource /\ ctl.observed \in Resource
      /\ Subject(ctl) \in Resource
      /\ cr.spec \in ClusterSpec /\ cr.status \in ClusterStatus
    BY <1>t, SubjectType DEF CustomResource
<1>1. CASE UNCHANGED vars
    BY <1>1 DEF vars, TypeOK, ServiceTypeOK, CallerInv, IdentifierInv, Subject
<1>2. CASE Start
    <2>1. CASE ~cr.exists
        BY <1>2, <2>1 DEF Start, TypeOK, ServiceTypeOK, CallerInv, IdentifierInv, Subject
    <2>2. ASSUME NEW r \in Resource, NEW caller \in {"sync", "delete"},
                 ctl' = StartRead([IdleCtl EXCEPT !.desired = r], caller),
                 r.status.identifier = cr.status.identifier
          PROVE  WorkerInv'
        <3> DEFINE c == [IdleCtl EXCEPT !.desired = r]
        <3>1. c \in Controller /\ c.desired = r
            BY IdleType DEF Controller
        <3>c. ctl' = StartRead(c, caller)
            BY <2>2
        <3> HIDE DEF c
        <3>2. /\ ctl' \in Controller /\ ctl'.pc = "getCluster"
              /\ ctl'.caller = caller /\ ctl'.desired = r
            BY <3>1, <3>c, StartReadType
        <3>3. aws' = aws /\ cr' = cr /\ spent' = spent /\ queued' \in BOOLEAN
            BY <1>2 DEF Start
        <3>4. TypeOK'
            BY <1>t, <3>2, <3>3 DEF TypeOK, ServiceTypeOK, Counters
        <3>5. CallerInv' /\ IdentifierInv'
            BY <2>2, <3>2, <3>3 DEF CallerInv, IdentifierInv
        <3> QED
            BY <3>4, <3>5
    <2> DEFINE fresh == [cr.status EXCEPT !.terminal = FALSE, !.recoverable = FALSE,
                                          !.synced = FALSE]
               given == [spec |-> cr.spec, status |-> fresh]
               asIs  == [spec |-> cr.spec, status |-> cr.status]
    <2>3. fresh \in ClusterStatus /\ fresh.identifier = cr.status.identifier
        BY <1>r DEF ClusterStatus
    <2> HIDE DEF fresh
    <2>4. given \in Resource /\ asIs \in Resource
        BY <1>r, <2>3 DEF Resource
    <2>5. /\ EnsureTags(given) \in Resource
          /\ EnsureTags(given).status.identifier = cr.status.identifier
        BY <2>3, <2>4, EnsureTagsType
    <2>6. CASE cr.exists /\ cr.deleting
        <3>1. ctl' = StartRead([IdleCtl EXCEPT !.desired = asIs], "delete")
            BY <1>2, <2>6 DEF Start
        <3> QED
            BY <2>2, <2>4, <3>1
    <2>7. CASE cr.exists /\ ~cr.deleting
        <3>1. ctl' = StartRead([IdleCtl EXCEPT !.desired = EnsureTags(given)], "sync")
            BY <1>2, <2>7 DEF Start, fresh
        <3> QED
            BY <2>2, <2>5, <3>1
    <2> QED
        BY <2>1, <2>6, <2>7
<1>3. CASE GetCluster
    <2> DEFINE r  == Subject(ctl)
               id == r.status.identifier
    <2>1. ctl.pc = "getCluster" /\ ctl.caller \in {"sync", "created", "lateInit", "delete"}
        BY <1>3, <1>t DEF GetCluster, CallerInv, Controller
    <2>2. spent' \in Counters
        BY <1>3, <1>t, SpendType DEF GetCluster, ReadFates
    <2>3. ASSUME NEW err, ctl' = ReadFailed(ctl, err)
          PROVE  WorkerInv'
        <3>1. ctl' \in Controller
            BY <1>t, <2>3, ReadFailedType
        <3>2. CASE ctl.caller = "sync" /\ err = "notFound"
            BY <1>3, <1>t, <2>1, <2>2, <2>3, <3>1, <3>2
            DEF GetCluster, ReadFailed, TypeOK, ServiceTypeOK, CallerInv, IdentifierInv,
                Controller, Counters
        <3>3. CASE ctl.caller = "delete" /\ err = "notFound"
            BY <1>3, <1>t, <2>1, <2>2, <2>3, <3>1, <3>3
            DEF GetCluster, ReadFailed, TypeOK, ServiceTypeOK, CallerInv, IdentifierInv,
                Controller, Counters
        <3>4. CASE ctl.caller \in {"sync", "delete"} /\ err # "notFound"
            <4>1. ctl' = Fail(ctl, ctl.desired, err)
                BY <2>3, <3>4 DEF ReadFailed
            <4> QED
                BY <1>3, <1>t, <1>r, <2>1, <2>2, <3>1, <3>4, <4>1, FailType
                DEF GetCluster, TypeOK, ServiceTypeOK, CallerInv, IdentifierInv, Counters
        <3>5. CASE ctl.caller \in {"created", "lateInit"}
            BY <1>3, <1>t, <2>1, <2>2, <2>3, <3>1, <3>5
            DEF GetCluster, ReadFailed, TypeOK, ServiceTypeOK, CallerInv, IdentifierInv,
                Controller, Counters
        <3> QED
            BY <2>1, <3>2, <3>3, <3>4, <3>5
    <2>4. ASSUME id # Nil, GetVerdict(id) = "none",
                 ctl' = [ctl EXCEPT !.pc = "getPolicy", !.observed = Observe(r, aws[id])]
          PROVE  WorkerInv'
        <3>1. id \in Ids /\ Found(id)
            BY <1>r, <2>4, StatusType DEF GetVerdict
        <3>2. /\ Observe(r, aws[id]) \in Resource
              /\ Observe(r, aws[id]).status.identifier = id
            BY <1>t, <1>r, <3>1, ClusterType, ObserveType
        <3>3. /\ ctl' \in Controller /\ ctl'.pc = "getPolicy"
              /\ ctl'.caller = ctl.caller /\ ctl'.desired = ctl.desired
              /\ ctl'.latest = ctl.latest
              /\ ctl'.observed.status.identifier = id
            BY <1>t, <2>4, <3>2 DEF Controller
        <3>4. Subject(ctl)' = Subject(ctl)
            BY <3>3 DEF Subject
        <3> QED
            BY <1>3, <1>t, <2>1, <2>2, <2>4, <3>3, <3>4
            DEF GetCluster, TypeOK, ServiceTypeOK, CallerInv, IdentifierInv, Counters
    <2> QED
        BY <1>3, <2>3, <2>4 DEF GetCluster, Answer
<1>4. CASE GetClusterPolicy
    <2>1. ctl.pc = "getPolicy" /\ ctl.caller \in {"sync", "created", "lateInit", "delete"}
        BY <1>4, <1>t DEF GetClusterPolicy, CallerInv, Controller
    <2>2. spent' \in Counters /\ aws' = aws /\ cr' = cr /\ queued' = queued
        BY <1>4, <1>t, SpendType DEF GetClusterPolicy, ReadFates
    <2> DEFINE id == ctl.observed.status.identifier
    <2>3. id \in Ids /\ id = Subject(ctl).status.identifier
        BY <1>r, <2>1, StatusType DEF IdentifierInv
    <2>d. ctl.caller \in {"sync", "delete"} =>
             /\ ctl.desired.status.identifier = cr.status.identifier
             /\ ctl.desired.status.identifier # Nil
             /\ id = ctl.desired.status.identifier
        BY <2>1, <2>3 DEF IdentifierInv, Subject
    <2>4. ASSUME NEW policy \in Policies \cup {Nil},
                 ctl' = ReadDone(ctl, OnSuccess([ctl.observed EXCEPT !.spec.policy = policy]))
          PROVE  WorkerInv'
        <3> DEFINE seen == [ctl.observed EXCEPT !.spec.policy = policy]
                   o    == OnSuccess(seen)
        <3>1. seen \in Resource /\ seen.status = ctl.observed.status
            BY <1>r DEF Resource, ClusterSpec
        <3> HIDE DEF seen
        <3>2. o \in Resource /\ o.status.identifier = id
            BY <3>1, ConditionsType
        <3>3. ctl' = ReadDone(ctl, o)
            BY <2>4 DEF seen
        <3> HIDE DEF o
        <3>4. CASE ctl.caller \in {"created", "lateInit"}
            BY <1>t, <2>1, <2>2, <2>3, <3>2, <3>3, <3>4, ReadDoneType
            DEF TypeOK, ServiceTypeOK, CallerInv, IdentifierInv, Counters
        <3>5. CASE ctl.caller = "sync"
            BY <1>t, <2>1, <2>2, <2>3, <2>d, <3>2, <3>3, <3>5, ReadDoneType
            DEF TypeOK, ServiceTypeOK, CallerInv, IdentifierInv, Counters,
                Subject
        <3>6. CASE ctl.caller = "delete"
            BY <1>t, <2>1, <2>2, <2>3, <2>d, <3>2, <3>3, <3>6, ReadDoneType
            DEF TypeOK, ServiceTypeOK, CallerInv, IdentifierInv, Counters,
                Subject
        <3> QED
            BY <2>1, <3>4, <3>5, <3>6
    <2>5. ASSUME NEW err, err # "notFound", ctl' = ReadFailed(ctl, err)
          PROVE  WorkerInv'
        <3>1. ctl' \in Controller
            BY <1>t, <2>5, ReadFailedType
        <3>2. CASE ctl.caller \in {"sync", "delete"}
            <4>1. ctl' = Fail(ctl, ctl.desired, err)
                BY <2>5, <3>2 DEF ReadFailed
            <4> QED
                BY <1>t, <1>r, <2>1, <2>2, <2>d, <3>1, <3>2, <4>1, FailType
                DEF TypeOK, ServiceTypeOK, CallerInv, IdentifierInv, Counters
        <3>3. CASE ctl.caller \in {"created", "lateInit"}
            BY <1>t, <2>1, <2>2, <2>5, <3>1, <3>3
            DEF ReadFailed, TypeOK, ServiceTypeOK, CallerInv, IdentifierInv,
                Controller, Counters
        <3> QED
            BY <2>1, <3>2, <3>3
    <2>6. aws[id].policy \in Policies \cup {Nil}
        BY <1>t, <2>3, ClusterType DEF Cluster
    <2> QED
        BY <1>4, <2>4, <2>5, <2>6 DEF GetClusterPolicy
<1>5. CASE Manage
    <2>1. cr' \in CustomResource /\ cr'.status = cr.status
        BY <1>5, <1>t DEF Manage, CustomResource
    <2>2. CASE cr.exists
        BY <1>5, <1>t, <2>1, <2>2
        DEF Manage, TypeOK, ServiceTypeOK, CallerInv, IdentifierInv, Controller, Counters
    <2>3. CASE ~cr.exists
        BY <1>5, <1>t, <2>1, <2>3, IdleType
        DEF Manage, TypeOK, ServiceTypeOK, CallerInv, IdentifierInv, IdleCtl, Counters
    <2> QED
        BY <2>2, <2>3
<1>6. CASE CreateCluster
    <2> DEFINE spec == ctl.desired.spec
               verdict == CreateVerdict(spec)
    <2>1. PICK fate \in Fates : LET err == Answer(fate, verdict)
             IN /\ Spend(fate)
                /\ Effect(fate, verdict, AfterCreate(spec))
                /\ ctl' = IF err = "none"
                          THEN StartRead([ctl EXCEPT !.latest = OnSuccess(
                                  Created(ctl.desired, NextId, NewCluster(spec)))],
                                  "created")
                          ELSE [Fail(ctl, ctl.desired, err) EXCEPT !.pc = "unmanage"]
        BY <1>6 DEF CreateCluster
    <2>2. /\ ctl.pc = "create" /\ ctl.caller = "sync"
          /\ cr' = cr /\ queued' = queued
          /\ spec \in ClusterSpec
        BY <1>6, <1>r DEF CreateCluster, CallerInv, Resource
    <2>3. spent' \in Counters
        BY <1>t, <2>1, SpendType
    <2>4. ServiceTypeOK'
        BY <1>t, <2>1, <2>2, AfterCreateType DEF Effect, ServiceTypeOK
    <2> DEFINE made == [ctl EXCEPT !.latest = OnSuccess(
                                  Created(ctl.desired, NextId, NewCluster(spec)))]
    <2>5. CASE Answer(fate, verdict) = "none"
        <3>1. NextId \in Ids
            BY <2>5, NextIdType DEF Answer
        <3>2. Created(ctl.desired, NextId, NewCluster(spec)) \in Resource
            BY <1>r, <2>2, <3>1, NewClusterType, CreatedType DEF Statuses
        <3>3. made \in Controller
            BY <1>t, <3>2, ConditionsType DEF Controller
        <3>4. ctl' = StartRead(made, "created")
            BY <2>1, <2>5
        <3> HIDE DEF made
        <3>5. ctl' \in Controller /\ ctl'.pc = "getCluster" /\ ctl'.caller = "created"
            BY <3>3, <3>4, StartReadType
        <3> QED
            BY <1>t, <2>2, <2>3, <2>4, <3>5 DEF TypeOK, CallerInv, IdentifierInv, Counters
    <2>6. CASE Answer(fate, verdict) # "none"
        <3> DEFINE failed == Fail(ctl, ctl.desired, Answer(fate, verdict))
        <3>1. ctl' = [failed EXCEPT !.pc = "unmanage"]
            BY <2>1, <2>6
        <3>2. /\ failed \in Controller /\ failed.caller = "sync"
              /\ failed.desired = ctl.desired
              /\ failed.latest.status.identifier = ctl.desired.status.identifier
            BY <1>t, <1>r, <2>2, FailType
        <3> HIDE DEF failed
        <3> QED
            BY <1>t, <2>2, <2>3, <2>4, <3>1, <3>2
            DEF TypeOK, CallerInv, IdentifierInv, Controller, Counters
    <2> QED
        BY <2>5, <2>6
<1>7. CASE TagResource \/ UntagResource \/ SyncPolicy \/ UpdateCluster
    <2>1. /\ ctl.pc = "mutate" /\ cr' = cr /\ queued' = queued
          /\ spent' \in Counters /\ Tamer(aws, aws')
        BY <1>7, MutateCalls
    <2>2. PICK err, r : /\ r \in Resource
                        /\ r.status.identifier = ctl.desired.status.identifier
                        /\ ctl' = AfterCall(ctl, err, r)
        BY <1>7, MutateCalls
    <2>3. /\ ctl.caller \in {"sync", "delete"}
          /\ r.status.identifier = cr.status.identifier
          /\ ctl.desired.status.identifier = cr.status.identifier
          /\ ctl.latest.status.identifier = cr.status.identifier
          /\ cr.status.identifier # Nil
        BY <2>1, <2>2 DEF CallerInv, IdentifierInv
    <2> QED
        BY <1>t, <2>1, <2>2, <2>3, AfterCallType
        DEF Tamer, TypeOK, ServiceTypeOK, CallerInv, IdentifierInv, Counters
<1>i. ctl.pc = "delete" => Id \in Ids
    BY <1>r, StatusType DEF IdentifierInv, Id
<1>8. CASE DeleteCluster
    <2>1. PICK fate \in Fates :
             LET err == Answer(fate, DeleteVerdict(Id))
             IN /\ Spend(fate)
                /\ Effect(fate, DeleteVerdict(Id), AfterDelete(Id))
                /\ ctl' = IF err = "none" THEN [ctl EXCEPT !.pc = "unmanage"]
                                          ELSE Fail(ctl, ctl.latest, err)
        BY <1>8 DEF DeleteCluster
    <2>2. /\ ctl.pc = "delete" /\ ctl.caller = "delete" /\ Id \in Ids
          /\ cr' = cr /\ queued' = queued
        BY <1>8, <1>i DEF DeleteCluster, CallerInv
    <2>3. ServiceTypeOK' /\ spent' \in Counters
        BY <1>t, <2>1, <2>2, SpendType, EffectIsTame, DeleteIsTame DEF Tamer, ServiceTypeOK
    <2>4. CASE ctl' = [ctl EXCEPT !.pc = "unmanage"]
        BY <1>t, <2>2, <2>3, <2>4 DEF TypeOK, CallerInv, IdentifierInv, Controller, Counters
    <2>5. ASSUME NEW err, ctl' = Fail(ctl, ctl.latest, err)
          PROVE  WorkerInv'
        BY <1>t, <1>r, <2>2, <2>3, <2>5, FailType
        DEF TypeOK, CallerInv, IdentifierInv, Counters
    <2> QED
        BY <2>1, <2>4, <2>5
<1>9. CASE Unmanage
    <2>1. cr' \in CustomResource /\ cr'.status = cr.status
        BY <1>9, <1>t DEF Unmanage, CustomResource
    <2>2. CASE ctl.caller = "delete"
        BY <1>9, <1>t, <2>1, <2>2, IdleType
        DEF Unmanage, TypeOK, ServiceTypeOK, CallerInv, IdentifierInv, IdleCtl, Counters
    <2>3. CASE ctl.caller = "sync"
        BY <1>9, <1>t, <2>1, <2>3
        DEF Unmanage, TypeOK, ServiceTypeOK, CallerInv, IdentifierInv, Controller, Counters
    <2> QED
        BY <1>9, <2>2, <2>3 DEF Unmanage, CallerInv
<1>10. CASE PatchSpec
    <2> DEFINE filtered == FilterSystemTags(ctl.latest).spec
               patched  == MergePatch(cr.spec, ctl.desired.spec, filtered)
               taken    == [ctl EXCEPT !.desired = ctl.latest]
    <2>1. ctl.latest.spec \in ClusterSpec /\ ctl.desired.spec \in ClusterSpec
        BY <1>r DEF Resource
    <2>2. filtered \in ClusterSpec
        BY <1>r, FilterType DEF Resource
    <2>3. patched \in ClusterSpec
        BY <1>r, <2>1, <2>2, MergePatchType
    <2>4. cr' = [cr EXCEPT !.spec = patched] /\ queued' = (queued \/ patched # cr.spec)
        BY <1>10 DEF PatchSpec
    <2> HIDE DEF filtered, patched
    <2>5. cr' \in CustomResource /\ queued' \in BOOLEAN
        BY <1>t, <2>3, <2>4 DEF CustomResource
    <2>6. taken \in Controller
        BY <1>t, <1>r DEF Controller
    <2>7. CASE ctl.caller = "lateInit"
        BY <1>10, <1>t, <2>5, <2>6, <2>7
        DEF PatchSpec, TypeOK, ServiceTypeOK, CallerInv, IdentifierInv, Controller, Counters
    <2>8. CASE ctl.caller # "lateInit"
        <3>1. ctl' = StartRead(taken, "lateInit")
            BY <1>10, <2>8 DEF PatchSpec
        <3> HIDE DEF taken
        <3>2. ctl' \in Controller /\ ctl'.pc = "getCluster" /\ ctl'.caller = "lateInit"
            BY <2>6, <3>1, StartReadType
        <3> QED
            BY <1>10, <1>t, <2>5, <3>2
            DEF PatchSpec, TypeOK, ServiceTypeOK, CallerInv, IdentifierInv, Counters
    <2> QED
        BY <2>7, <2>8
<1>11. CASE Publish
    <2> DEFINE synced == ctl.result = "done" /\ IsSynced(ctl.latest)
               status == [ctl.latest.status EXCEPT !.synced = synced]
    <2>1. status \in ClusterStatus
        BY <1>r, StatusType DEF ClusterStatus
    <2>2. cr' = IF cr.exists THEN [cr EXCEPT !.status = status] ELSE cr
        BY <1>11 DEF Publish
    <2> HIDE DEF status
    <2>3. cr' \in CustomResource /\ queued' \in BOOLEAN
        BY <1>11, <1>t, <2>1, <2>2 DEF CustomResource, Publish
    <2> QED
        BY <1>11, <1>t, <2>3, IdleType
        DEF Publish, TypeOK, ServiceTypeOK, CallerInv, IdentifierInv, IdleCtl, Counters
<1>12. CASE Resync
    BY <1>12, <1>t DEF Resync, TypeOK, ServiceTypeOK, CallerInv, IdentifierInv, Subject, Counters
<1>13. CASE EditSpec \/ DeleteCR
    <2>1. cr' \in CustomResource /\ cr'.status = cr.status
        BY <1>13, <1>t, ReconcileAssumption DEF EditSpec, DeleteCR, CustomResource
    <2>2. spent' \in Counters
        BY <1>13, <1>t, ReconcileAssumption DEF EditSpec, DeleteCR, Counters
    <2> QED
        BY <1>13, <1>t, <2>1, <2>2
        DEF EditSpec, DeleteCR, TypeOK, ServiceTypeOK, CallerInv, IdentifierInv, Subject, Counters
<1>14. CASE Crash
    <2>1. spent' \in Counters
        BY <1>14, <1>t, ReconcileAssumption DEF Crash, Counters
    <2> QED
        BY <1>14, <1>t, <2>1, IdleType
        DEF Crash, TypeOK, ServiceTypeOK, CallerInv, IdentifierInv, IdleCtl, Counters
<1>15. ASSUME NEW id \in Ids, ServiceSettles(id) \/ ServiceIdles(id) \/ ServiceDrifts(id)
       PROVE  WorkerInv'
    <2>1. Tamer(aws, aws')
        BY <1>15, <1>t, ServiceIsTame DEF ServiceSettles, ServiceIdles, ServiceDrifts
    <2>2. spent' \in Counters
        BY <1>15, <1>t, ReconcileAssumption
        DEF ServiceSettles, ServiceIdles, ServiceDrifts, Counters
    <2>3. cr' = cr /\ queued' = queued /\ ctl' = ctl
        BY <1>15 DEF ServiceSettles, ServiceIdles, ServiceDrifts
    <2> QED
        BY <1>t, <2>1, <2>2, <2>3
        DEF Tamer, TypeOK, ServiceTypeOK, CallerInv, IdentifierInv, Subject, Counters
<1> QED
    BY <1>1, <1>2, <1>3, <1>4, <1>5, <1>6, <1>7, <1>8, <1>9,
       <1>10, <1>11, <1>12, <1>13, <1>14, <1>15
    DEF Next, Work

\* Every reachable state of the worker, of the custom resource and of the account
\* is of the declared types, whatever the constants.
THEOREM TypeCorrect == Spec => []TypeOK
<1>1. Spec => []WorkerInv
    BY WorkerInit, WorkerStep, PTL DEF Spec
<1>2. WorkerInv => TypeOK
    BY DEF WorkerInv
<1> QED
    BY <1>1, <1>2, PTL

-----------------------------------------------------------------------------
(* Live clusters, when every answer arrives and the process does not stop *)

Quiet == ~LostReplies /\ MaxCrashes = 0

\* A tame step makes no cluster live.
LEMMA TameLive ==
    ASSUME Tamer(aws, aws'), NEW id \in Ids, Live(id)'
    PROVE  Live(id)
    BY DEF Tamer, Live

\* Steps that make no cluster and let go of nothing: enough is that the worker
\* goes by the same identifier and does not enter the calls of a missing cluster.
LEMMA LiveKept ==
    ASSUME NEW lost, Held(lost), Tamer(aws, aws'), Known' = Known,
           cr'.exists = cr.exists, cr'.finalizer = cr.finalizer,
           ctl'.pc \in {"manage", "create", "unmanage"} => ctl'.pc = ctl.pc
    PROVE  Held(lost)'
    BY TameLive DEF Held

\* A step that leaves the account alone is tame.
LEMMA SameIsTame ==
    ASSUME ServiceTypeOK, aws' = aws
    PROVE  Tamer(aws, aws')
    BY DEF Tamer, ServiceTypeOK

\* Where no cluster is live the worker may create one or let go of the resource.
LEMMA NoneLive ==
    ASSUME NEW lost, \A id \in Ids \ lost : ~Live(id), Tamer(aws, aws'),
           ctl'.pc = "create" => cr'.exists /\ cr'.finalizer
    PROVE  Held(lost)'
    BY TameLive DEF Held

\* A cluster the read did not find was the only one that could be live.
LEMMA NotFoundIsNone ==
    ASSUME NEW lost, Held(lost), NEW id, id = Known, id = Nil \/ (id \in Ids /\ ~Found(id))
    PROVE  \A i \in Ids \ lost : ~Live(i)
    BY ResourceAssumption DEF Held, Found, Live, Ids

\* One more cluster is lost with the answer of the call that made it.
LostWithAnswer(lost) ==
    /\ LostReplies
    /\ spent' = [spent EXCEPT !.faults = @ + 1]
    /\ \E id \in Ids : Held(lost \cup {id})'

\* Every step but a crash keeps live clusters known and held by a finalizer, but for
\* one that is created without an answer.
LEMMA HeldStep ==
    ASSUME WorkerInv, WorkerInv', NEW lost, Held(lost), [Next]_vars, ~Crash
    PROVE  Held(lost)' \/ LostWithAnswer(lost)
<1>t. /\ ServiceTypeOK /\ cr \in CustomResource /\ ctl \in Controller
      /\ CallerInv /\ IdentifierInv
      /\ cr' \in CustomResource /\ ctl' \in Controller
    BY DEF WorkerInv, TypeOK
<1>r. /\ ctl.desired \in Resource /\ ctl.latest \in Resource /\ ctl.observed \in Resource
      /\ Subject(ctl) \in Resource
    BY <1>t, SubjectType
<1>1. CASE UNCHANGED vars
    BY <1>1, <1>t, LiveKept, SameIsTame DEF vars, Known
<1>2. CASE Start
    <2>1. aws' = aws /\ cr' = cr /\ ctl.caller = "none"
        BY <1>2, <1>t DEF Start, CallerInv
    <2>2. \/ ctl' = ctl
          \/ ctl'.pc = "getCluster" /\ ctl'.caller \in {"sync", "delete"}
        BY <1>2 DEF Start, StartRead, IdleCtl
    <2>3. Known' = Known
        BY <2>1, <2>2 DEF Known
    <2> QED
        BY <1>t, <2>1, <2>2, <2>3, LiveKept, SameIsTame
<1>3. CASE GetCluster
    <2> DEFINE id == Subject(ctl).status.identifier
    <2>1. /\ ctl.pc = "getCluster" /\ ctl.caller \in {"sync", "created", "lateInit", "delete"}
          /\ aws' = aws /\ cr' = cr
        BY <1>3, <1>t DEF GetCluster, CallerInv, Controller
    <2>2. id \in Ids \cup {Nil} /\ id = Known
        BY <1>r, <1>t, <2>1, StatusType DEF IdentifierInv, Subject, Known
    <2>3. ASSUME NEW err, ctl' = ReadFailed(ctl, err),
                 err = "notFound" => id = Nil \/ ~Found(id)
          PROVE  Held(lost)'
        <3>1. CASE err = "notFound" /\ ctl.caller \in {"sync", "delete"}
            <4>1. \A i \in Ids \ lost : ~Live(i)
                BY <2>2, <2>3, <3>1, NotFoundIsNone
            <4>2. ctl'.pc \in {"manage", "unmanage"}
                BY <1>t, <2>3, <3>1 DEF ReadFailed, Controller
            <4> QED
                BY <1>t, <2>1, <4>1, <4>2, NoneLive, SameIsTame
        <3>2. CASE err # "notFound" /\ ctl.caller \in {"sync", "delete"}
            <4>1. ctl' = Fail(ctl, ctl.desired, err)
                BY <2>3, <3>2 DEF ReadFailed
            <4>2. ctl'.pc = "publish" /\ ctl'.caller = ctl.caller
                BY <1>t, <1>r, <4>1, FailType
            <4>3. Known' = Known
                BY <2>1, <3>2, <4>2 DEF Known
            <4> QED
                BY <1>t, <2>1, <4>2, <4>3, LiveKept, SameIsTame
        <3>3. CASE ctl.caller \in {"created", "lateInit"}
            <4>1. /\ ctl'.pc = "publish" /\ ctl'.caller = ctl.caller
                  /\ ctl'.latest = ctl.latest
                BY <1>t, <2>3, <3>3 DEF ReadFailed, Controller
            <4>2. Known' = Known
                BY <2>1, <3>3, <4>1 DEF Known
            <4> QED
                BY <1>t, <2>1, <4>1, <4>2, LiveKept, SameIsTame
        <3> QED
            BY <2>1, <3>1, <3>2, <3>3
    <2>4. CASE ctl' = [ctl EXCEPT !.pc       = "getPolicy",
                                  !.observed = Observe(Subject(ctl), aws[id])]
        <3>1. ctl'.pc = "getPolicy" /\ ctl'.caller = ctl.caller /\ ctl'.latest = ctl.latest
            BY <1>t, <2>4 DEF Controller
        <3>2. Known' = Known
            BY <2>1, <3>1 DEF Known
        <3> QED
            BY <1>t, <2>1, <3>1, <3>2, LiveKept, SameIsTame
    <2>5. CASE id = Nil
        <3>1. ctl' = ReadFailed(ctl, "notFound")
            BY <1>3, <2>5 DEF GetCluster
        <3> QED
            BY <2>3, <2>5, <3>1
    <2>6. CASE id # Nil
        <3>1. PICK fate \in ReadFates :
                 ctl' = IF Answer(fate, GetVerdict(id)) = "none"
                        THEN [ctl EXCEPT !.pc       = "getPolicy",
                                         !.observed = Observe(Subject(ctl), aws[id])]
                        ELSE ReadFailed(ctl, Answer(fate, GetVerdict(id)))
            BY <1>3, <2>6 DEF GetCluster
        <3>2. Answer(fate, GetVerdict(id)) = "notFound" => ~Found(id)
            BY DEF Answer, GetVerdict
        <3> QED
            BY <2>3, <2>4, <3>1, <3>2
    <2> QED
        BY <2>5, <2>6
<1>4. CASE GetClusterPolicy
    <2> DEFINE id == ctl.observed.status.identifier
    <2>1. /\ ctl.pc = "getPolicy" /\ ctl.caller \in {"sync", "created", "lateInit", "delete"}
          /\ aws' = aws /\ cr' = cr
        BY <1>4, <1>t DEF GetClusterPolicy, CallerInv, Controller
    <2>2. id \in Ids /\ id = Subject(ctl).status.identifier
        BY <1>r, <1>t, <2>1, StatusType DEF IdentifierInv
    <2>3. ASSUME NEW policy \in Policies \cup {Nil},
                 ctl' = ReadDone(ctl, OnSuccess([ctl.observed EXCEPT !.spec.policy = policy]))
          PROVE  Held(lost)'
        <3> DEFINE seen == [ctl.observed EXCEPT !.spec.policy = policy]
                   o    == OnSuccess(seen)
        <3>1. seen \in Resource /\ seen.status = ctl.observed.status
            BY <1>r DEF Resource, ClusterSpec
        <3> HIDE DEF seen
        <3>2. o \in Resource /\ o.status.identifier = Subject(ctl).status.identifier
            BY <2>2, <3>1, ConditionsType
        <3>3. ctl' = ReadDone(ctl, o)
            BY <2>3 DEF seen
        <3> HIDE DEF o
        <3>4. /\ ctl'.pc \in {"publish", "patchSpec", "mutate", "delete", "getCluster"}
              /\ Known' = Known
            BY <1>t, <2>1, <3>2, <3>3, ReadDoneType DEF Known, IdentifierInv
        <3> QED
            BY <1>t, <2>1, <3>4, LiveKept, SameIsTame
    <2>4. ASSUME NEW err, err # "notFound", ctl' = ReadFailed(ctl, err)
          PROVE  Held(lost)'
        <3>1. CASE ctl.caller \in {"sync", "delete"}
            <4>1. ctl' = Fail(ctl, ctl.desired, err)
                BY <2>4, <3>1 DEF ReadFailed
            <4>2. ctl'.pc = "publish" /\ ctl'.caller = ctl.caller
                BY <1>t, <1>r, <4>1, FailType
            <4>3. Known' = Known
                BY <2>1, <3>1, <4>2 DEF Known
            <4> QED
                BY <1>t, <2>1, <4>2, <4>3, LiveKept, SameIsTame
        <3>2. CASE ctl.caller \in {"created", "lateInit"}
            <4>1. /\ ctl'.pc = "publish" /\ ctl'.caller = ctl.caller
                  /\ ctl'.latest = ctl.latest
                BY <1>t, <2>4, <3>2 DEF ReadFailed, Controller
            <4>2. Known' = Known
                BY <2>1, <3>2, <4>1 DEF Known
            <4> QED
                BY <1>t, <2>1, <4>1, <4>2, LiveKept, SameIsTame
        <3> QED
            BY <2>1, <3>1, <3>2
    <2>5. aws[id].policy \in Policies \cup {Nil}
        BY <1>t, <2>2, ClusterType DEF Cluster
    <2> QED
        BY <1>4, <2>3, <2>4, <2>5 DEF GetClusterPolicy
<1>5. CASE Manage
    <2>1. \A i \in Ids \ lost : ~Live(i)
        BY <1>5 DEF Manage, Held
    <2>2. aws' = aws /\ (ctl'.pc = "create" => cr'.exists /\ cr'.finalizer)
        BY <1>5, <1>t DEF Manage, IdleCtl, CustomResource
    <2> QED
        BY <1>t, <2>1, <2>2, NoneLive, SameIsTame
<1>6. CASE CreateCluster
    <2> DEFINE spec    == ctl.desired.spec
               verdict == CreateVerdict(spec)
    <2>1. PICK fate \in Fates : LET err == Answer(fate, verdict)
             IN /\ Spend(fate)
                /\ Effect(fate, verdict, AfterCreate(spec))
                /\ ctl' = IF err = "none"
                          THEN StartRead([ctl EXCEPT !.latest = OnSuccess(
                                  Created(ctl.desired, NextId, NewCluster(spec)))],
                                  "created")
                          ELSE [Fail(ctl, ctl.desired, err) EXCEPT !.pc = "unmanage"]
        BY <1>6 DEF CreateCluster
    <2>2. /\ \A i \in Ids \ lost : ~Live(i)
          /\ cr.exists /\ cr.finalizer /\ cr' = cr
          /\ spec \in ClusterSpec
        BY <1>6, <1>r DEF CreateCluster, Held, Resource
    <2>3. fate \in {"served", "dropped", "lost"}
        BY DEF Fates
    <2>4. CASE Answer(fate, verdict) = "none"
        <3> DEFINE made == [ctl EXCEPT !.latest = OnSuccess(
                                  Created(ctl.desired, NextId, NewCluster(spec)))]
        <3>1. fate = "served" /\ verdict = "none" /\ NextId \in Ids
            BY <2>4, NextIdType DEF Answer
        <3>2. aws' = [aws EXCEPT ![NextId] = NewCluster(spec)]
            BY <2>1, <3>1 DEF Effect, AfterCreate
        <3>3. \A i \in Ids \ lost : Live(i)' => i = NextId
            BY <1>t, <2>2, <3>1, <3>2 DEF Live, ServiceTypeOK
        <3>4. /\ Created(ctl.desired, NextId, NewCluster(spec)) \in Resource
              /\ Created(ctl.desired, NextId, NewCluster(spec)).status.identifier = NextId
            BY <1>r, <2>2, <3>1, NewClusterType, CreatedType DEF Statuses
        <3>5. made \in Controller /\ made.latest.status.identifier = NextId
            BY <1>t, <3>4, ConditionsType DEF Controller
        <3>6. ctl' = StartRead(made, "created")
            BY <2>1, <2>4
        <3> HIDE DEF made
        <3>7. ctl'.pc = "getCluster" /\ Known' = NextId
            BY <3>5, <3>6, StartReadType DEF Known
        <3> QED
            BY <2>2, <3>3, <3>7 DEF Held
    <2>5. CASE Answer(fate, verdict) # "none"
        <3> DEFINE failed == Fail(ctl, ctl.desired, Answer(fate, verdict))
        <3>2. failed \in Controller
            BY <1>t, <1>r, FailType
        <3>3. ctl' = [failed EXCEPT !.pc = "unmanage"]
            BY <2>1, <2>5
        <3> HIDE DEF failed
        <3>4. ctl'.pc = "unmanage"
            BY <3>2, <3>3 DEF Controller
        <3>5. CASE fate # "lost" \/ verdict # "none"
            <4>1. aws' = aws
                BY <2>1, <2>3, <2>5, <3>5 DEF Effect, Answer
            <4> QED
                BY <1>t, <2>2, <3>4, <4>1, NoneLive, SameIsTame
        <3>6. CASE fate = "lost" /\ verdict = "none"
            <4>1. NextId \in Ids /\ aws' = [aws EXCEPT ![NextId] = NewCluster(spec)]
                BY <2>1, <3>6, NextIdType DEF Effect, AfterCreate
            <4>2. PICK id \in Ids : id = NextId
                BY <4>1
            <4>3. \A i \in Ids \ (lost \cup {id}) : ~Live(i)'
                BY <1>t, <2>2, <4>1, <4>2 DEF Live, ServiceTypeOK
            <4>4. Held(lost \cup {id})'
                BY <3>4, <4>3 DEF Held
            <4>5. LostReplies /\ spent' = [spent EXCEPT !.faults = @ + 1]
                BY <2>1, <3>6 DEF Spend, Fates
            <4> QED
                BY <4>4, <4>5 DEF LostWithAnswer
        <3> QED
            BY <3>5, <3>6
    <2> QED
        BY <2>4, <2>5
<1>7. CASE TagResource \/ UntagResource \/ SyncPolicy \/ UpdateCluster
    <2>1. ctl.pc = "mutate" /\ cr' = cr /\ Tamer(aws, aws')
        BY <1>7, MutateCalls
    <2>2. PICK err, r : r \in Resource /\ ctl' = AfterCall(ctl, err, r)
        BY <1>7, MutateCalls
    <2>3. /\ ctl.caller \in {"sync", "delete"}
          /\ ctl'.caller = ctl.caller
          /\ ctl'.pc \in {"mutate", "delete", "patchSpec", "publish"}
        BY <1>t, <2>1, <2>2, AfterCallType DEF CallerInv
    <2>4. Known' = Known
        BY <2>1, <2>3 DEF Known
    <2> QED
        BY <2>1, <2>3, <2>4, LiveKept
<1>i. ctl.pc = "delete" => Id \in Ids
    BY <1>r, <1>t, StatusType DEF IdentifierInv, Id
<1>8. CASE DeleteCluster
    <2>1. PICK fate \in Fates :
             /\ Effect(fate, DeleteVerdict(Id), AfterDelete(Id))
             /\ ctl' = IF Answer(fate, DeleteVerdict(Id)) = "none"
                       THEN [ctl EXCEPT !.pc = "unmanage"]
                       ELSE Fail(ctl, ctl.latest, Answer(fate, DeleteVerdict(Id)))
        BY <1>8 DEF DeleteCluster
    <2>2. ctl.pc = "delete" /\ ctl.caller = "delete" /\ Id \in Ids /\ cr' = cr
        BY <1>8, <1>i, <1>t DEF DeleteCluster, CallerInv
    <2>3. Tamer(aws, aws')
        BY <1>t, <2>1, <2>2, EffectIsTame, DeleteIsTame
    <2>4. PICK id \in Ids : id = Id /\ id = Known
        BY <1>t, <2>2 DEF IdentifierInv, Id, Known
    <2>5. CASE Answer(fate, DeleteVerdict(Id)) = "none"
        <3>a. fate = "served" /\ DeleteVerdict(Id) = "none"
            BY <2>5 DEF Answer
        <3>1. aws' = AfterDelete(id)
            BY <2>1, <2>4, <3>a DEF Effect
        <3>2. ~Live(id)'
            BY <1>t, <3>1 DEF AfterDelete, Live, Deleted, ServiceTypeOK, Cluster
        <3>3. ctl'.pc = "unmanage"
            BY <1>t, <2>1, <2>5 DEF Controller
        <3>4. \A i \in Ids \ lost : ~Live(i)'
            BY <2>3, <2>4, <3>2, TameLive DEF Held
        <3> QED
            BY <3>3, <3>4 DEF Held
    <2>6. CASE Answer(fate, DeleteVerdict(Id)) # "none"
        <3>1. ctl' = Fail(ctl, ctl.latest, Answer(fate, DeleteVerdict(Id)))
            BY <2>1, <2>6
        <3>2. ctl'.pc = "publish" /\ ctl'.caller = "delete"
            BY <1>t, <1>r, <2>2, <3>1, FailType
        <3>3. Known' = Known
            BY <2>2, <3>2 DEF Known
        <3> QED
            BY <2>2, <2>3, <3>2, <3>3, LiveKept
    <2> QED
        BY <2>5, <2>6
<1>9. CASE Unmanage
    <2>1. (\A i \in Ids \ lost : ~Live(i)) /\ aws' = aws
        BY <1>9 DEF Unmanage, Held
    <2>2. ctl'.pc \in {"idle", "publish"}
        BY <1>9, <1>t DEF Unmanage, IdleCtl, Controller
    <2> QED
        BY <1>t, <2>1, <2>2, NoneLive, SameIsTame
<1>10. CASE PatchSpec
    <2>1. /\ aws' = aws /\ ctl.pc = "patchSpec"
          /\ ctl.caller \in {"sync", "created", "lateInit"}
          /\ cr'.exists = cr.exists /\ cr'.finalizer = cr.finalizer
        BY <1>10, <1>t DEF PatchSpec, CustomResource, CallerInv
    <2>2. Known = ctl.latest.status.identifier
        BY <1>t, <2>1 DEF Known, IdentifierInv
    <2> DEFINE taken == [ctl EXCEPT !.desired = ctl.latest]
    <2>3. taken \in Controller /\ taken.latest = ctl.latest /\ taken.caller = ctl.caller
        BY <1>t, <1>r DEF Controller
    <2>4. ctl' = IF ctl.caller = "lateInit"
                 THEN [taken EXCEPT !.pc = "publish", !.result = "done"]
                 ELSE StartRead(taken, "lateInit")
        BY <1>10 DEF PatchSpec
    <2> HIDE DEF taken
    <2>5. /\ ctl'.pc \in {"publish", "getCluster"} /\ ctl'.caller = "lateInit"
          /\ ctl'.latest = ctl.latest
        BY <2>3, <2>4, StartReadType DEF Controller
    <2>6. Known' = Known
        BY <2>2, <2>5 DEF Known
    <2> QED
        BY <1>t, <2>1, <2>5, <2>6, LiveKept, SameIsTame
<1>11. CASE Publish
    <2> DEFINE status == [ctl.latest.status EXCEPT !.synced = ctl.result = "done"
                                                              /\ IsSynced(ctl.latest)]
    <2>1. /\ ctl.pc = "publish" /\ ctl.caller # "none"
          /\ aws' = aws /\ ctl'.pc = "idle" /\ ctl'.caller = "none"
          /\ cr' = IF cr.exists THEN [cr EXCEPT !.status = status] ELSE cr
        BY <1>11, <1>t DEF Publish, CallerInv, IdleCtl
    <2>2. Known = ctl.latest.status.identifier
        BY <1>t, <2>1 DEF Known, IdentifierInv, Controller
    <2>3. CASE cr.exists
        <3>1. status.identifier = ctl.latest.status.identifier
            BY <1>r, StatusType DEF ClusterStatus
        <3> HIDE DEF status
        <3>2. cr'.status = status /\ cr'.exists = cr.exists /\ cr'.finalizer = cr.finalizer
            BY <1>t, <2>1, <2>3 DEF CustomResource
        <3>3. Known' = Known
            BY <2>1, <2>2, <3>1, <3>2 DEF Known
        <3> QED
            BY <1>t, <2>1, <3>2, <3>3, LiveKept, SameIsTame
    <2>4. CASE ~cr.exists
        <3>1. \A i \in Ids \ lost : ~Live(i)
            BY <2>4 DEF Held
        <3> QED
            BY <1>t, <2>1, <3>1, NoneLive, SameIsTame
    <2> QED
        BY <2>3, <2>4
<1>12. CASE Resync
    BY <1>12, <1>t, LiveKept, SameIsTame DEF Resync, Known
<1>13. CASE EditSpec \/ DeleteCR
    <2>1. /\ aws' = aws /\ ctl' = ctl
          /\ cr'.status = cr.status /\ cr'.finalizer = cr.finalizer
          /\ cr'.exists = cr.exists \/ cr'.exists = cr.finalizer
        BY <1>13, <1>t DEF EditSpec, DeleteCR, CustomResource
    <2>2. Known' = Known
        BY <2>1 DEF Known
    <2> QED
        BY <2>1, <2>2 DEF Held, Live
<1>14. ASSUME NEW id \in Ids, ServiceSettles(id) \/ ServiceIdles(id) \/ ServiceDrifts(id)
       PROVE  Held(lost)'
    <2>1. Tamer(aws, aws')
        BY <1>14, <1>t, ServiceIsTame DEF ServiceSettles, ServiceIdles, ServiceDrifts
    <2>2. cr' = cr /\ ctl' = ctl
        BY <1>14 DEF ServiceSettles, ServiceIdles, ServiceDrifts
    <2> QED
        BY <2>1, <2>2, LiveKept DEF Known
<1> QED
    BY <1>1, <1>2, <1>3, <1>4, <1>5, <1>6, <1>7, <1>8, <1>9,
       <1>10, <1>11, <1>12, <1>13, <1>14
    DEF Next, Work

\* There is no cluster at the start.
LEMMA LiveInit == Init => LiveInv
    BY DEF Init, ServiceInit, LiveInv, Held, NoCluster, Live, Gone, IdleCtl

\* A quiet run loses nothing.
LEMMA LiveStep == Quiet /\ WorkerInv /\ WorkerInv' /\ LiveInv /\ [Next]_vars => LiveInv'
<1> SUFFICES ASSUME Quiet, WorkerInv, WorkerInv', LiveInv, [Next]_vars
             PROVE  LiveInv'
    OBVIOUS
<1>1. ~Crash
    BY DEF Crash, WorkerInv, TypeOK, Quiet
<1>2. Held({})' \/ LostWithAnswer({})
    BY <1>1, HeldStep DEF LiveInv
<1> QED
    BY <1>2 DEF LostWithAnswer, Quiet, LiveInv

\* The invariant holds of every behaviour, for every value of the other constants.
LEMMA QuietInvariant == Quiet => (Spec => []IndInv)
<1> SUFFICES ASSUME Quiet
             PROVE  Spec => []IndInv
    OBVIOUS
<1>1. Init => IndInv
    BY WorkerInit, LiveInit DEF IndInv
<1>2. IndInv /\ [Next]_vars => IndInv'
    BY WorkerStep, LiveStep DEF IndInv
<1> QED
    BY <1>1, <1>2, PTL DEF Spec

\* No cluster is lost: if the answers of AWS arrive and the process does not stop
\* between two calls, a live cluster is always recorded in a custom resource that
\* its finalizer keeps, or in the result the worker is about to publish.
THEOREM NothingOrphaned == ~LostReplies /\ MaxCrashes = 0 => (Spec => []NoOrphan)
<1>1. IndInv => NoOrphan
    BY DEF IndInv, LiveInv, Held, NoOrphan, Known, Remembers
<1>2. ~LostReplies /\ MaxCrashes = 0 => Quiet
    BY DEF Quiet
<1> QED
    BY <1>1, <1>2, QuietInvariant, PTL

\* No second cluster: under the same conditions one custom resource never has two
\* live clusters, whatever the user, the service and failing calls do.
THEOREM OneClusterAtMost == ~LostReplies /\ MaxCrashes = 0 => (Spec => []NoSecondCluster)
<1>1. IndInv => NoSecondCluster
    BY DEF IndInv, LiveInv, Held, NoSecondCluster
<1>2. ~LostReplies /\ MaxCrashes = 0 => Quiet
    BY DEF Quiet
<1> QED
    BY <1>1, <1>2, QuietInvariant, PTL

-----------------------------------------------------------------------------
(* What answers that are lost and processes that stop can cost *)

\* A crash loses one cluster at most: the one the worker knew.
LEMMA CrashLoses ==
    ASSUME WorkerInv, NEW lost \in SUBSET Ids, Held(lost), Crash
    PROVE  Held(lost)' \/ \E id \in Ids : Held(lost \cup {id})'
<1>1. /\ aws' = aws /\ cr' = cr /\ ctl'.pc = "idle" /\ ctl'.caller = "none"
    BY DEF Crash, IdleCtl
<1>2. \A id \in Ids \ lost : Live(id)' => id = Known
    BY <1>1 DEF Held, Live
<1>3. CASE Known \in Ids
    BY <1>1, <1>2, <1>3 DEF Held
<1>4. CASE Known \notin Ids
    BY <1>1, <1>2, <1>4 DEF Held
<1> QED
    BY <1>3, <1>4

\* Nothing takes a fault or a crash back, and a crash is counted.
LEMMA LossesCount ==
    ASSUME TypeOK, [Next]_vars
    PROVE  /\ spent'.faults + spent'.crashes >= spent.faults + spent.crashes
           /\ Crash => spent'.faults + spent'.crashes = spent.faults + spent.crashes + 1
<1>1. /\ spent.faults \in Nat /\ spent.crashes \in Nat
      /\ spent = [edits |-> spent.edits, faults |-> spent.faults,
                  crashes |-> spent.crashes, drifts |-> spent.drifts]
    BY ReconcileAssumption DEF TypeOK, Counters
<1>2. CASE Crash
    BY <1>1, <1>2 DEF Crash
<1>3. ASSUME ~Crash
      PROVE  /\ spent'.faults \in Nat /\ spent'.faults >= spent.faults
             /\ spent'.crashes = spent.crashes
    <2>1. ASSUME NEW fate, Spend(fate)
          PROVE  /\ spent'.faults \in Nat /\ spent'.faults >= spent.faults
                 /\ spent'.crashes = spent.crashes
        BY <1>1, <2>1 DEF Spend
    <2>2. CASE spent' = spent
        BY <1>1, <2>2
    <2>3. CASE GetCluster \/ GetClusterPolicy \/ CreateCluster \/ DeleteCluster
        BY <2>1, <2>2, <2>3
        DEF GetCluster, GetClusterPolicy, CreateCluster, DeleteCluster
    <2>4. CASE TagResource \/ UntagResource \/ SyncPolicy \/ UpdateCluster
        BY <2>1, <2>2, <2>4 DEF TagResource, UntagResource, SyncPolicy, UpdateCluster
    <2>5. CASE EditSpec \/ DeleteCR
        BY <1>1, <2>5 DEF EditSpec, DeleteCR
    <2>6. CASE \E id \in Ids : ServiceSettles(id) \/ ServiceIdles(id) \/ ServiceDrifts(id)
        BY <1>1, <2>6 DEF ServiceSettles, ServiceIdles, ServiceDrifts
    <2>7. CASE Start \/ Manage \/ Unmanage \/ PatchSpec \/ Publish \/ Resync
        BY <2>2, <2>7 DEF Start, Manage, Unmanage, PatchSpec, Publish, Resync
    <2> QED
        BY <1>3, <2>2, <2>3, <2>4, <2>5, <2>6, <2>7 DEF Next, Work, vars
<1> QED
    BY <1>1, <1>2, <1>3

\* Nothing is lost at the start.
LEMMA LossInit == Init => LossInv
<1> SUFFICES ASSUME Init
             PROVE  LossInv
    OBVIOUS
<1>1. Held({})
    BY LiveInit DEF LiveInv
<1>2. Cardinality({}) <= spent.faults + spent.crashes
    BY FS_EmptySet DEF Init
<1> QED
    BY <1>1, <1>2 DEF LossInv

\* Every step loses at most one cluster, and pays for it.
LEMMA LossStep == WorkerInv /\ WorkerInv' /\ LossInv /\ [Next]_vars => LossInv'
<1> SUFFICES ASSUME WorkerInv, WorkerInv', LossInv, [Next]_vars
             PROVE  LossInv'
    OBVIOUS
<1>1. PICK lost \in SUBSET Ids :
         Held(lost) /\ Cardinality(lost) <= spent.faults + spent.crashes
    BY DEF LossInv
<1>2. IsFiniteSet(lost) /\ Cardinality(lost) \in Nat
    <2>1. IsFiniteSet(Ids)
        BY FS_Interval, ResourceAssumption DEF Ids
    <2> QED
        BY <2>1, FS_Subset, FS_CardinalityType
<1>3. ASSUME NEW id \in Ids
      PROVE  /\ lost \cup {id} \in SUBSET Ids
             /\ Cardinality(lost \cup {id}) \in Nat
             /\ Cardinality(lost \cup {id}) <= Cardinality(lost) + 1
    BY <1>2, FS_AddElement
<1>4. /\ spent.faults \in Nat /\ spent.crashes \in Nat
      /\ spent'.faults \in Nat /\ spent'.crashes \in Nat
      /\ spent'.faults + spent'.crashes >= spent.faults + spent.crashes
      /\ Crash => spent'.faults + spent'.crashes = spent.faults + spent.crashes + 1
    BY LossesCount, ReconcileAssumption DEF WorkerInv, TypeOK, Counters
<1>5. CASE Held(lost)'
    <2>1. Cardinality(lost) <= spent'.faults + spent'.crashes
        BY <1>1, <1>2, <1>4
    <2> QED
        BY <1>5, <2>1 DEF LossInv
<1>6. ASSUME NEW id \in Ids, Held(lost \cup {id})',
             spent'.faults + spent'.crashes = spent.faults + spent.crashes + 1
      PROVE  LossInv'
    <2>1. Cardinality(lost \cup {id}) <= spent'.faults + spent'.crashes
        BY <1>1, <1>2, <1>3, <1>4, <1>6
    <2> QED
        BY <1>3, <1>6, <2>1 DEF LossInv
<1>7. CASE Crash
    <2>1. Held(lost)' \/ \E id \in Ids : Held(lost \cup {id})'
        BY <1>1, <1>7, CrashLoses
    <2> QED
        BY <1>4, <1>5, <1>6, <1>7, <2>1
<1>8. CASE ~Crash
    <2>1. Held(lost)' \/ LostWithAnswer(lost)
        BY <1>1, <1>8, HeldStep
    <2>2. CASE LostWithAnswer(lost)
        <3>1. spent \in Counters /\ spent' = [spent EXCEPT !.faults = @ + 1]
            BY <2>2 DEF LostWithAnswer, WorkerInv, TypeOK, Counters
        <3>2. spent'.faults + spent'.crashes = spent.faults + spent.crashes + 1
            BY <1>4, <3>1 DEF Counters
        <3>3. PICK id \in Ids : Held(lost \cup {id})'
            BY <2>2 DEF LostWithAnswer
        <3> QED
            BY <1>6, <3>2, <3>3
    <2> QED
        BY <1>5, <2>1, <2>2
<1> QED
    BY <1>7, <1>8

\* A cluster the worker knows is one the custom resource leads to.
LEMMA LossBounds == LossInv /\ TypeOK => OrphansAccounted
<1> SUFFICES ASSUME LossInv, TypeOK
             PROVE  OrphansAccounted
    OBVIOUS
<1> DEFINE reachable == {id \in Ids : /\ cr.exists /\ cr.finalizer
                                      /\ cr.status.identifier = id \/ Remembers(id)}
           orphans   == {id \in Ids : Live(id)} \ reachable
<1>1. PICK lost \in SUBSET Ids :
         Held(lost) /\ Cardinality(lost) <= spent.faults + spent.crashes
    BY DEF LossInv
<1>2. orphans \subseteq lost
    <2> SUFFICES ASSUME NEW id \in Ids, Live(id), id \notin lost
                 PROVE  id \in reachable
        OBVIOUS
    <2>1. id = Known /\ cr.exists /\ cr.finalizer
        BY <1>1 DEF Held
    <2>2. cr.status.identifier = id \/ Remembers(id)
        BY <2>1 DEF Known, Remembers
    <2> QED
        BY <2>1, <2>2
<1> HIDE DEF orphans
<1>3. IsFiniteSet(lost)
    <2>1. IsFiniteSet(Ids)
        BY FS_Interval, ResourceAssumption DEF Ids
    <2> QED
        BY <2>1, FS_Subset
<1>4. /\ Cardinality(orphans) <= Cardinality(lost)
      /\ Cardinality(orphans) \in Nat /\ Cardinality(lost) \in Nat
    BY <1>2, <1>3, FS_Subset, FS_CardinalityType
<1>5. spent.faults \in Nat /\ spent.crashes \in Nat
    BY ReconcileAssumption DEF TypeOK, Counters
<1>6. Cardinality(orphans) <= spent.faults + spent.crashes
    BY <1>1, <1>4, <1>5
<1> QED
    BY <1>6 DEF OrphansAccounted, orphans

\* Losses are accounted for: whatever fails, stops or drifts, however long the
\* controller retries, no more clusters are out of reach of their custom resource
\* than calls that failed or whose answers were lost, and stops of the process.
THEOREM LossesAccounted == Spec => []OrphansAccounted
<1>1. Init => WorkerInv /\ LossInv
    BY WorkerInit, LossInit
<1>2. WorkerInv /\ LossInv /\ [Next]_vars => (WorkerInv /\ LossInv)'
    BY WorkerStep, LossStep
<1>3. WorkerInv /\ LossInv => OrphansAccounted
    BY LossBounds DEF WorkerInv
<1> QED
    BY <1>1, <1>2, <1>3, PTL DEF Spec
=============================================================================
