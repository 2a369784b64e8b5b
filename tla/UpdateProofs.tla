---------------------------- MODULE UpdateProofs ----------------------------
(***************************************************************************)
(* Proofs about the updates of ClusterReconcile: no call of an update      *)
(* meets a cluster in transition but one others have brought there in the  *)
(* course of the attempt, none touches a tag of AWS, the tags of the       *)
(* system stay out of the stored spec, and what the user stated in a spec  *)
(* is kept: what Create, Update and LateInitialize return, and the runtime *)
(* patches into it, fills in fields left open and replaces none.           *)
(***************************************************************************)
EXTENDS ReconcileProofs, Attempts

-----------------------------------------------------------------------------
(* The calls of sync.Tags *)

\* sync.Tags by itself: its two calls never concern the same key, so that their order
\* does not matter; and together they give every key of the cluster that is as it was
\* read the desired value, whatever others have made of the rest since.
THEOREM TagCallsSuffice ==
    ASSUME ServiceTypeOK, NEW id \in Ids, NEW from \in TagMaps, NEW to \in TagMaps,
           aws' = AfterTag(id, TagsAdded(from, to), to)
    PROVE  /\ TagsAdded(from, to) \cap TagsRemoved(from, to) = {}
           /\ \A k \in TagKeys :
                 aws[id].tags[k] = from[k] =>
                    AfterUntag(id, TagsRemoved(from, to))'[id].tags[k] = to[k]
<1> DEFINE added    == TagsAdded(from, to)
           removed  == TagsRemoved(from, to)
           tagged   == [k \in TagKeys |-> IF k \in added THEN to[k] ELSE aws[id].tags[k]]
           untagged == [k \in TagKeys |-> IF k \in removed THEN NoTag ELSE aws'[id].tags[k]]
<1>1. /\ added \cap removed = {}
      /\ \A k \in TagKeys :
            \/ k \in added
            \/ k \in removed /\ to[k] = NoTag
            \/ k \notin removed /\ to[k] = from[k]
    BY DEF TagsAdded, TagsRemoved
<1>2. /\ aws' = [aws EXCEPT ![id].tags = tagged]
      /\ AfterUntag(id, removed)' = [aws' EXCEPT ![id].tags = untagged]
    BY DEF AfterTag, AfterUntag
<1> HIDE DEF tagged, untagged
<1>3. aws'[id].tags = tagged /\ aws' \in [Ids -> Cluster]
    <2>1. tagged \in TagMaps
        BY ClusterType DEF tagged, TagMaps, ServiceTypeOK, Cluster
    <2> QED
        BY <1>2, <2>1 DEF ServiceTypeOK, Cluster
<1>4. AfterUntag(id, removed)'[id].tags = untagged
    BY <1>2, <1>3 DEF Cluster
<1> HIDE DEF added, removed
<1>5. \A k \in TagKeys : aws[id].tags[k] = from[k] => untagged[k] = to[k]
    BY <1>1, <1>3 DEF tagged, untagged
<1> QED
    BY <1>1, <1>4, <1>5 DEF added, removed

-----------------------------------------------------------------------------
(* The stored spec *)

\* Users write no tags of AWS and none of the controller into a spec.
UsersTagTheirOwn ==
    \A s \in InitialSpecs \cup EditedSpecs :
        \A k \in SystemTagKeys \cup AwsTagKeys : s.tags[k] = NoTag

\* A merge patch of a filtered resource brings no tag of the system into a spec.
LEMMA PatchKeepsOut ==
    ASSUME NEW s \in ClusterSpec, NEW a \in ClusterSpec, NEW r \in Resource,
           NEW k \in SystemTagKeys \cup AwsTagKeys, s.tags[k] = NoTag
    PROVE  MergePatch(s, a, FilterSystemTags(r).spec).tags[k] = NoTag
    BY FilterType DEF MergePatch, Merge, TagKeys

\* Only a patch and the user write the stored spec.
LEMMA TagsStep ==
    UsersTagTheirOwn /\ WorkerInv /\ SystemTagsStayOut /\ [Next]_vars => SystemTagsStayOut'
<1> SUFFICES ASSUME UsersTagTheirOwn, WorkerInv, SystemTagsStayOut, [Next]_vars,
                    NEW k \in SystemTagKeys \cup AwsTagKeys
             PROVE  cr'.spec.tags[k] = NoTag
    BY DEF SystemTagsStayOut
<1>k. cr.spec.tags[k] = NoTag
    BY DEF SystemTagsStayOut
<1>t. /\ cr \in CustomResource /\ cr.spec \in ClusterSpec
      /\ ctl.desired \in Resource /\ ctl.latest \in Resource
    BY SubjectType DEF WorkerInv, TypeOK, CustomResource
<1>1. CASE PatchSpec
    <2>1. cr' = [cr EXCEPT !.spec =
                    MergePatch(cr.spec, ctl.desired.spec, FilterSystemTags(ctl.latest).spec)]
        BY <1>1 DEF PatchSpec
    <2>2. ctl.desired.spec \in ClusterSpec
        BY <1>t DEF Resource
    <2> QED
        BY <1>k, <1>t, <2>1, <2>2, PatchKeepsOut DEF CustomResource
<1>2. CASE EditSpec
    <2>1. PICK s \in EditedSpecs : cr' = [cr EXCEPT !.spec = s]
        BY <1>2 DEF EditSpec
    <2> QED
        BY <1>t, <2>1 DEF UsersTagTheirOwn, CustomResource
<1>3. CASE ~PatchSpec /\ ~EditSpec
    <2>1. CASE Manage \/ Unmanage \/ Publish \/ DeleteCR
        BY <1>k, <1>t, <2>1 DEF Manage, Unmanage, Publish, DeleteCR, CustomResource
    <2>2. CASE TagResource \/ UntagResource \/ SyncPolicy \/ UpdateCluster
        BY <1>k, <2>2, MutateCalls
    <2>3. CASE \/ Start \/ GetCluster \/ GetClusterPolicy \/ CreateCluster \/ DeleteCluster
               \/ Resync \/ Crash \/ UNCHANGED vars
               \/ \E id \in Ids : ServiceSettles(id) \/ ServiceIdles(id) \/ ServiceDrifts(id)
        BY <1>k, <2>3
        DEF Start, GetCluster, GetClusterPolicy, CreateCluster, DeleteCluster, Resync,
            Crash, vars, ServiceSettles, ServiceIdles, ServiceDrifts
    <2> QED
        BY <1>3, <2>1, <2>2, <2>3 DEF Next, Work
<1> QED
    BY <1>1, <1>2, <1>3

\* The worker is consistent in every state.
LEMMA WorkerInvariant == Spec => []WorkerInv
    BY WorkerInit, WorkerStep, PTL DEF Spec

\* FilterSystemTags and the merge patch: as long as users write none of them, no
\* tag of AWS or of the controller is ever stored in the spec, for any tags, any
\* changes by others and any number of crashes and lost answers.
THEOREM TagsStayOut == UsersTagTheirOwn => (Spec => []SystemTagsStayOut)
<1> SUFFICES ASSUME UsersTagTheirOwn
             PROVE  Spec => []SystemTagsStayOut
    OBVIOUS
<1>1. Init => SystemTagsStayOut
    BY DEF Init, SystemTagsStayOut, UsersTagTheirOwn
<1>2. WorkerInv /\ SystemTagsStayOut /\ [Next]_vars => SystemTagsStayOut'
    BY TagsStep
<1> QED
    BY <1>1, <1>2, WorkerInvariant, PTL DEF Spec

-----------------------------------------------------------------------------
(* How an update begins and goes on *)

\* An update that makes calls begins on the resources it was given, and not in a
\* transitional state.
LEMMA BeginMutates ==
    ASSUME NEW c \in Controller, NEW delta, BeginUpdate(c, delta).pc = "mutate"
    PROVE  /\ ~RequeueIfTransitional(c.latest)
           /\ BeginUpdate(c, delta).desired = c.desired
           /\ BeginUpdate(c, delta).latest = c.latest
<1>1. ~RequeueIfTransitional(c.latest)
    BY FailType, SubjectType DEF BeginUpdate
<1> QED
    BY <1>1, CallsType DEF BeginUpdate, Controller

\* The tags of the resource that mirrorAWSTags makes.
LEMMA MirrorTags ==
    ASSUME NEW r \in Resource, NEW o \in Resource, NEW k \in AwsTagKeys
    PROVE  MirrorAWSTags(r, o).spec.tags[k] =
              IF o.spec.tags[k] # NoTag THEN o.spec.tags[k] ELSE r.spec.tags[k]
<1> DEFINE tags == SyncAWSTags(r.spec.tags, o.spec.tags)
<1>1. MirrorAWSTags(r, o).spec.tags = tags
    <2>1. r.spec \in ClusterSpec
        BY DEF Resource
    <2>2. MirrorAWSTags(r, o) = [r EXCEPT !.spec.tags = tags]
        BY DEF MirrorAWSTags
    <2> HIDE DEF tags
    <2> QED
        BY <2>1, <2>2 DEF Resource, ClusterSpec
<1>2. k \in TagKeys
    BY DEF TagKeys
<1> QED
    BY <1>1, <1>2 DEF SyncAWSTags

\* A read that leads to the calls of an update: the update goes by what was read,
\* which was not in transition, and agrees with it on the tags of AWS.
LEMMA ReadMutates ==
    ASSUME NEW c \in Controller, NEW o \in Resource, c.caller # "none",
           ReadDone(c, o).pc = "mutate"
    PROVE  /\ c.caller \in {"sync", "delete"}
           /\ ReadDone(c, o).latest = o
           /\ ~RequeueIfTransitional(o)
           /\ \A k \in AwsTagKeys :
                 (c.caller = "sync" => c.desired.spec.tags[k] = NoTag)
                 => ReadDone(c, o).desired.spec.tags[k] = o.spec.tags[k]
<1>r. c.desired \in Resource /\ c.latest \in Resource
    BY SubjectType
<1>1. CASE c.caller = "sync"
    <2> DEFINE read  == [c EXCEPT !.desired = MirrorAWSTags(c.desired, o), !.latest = o]
               delta == NewResourceDelta(read.desired, read.latest)
    <2>1. /\ read \in Controller /\ read.latest = o
          /\ read.desired = MirrorAWSTags(c.desired, o)
        BY <1>r, MirrorType DEF Controller
    <2>2. ReadDone(c, o) = IF delta = {} THEN StartRead(read, "lateInit")
                                         ELSE BeginUpdate(read, delta)
        BY <1>1 DEF ReadDone, AfterSyncRead
    <2> HIDE DEF read, delta
    <2>3. ReadDone(c, o) = BeginUpdate(read, delta)
        BY <2>1, <2>2, StartReadType
    <2>4. /\ ~RequeueIfTransitional(o)
          /\ ReadDone(c, o).latest = o
          /\ ReadDone(c, o).desired = MirrorAWSTags(c.desired, o)
        BY <2>1, <2>3, BeginMutates
    <2> QED
        BY <1>1, <1>r, <2>4, MirrorTags
<1>2. CASE c.caller = "delete"
    <2> DEFINE current == MirrorAWSTags(c.desired, o)
               delta   == NewResourceDeltaForPreDelete(current, o)
               merged  == PreDeleteMerge(current, o)
               read    == [c EXCEPT !.desired = merged, !.latest = o]
    <2>1. merged \in Resource /\ merged.spec.tags = o.spec.tags
        BY <1>r, MirrorType, PreDeleteMergeType DEF PreDeleteMerge, Resource, ClusterSpec
    <2>2. ReadDone(c, o) = IF delta = {} THEN [read EXCEPT !.pc = "delete"]
                                         ELSE BeginUpdate(read, delta)
        BY <1>2 DEF ReadDone, AfterDeleteRead
    <2> HIDE DEF current, delta, merged
    <2>3. read \in Controller /\ read.latest = o /\ read.desired = merged
        BY <2>1 DEF Controller
    <2> HIDE DEF read
    <2>4. ReadDone(c, o) = BeginUpdate(read, delta)
        BY <2>2, <2>3 DEF Controller
    <2> QED
        BY <1>2, <2>1, <2>3, <2>4, BeginMutates
<1>3. CASE c.caller \in {"created", "lateInit"}
    BY <1>3 DEF ReadDone, AfterLateInit, Controller
<1> QED
    BY <1>1, <1>2, <1>3 DEF Controller

\* The call on the cluster is the last one an update has left.
LEMMA ClusterIsLast ==
    ASSUME NEW c \in Controller, NextCall(c) = "cluster"
    PROVE  c.todo \ {NextCall(c)} = {}
<1>1. c.todo \subseteq {"tag", "untag", "policy", "cluster"}
    BY DEF Controller, Calls
<1>2. CASE c.todo = {}
    BY <1>2
<1>3. CASE c.todo # {}
    <2>1. \E x \in c.todo : \A y \in c.todo : Order[x] <= Order[y]
        <3>1. CASE "tag" \in c.todo
            BY <1>1, <3>1 DEF Order
        <3>2. CASE "tag" \notin c.todo /\ "untag" \in c.todo
            BY <1>1, <3>2 DEF Order
        <3>3. CASE "tag" \notin c.todo /\ "untag" \notin c.todo /\ "policy" \in c.todo
            BY <1>1, <3>3 DEF Order
        <3>4. CASE c.todo = {"cluster"}
            BY <3>4 DEF Order
        <3> QED
            BY <1>1, <1>3, <3>1, <3>2, <3>3, <3>4
    <2>2. \A y \in c.todo : Order["cluster"] <= Order[y]
        BY <2>1 DEF NextCall
    <2> QED
        BY <1>1, <2>2 DEF Order
<1> QED
    BY <1>2, <1>3

\* An update goes on with the same resources, and not after its last call.
LEMMA CallMutates ==
    ASSUME NEW c \in Controller, NEW err, NEW r \in Resource,
           AfterCall(c, err, r).pc = "mutate"
    PROVE  /\ AfterCall(c, err, r).desired = c.desired
           /\ AfterCall(c, err, r).latest = c.latest
           /\ NextCall(c) # "cluster"
<1> DEFINE left == c.todo \ {NextCall(c)}
           rest == [c EXCEPT !.todo = {}]
<1>1. left \in SUBSET Calls /\ rest \in Controller
    BY DEF Controller
<1>2. AfterCall(c, err, r) =
          IF err # "none" THEN Fail(rest, c.latest, err)
          ELSE IF left # {} THEN [c EXCEPT !.todo = left] ELSE UpdateDone(rest, r)
    BY DEF AfterCall
<1>3. UpdateDone(rest, r).pc # "mutate"
    BY <1>1 DEF UpdateDone, Controller
<1> HIDE DEF left, rest
<1>4. Fail(rest, c.latest, err).pc # "mutate"
    BY <1>1, SubjectType, FailType
<1>5. err = "none" /\ left # {}
    BY <1>2, <1>3, <1>4
<1> QED
    BY <1>1, <1>2, <1>5, ClusterIsLast DEF left, Controller

\* The steps that neither read nor change a cluster the worker goes on with end
\* outside the reads of a sync and outside the calls of an update.
LEMMA OtherSteps ==
    ASSUME WorkerInv,
           Manage \/ CreateCluster \/ DeleteCluster \/ Unmanage \/ PatchSpec \/ Publish \/ Crash
    PROVE  /\ ctl'.pc \notin {"getPolicy", "mutate"}
           /\ ctl'.pc = "getCluster" => ctl'.caller # "sync"
<1>t. /\ ctl \in Controller /\ ctl.desired \in Resource /\ ctl.latest \in Resource
    BY SubjectType DEF WorkerInv, TypeOK
<1>1. CASE Manage \/ Unmanage \/ Publish \/ Crash
    BY <1>1, <1>t DEF Manage, Unmanage, Publish, Crash, IdleCtl, Controller
<1>2. CASE DeleteCluster
    <2>1. \/ ctl' = [ctl EXCEPT !.pc = "unmanage"]
          \/ \E err : ctl' = Fail(ctl, ctl.latest, err)
        BY <1>2 DEF DeleteCluster
    <2> QED
        BY <1>t, <2>1, FailType DEF Controller
<1>3. CASE CreateCluster
    <2>1. PICK fate \in Fates :
             ctl' = IF Answer(fate, CreateVerdict(ctl.desired.spec)) = "none"
                    THEN StartRead([ctl EXCEPT !.latest = OnSuccess(
                            Created(ctl.desired, NextId, NewCluster(ctl.desired.spec)))],
                            "created")
                    ELSE [Fail(ctl, ctl.desired,
                               Answer(fate, CreateVerdict(ctl.desired.spec)))
                            EXCEPT !.pc = "unmanage"]
        BY <1>3 DEF CreateCluster
    <2>2. ASSUME NEW r PROVE /\ StartRead([ctl EXCEPT !.latest = r], "created").pc = "getCluster"
                             /\ StartRead([ctl EXCEPT !.latest = r], "created").caller = "created"
        BY <1>t DEF StartRead, Controller
    <2>3. ASSUME NEW err PROVE [Fail(ctl, ctl.desired, err) EXCEPT !.pc = "unmanage"].pc = "unmanage"
        BY <1>t, FailType DEF Controller
    <2> QED
        BY <2>1, <2>2, <2>3
<1>4. CASE PatchSpec
    <2> DEFINE taken == [ctl EXCEPT !.desired = ctl.latest]
    <2>1. taken \in Controller
        BY <1>t DEF Controller
    <2>2. ctl' = IF ctl.caller = "lateInit"
                 THEN [taken EXCEPT !.pc = "publish", !.result = "done"]
                 ELSE StartRead(taken, "lateInit")
        BY <1>4 DEF PatchSpec
    <2> HIDE DEF taken
    <2> QED
        BY <2>1, <2>2, StartReadType DEF Controller
<1> QED
    BY <1>1, <1>2, <1>3, <1>4

\* A read of the cluster ends the attempt, or keeps what is to be read into the
\* policy and shows the cluster as it is.
LEMMA GetClusterStep ==
    ASSUME WorkerInv, GetCluster
    PROVE  /\ aws' = aws /\ cr' = cr /\ ctl'.pc \notin {"getCluster", "mutate"}
           /\ ctl'.pc = "getPolicy" =>
                 LET id == Subject(ctl).status.identifier
                 IN /\ id \in Ids
                    /\ ctl.pc = "getCluster"
                    /\ ctl' = [ctl EXCEPT !.pc       = "getPolicy",
                                          !.observed = Observe(Subject(ctl), aws[id])]
<1>t. /\ ctl \in Controller /\ ctl.desired \in Resource /\ Subject(ctl) \in Resource
    BY SubjectType DEF WorkerInv, TypeOK
<1> DEFINE id == Subject(ctl).status.identifier
           seen == [ctl EXCEPT !.pc       = "getPolicy",
                               !.observed = Observe(Subject(ctl), aws[id])]
<1>1. aws' = aws /\ cr' = cr /\ ctl.pc = "getCluster"
    BY DEF GetCluster
<1>2. \/ \E err : ctl' = ReadFailed(ctl, err)
      \/ id # Nil /\ ctl' = seen
    BY DEF GetCluster
<1>3. id \in Ids \cup {Nil}
    BY <1>t, StatusType
<1>4. ASSUME NEW err PROVE ReadFailed(ctl, err).pc \notin {"getCluster", "getPolicy", "mutate"}
    BY <1>t, FailType DEF ReadFailed, Controller
<1>5. seen.pc = "getPolicy"
    BY <1>t DEF Controller
<1> HIDE DEF seen
<1> QED
    BY <1>1, <1>2, <1>3, <1>4, <1>5 DEF seen

\* A read of the policy completes the resource that was observed.
LEMMA GetPolicyStep ==
    ASSUME WorkerInv, GetClusterPolicy,
           \/ ctl'.pc \in {"getPolicy", "mutate"}
           \/ ctl'.pc = "getCluster" /\ ctl'.caller # "lateInit"
    PROVE  /\ aws' = aws /\ cr' = cr /\ ctl.pc = "getPolicy" /\ ctl'.pc = "mutate"
           /\ \E o \in Resource :
                 /\ o.status.identifier = ctl.observed.status.identifier
                 /\ o.status.status = ctl.observed.status.status
                 /\ o.status.identifier = Subject(ctl).status.identifier
                 /\ ctl' = ReadDone(ctl, o)
<1>t. /\ ServiceTypeOK /\ ctl \in Controller /\ ctl.desired \in Resource
      /\ ctl.observed \in Resource /\ Subject(ctl) \in Resource
      /\ CallerInv /\ IdentifierInv
    BY SubjectType DEF WorkerInv, TypeOK
<1>1. aws' = aws /\ cr' = cr /\ ctl.pc = "getPolicy" /\ ctl.caller # "none"
    BY <1>t DEF GetClusterPolicy, CallerInv
<1>2. /\ ctl.observed.status.identifier \in Ids
      /\ ctl.observed.status.identifier = Subject(ctl).status.identifier
    BY <1>t, <1>1, StatusType DEF IdentifierInv
<1>3. \/ \E err : err # "notFound" /\ ctl' = ReadFailed(ctl, err)
      \/ \E policy \in Policies \cup {Nil} :
            ctl' = ReadDone(ctl, OnSuccess([ctl.observed EXCEPT !.spec.policy = policy]))
    <2>1. aws[ctl.observed.status.identifier].policy \in Policies \cup {Nil}
        BY <1>t, <1>2, ClusterType DEF Cluster
    <2> QED
        BY <2>1 DEF GetClusterPolicy
<1>4. ASSUME NEW err, err # "notFound"
      PROVE  ReadFailed(ctl, err).pc \notin {"getCluster", "getPolicy", "mutate"}
    BY <1>t, <1>4, FailType DEF ReadFailed, Controller
<1>5. PICK policy \in Policies \cup {Nil} :
            ctl' = ReadDone(ctl, OnSuccess([ctl.observed EXCEPT !.spec.policy = policy]))
    BY <1>3, <1>4
<1> DEFINE seen == [ctl.observed EXCEPT !.spec.policy = policy]
           o    == OnSuccess(seen)
<1>6. seen \in Resource /\ seen.status = ctl.observed.status
    BY <1>t DEF Resource, ClusterSpec
<1> HIDE DEF seen
<1>7. /\ o \in Resource /\ o.status.identifier = ctl.observed.status.identifier
      /\ o.status.status = ctl.observed.status.status
    <2>1. o.status = UpdateConditions(seen.status, "none")
        BY <1>6 DEF OnSuccess, Resource
    <2>2. UpdateConditions(seen.status, "none").status = seen.status.status
        BY <1>6, StatusType DEF UpdateConditions, ClusterStatus
    <2> QED
        BY <1>6, <2>1, <2>2, ConditionsType
<1>8. ctl' = ReadDone(ctl, o)
    BY <1>5 DEF seen
<1> HIDE DEF o
<1>9. ctl'.pc = "mutate"
    BY <1>t, <1>1, <1>2, <1>7, <1>8, ReadDoneType DEF Controller
<1> QED
    BY <1>1, <1>2, <1>7, <1>8, <1>9

-----------------------------------------------------------------------------
(* What others change *)

\* A step is one of others or leaves their count as it is.
LEMMA StepOfOthers ==
    ASSUME WorkerInv, [Next]_vars
    PROVE  spent'.drifts = spent.drifts \/ \E id \in Ids : ServiceDrifts(id)
<1>t. TypeOK
    BY DEF WorkerInv
<1>1. CASE \/ GetCluster \/ GetClusterPolicy \/ CreateCluster \/ DeleteCluster
           \/ TagResource \/ UntagResource \/ SyncPolicy \/ UpdateCluster
    BY <1>t, <1>1, SpendKeepsDrifts
       DEF GetCluster, GetClusterPolicy, CreateCluster, DeleteCluster,
           TagResource, UntagResource, SyncPolicy, UpdateCluster
<1>2. CASE \/ Start \/ Manage \/ Unmanage \/ PatchSpec \/ Publish \/ Resync \/ DeleteCR
           \/ UNCHANGED vars \/ \E id \in Ids : ServiceSettles(id) \/ ServiceIdles(id)
    BY <1>2 DEF Start, Manage, Unmanage, PatchSpec, Publish, Resync, DeleteCR, vars,
                ServiceSettles, ServiceIdles
<1>3. CASE EditSpec \/ Crash
    BY <1>t, <1>3 DEF EditSpec, Crash, TypeOK
<1> QED
    BY <1>1, <1>2, <1>3 DEF Next, Work

\* No other step adds to what they changed; one to rest forgets it but for a deletion.
LEMMA NothingMet ==
    ASSUME met \subseteq Marks, Record, spent'.drifts = spent.drifts
    PROVE  /\ met' \subseteq Marks
           /\ "deletion" \in met' <=> "deletion" \in met
           /\ ctl'.pc # "idle" => met' = met
<1>1. ChangedByOthers = {}
    BY DEF ChangedByOthers
<1> QED
    BY <1>1 DEF Record, Marks

\* A step of others adds every field it changes, unless the worker is at rest, and the
\* deletion of a cluster at any time.
LEMMA ChangeMet ==
    ASSUME WorkerInv, met \subseteq Marks, Record, NEW id \in Ids, ServiceDrifts(id)
    PROVE  /\ met' \subseteq Marks
           /\ "deletion" \in met => "deletion" \in met'
           /\ "deletion" \in met' \/ \A i \in Ids : Live(i) => Live(i)'
           /\ ctl'.pc # "idle" =>
                /\ met \subseteq met'
                /\ \A i \in Ids :
                      /\ \/ "deletionProtection" \in met'
                         \/ aws'[i].deletionProtection = aws[i].deletionProtection
                      /\ "policy" \in met' \/ aws'[i].policy = aws[i].policy
                      /\ "tags" \in met' \/ aws'[i].tags = aws[i].tags
                      /\ "status" \in met' \/ aws'[i].status = aws[i].status
<1> DEFINE changed == {f \in Fields : \E i \in Ids : aws'[i][f] # aws[i][f]}
           ended   == {d \in {"deletion"} : \E i \in Ids : Live(i) /\ ~Live(i)'}
<1>1. ChangedByOthers = changed \cup ended
    <2>1. spent.drifts \in Nat /\ spent'.drifts = spent.drifts + 1
        BY ReconcileAssumption DEF WorkerInv, TypeOK, ServiceDrifts
    <2> QED
        BY <2>1 DEF ChangedByOthers
<1>2. changed \subseteq Marks /\ ended \subseteq {"deletion"}
    BY DEF Marks
<1>3. /\ \A i \in Ids :
            /\ \/ "deletionProtection" \in changed
               \/ aws'[i].deletionProtection = aws[i].deletionProtection
            /\ "policy" \in changed \/ aws'[i].policy = aws[i].policy
            /\ "tags" \in changed \/ aws'[i].tags = aws[i].tags
            /\ "status" \in changed \/ aws'[i].status = aws[i].status
      /\ "deletion" \in ended \/ \A i \in Ids : Live(i) => Live(i)'
    BY DEF Fields
<1> HIDE DEF changed, ended
<1>4. met' = (met \cup changed \cup ended)
                \cap (IF ctl'.pc = "idle" THEN {"deletion"} ELSE Marks)
    BY <1>1 DEF Record
<1> QED
    BY <1>2, <1>3, <1>4 DEF Marks

\* The steps of an attempt itself: what others have changed is not forgotten in them.
LEMMA OwnStep ==
    ASSUME WorkerInv, met \subseteq Marks, [AttemptsNext]_attemptVars,
           ~ \E id \in Ids : ServiceDrifts(id) /\ Record
    PROVE  /\ [Next]_vars /\ ~ \E id \in Ids : ServiceDrifts(id)
           /\ met' \subseteq Marks
           /\ "deletion" \in met' <=> "deletion" \in met
           /\ ctl'.pc # "idle" => met' = met
<1>1. CASE AttemptsNext
    <2>1. spent'.drifts = spent.drifts
        BY <1>1, StepOfOthers DEF AttemptsNext
    <2> QED
        BY <1>1, <2>1, NothingMet DEF AttemptsNext
<1>2. CASE UNCHANGED attemptVars
    <2>1. spent' = spent /\ UNCHANGED vars /\ met' = met
        BY <1>2 DEF attemptVars, vars
    <2>2. \A id \in Ids : ~ ServiceDrifts(id)
        BY <2>1 DEF ServiceDrifts, WorkerInv, TypeOK
    <2> QED
        BY <2>1, <2>2
<1> QED
    BY <1>1, <1>2

\* The variable that records what others change constrains no step.
LEMMA AttemptsAreReconciled == AttemptsSpec => Spec
<1>1. AttemptsInit => Init
    BY DEF AttemptsInit
<1>2. [AttemptsNext]_attemptVars => [Next]_vars
    BY DEF AttemptsNext, attemptVars, vars
<1> QED
    BY <1>1, <1>2, PTL DEF AttemptsSpec, Spec

-----------------------------------------------------------------------------
(* Calls in transitional states *)

Transitional == {"CREATING", "UPDATING"}

\* A step that takes no cluster into a transitional state.
Steady(before, after) ==
    \A i \in Ids : before[i].status \notin Transitional => after[i].status \notin Transitional

\* What was read of a cluster at rest still holds when the first call is made.
StatusInv ==
    /\ ctl.pc = "getPolicy" /\ ctl.observed.status.status \notin Transitional
          => aws[ctl.observed.status.identifier].status \notin Transitional
    /\ ctl.pc = "mutate" => aws[Id].status \notin Transitional

\* It does unless others have changed a status in this attempt.
SettledInv == met \subseteq Marks /\ ("status" \in met \/ StatusInv)

\* What the worker reads or calls is a cluster.
LEMMA HeldIds ==
    ASSUME WorkerInv
    PROVE  /\ ctl.pc = "getPolicy" => ctl.observed.status.identifier \in Ids
           /\ ctl.pc = "mutate" => Id \in Ids
<1>1. /\ ctl.observed \in Resource /\ ctl.desired \in Resource /\ IdentifierInv
    BY SubjectType DEF WorkerInv, TypeOK
<1> QED
    BY <1>1, StatusType DEF IdentifierInv, Id

\* The service by itself puts no cluster into a transitional state.
LEMMA ServiceIsSteady ==
    ASSUME ServiceTypeOK, NEW id \in Ids, Settle(id) \/ Idle(id)
    PROVE  Steady(aws, aws')
<1>1. ASSUME NEW s \in Statuses \ Transitional, MoveTo(id, s)
      PROVE  Steady(aws, aws')
    BY <1>1 DEF MoveTo, Steady, ServiceTypeOK, Cluster, Transitional
<1>2. CASE aws' = [aws EXCEPT ![id] = NoCluster("purged")]
    BY <1>2, NoClusterType DEF Steady, ServiceTypeOK, Gone, Transitional
<1>3. CASE Settle(id) \/ Idle(id)
    <2>1. \/ aws' = [aws EXCEPT ![id] = NoCluster("purged")]
          \/ \E s \in Statuses \ Transitional : MoveTo(id, s)
        BY <1>3 DEF Settle, Idle, Statuses, Transitional
    <2> QED
        BY <1>1, <1>2, <2>1
<1> QED
    BY <1>3

\* Tags and policies are changed without a change of status.
LEMMA ContentIsSteady ==
    ASSUME WorkerInv, TagResource \/ UntagResource \/ SyncPolicy
    PROVE  Steady(aws, aws')
<1>t. ServiceTypeOK
    BY DEF WorkerInv, TypeOK
<1>1. ASSUME NEW id, NEW tags, aws' = [aws EXCEPT ![id].tags = tags]
      PROVE  Steady(aws, aws')
    BY <1>t, <1>1 DEF Steady, ServiceTypeOK, Cluster
<1>2. ASSUME NEW id, NEW policy, aws' = [aws EXCEPT ![id].policy = policy]
      PROVE  Steady(aws, aws')
    BY <1>t, <1>2 DEF Steady, ServiceTypeOK, Cluster
<1>3. CASE aws' = aws
    BY <1>3 DEF Steady
<1>4. CASE TagResource
    BY <1>1, <1>3, <1>4 DEF TagResource, Effect, AfterTag
<1>5. CASE UntagResource
    BY <1>1, <1>3, <1>5 DEF UntagResource, Effect, AfterUntag
<1>6. CASE SyncPolicy
    BY <1>2, <1>3, <1>6 DEF SyncPolicy, Effect, AfterPolicy
<1> QED
    BY <1>4, <1>5, <1>6

\* Every step but those of others keeps what the worker knows about its cluster.
LEMMA StatusStep ==
    ASSUME WorkerInv, WorkerInv', StatusInv, [Next]_vars,
           ~ \E id \in Ids : ServiceDrifts(id)
    PROVE  StatusInv'
<1>t. /\ ServiceTypeOK /\ ctl \in Controller /\ ctl.desired \in Resource
      /\ ctl.observed \in Resource /\ Subject(ctl) \in Resource
      /\ CallerInv /\ IdentifierInv
    BY SubjectType DEF WorkerInv, TypeOK
<1>i. /\ ctl.pc = "getPolicy" => ctl.observed.status.identifier \in Ids
      /\ ctl.pc = "mutate" => Id \in Ids
    BY HeldIds
<1>1. ASSUME ctl' = ctl, Steady(aws, aws')
      PROVE  StatusInv'
    BY <1>1, <1>i DEF StatusInv, Steady, Id
<1>2. ASSUME ctl'.pc \notin {"getPolicy", "mutate"}
      PROVE  StatusInv'
    BY <1>2 DEF StatusInv
<1>3. CASE UNCHANGED vars \/ Resync \/ EditSpec \/ DeleteCR
    BY <1>1, <1>3 DEF vars, Resync, EditSpec, DeleteCR, Steady
<1>4. CASE Start
    <2>1. (ctl' = ctl /\ aws' = aws) \/ ctl'.pc = "getCluster"
        BY <1>4 DEF Start, StartRead, IdleCtl
    <2> QED
        BY <1>1, <1>2, <2>1 DEF Steady
<1>5. CASE Manage \/ CreateCluster \/ DeleteCluster \/ Unmanage \/ PatchSpec \/ Publish \/ Crash
    BY <1>2, <1>5, OtherSteps
<1>6. CASE GetCluster
    <2>1. CASE ctl'.pc = "getPolicy"
        <3> DEFINE id == Subject(ctl).status.identifier
                   o  == Observe(Subject(ctl), aws[id])
        <3>1. /\ id \in Ids /\ aws' = aws
              /\ ctl' = [ctl EXCEPT !.pc = "getPolicy", !.observed = o]
            BY <1>6, <2>1, GetClusterStep
        <3>2. o.status.status = aws[id].status /\ o.status.identifier = id
            <4>1. Subject(ctl).status \in ClusterStatus
                BY <1>t, StatusType
            <4> QED
                BY <1>t, <4>1 DEF Observe, Resource, ClusterStatus
        <3> HIDE DEF o
        <3>3. ctl'.observed = o
            BY <1>t, <3>1 DEF Controller
        <3> QED
            BY <2>1, <3>1, <3>2, <3>3 DEF StatusInv
    <2> QED
        BY <1>2, <1>6, <2>1, GetClusterStep
<1>7. CASE GetClusterPolicy
    <2>1. CASE ctl'.pc \in {"getPolicy", "mutate"}
        <3>1. /\ aws' = aws /\ ctl.pc = "getPolicy" /\ ctl'.pc = "mutate"
              /\ \E o \in Resource :
                    /\ o.status.identifier = ctl.observed.status.identifier
                    /\ o.status.status = ctl.observed.status.status
                    /\ o.status.identifier = Subject(ctl).status.identifier
                    /\ ctl' = ReadDone(ctl, o)
            BY <1>7, <2>1, GetPolicyStep
        <3>2. PICK o \in Resource :
                    /\ o.status.identifier = ctl.observed.status.identifier
                    /\ o.status.status = ctl.observed.status.status
                    /\ o.status.identifier = Subject(ctl).status.identifier
                    /\ ctl' = ReadDone(ctl, o)
            BY <3>1
        <3>3. ctl.caller # "none"
            BY <1>t, <3>1 DEF CallerInv
        <3>4. ctl.caller \in {"sync", "delete"} /\ ~RequeueIfTransitional(o)
            BY <1>t, <3>1, <3>2, <3>3, ReadMutates
        <3>5. ctl'.desired.status.identifier = o.status.identifier
            BY <1>t, <3>2, <3>3, <3>4, ReadDoneType DEF Subject
        <3>6. aws[o.status.identifier].status \notin Transitional
            BY <3>1, <3>2, <3>4
            DEF StatusInv, RequeueIfTransitional, TransitionalStatuses, Transitional
        <3> QED
            BY <3>1, <3>5, <3>6 DEF StatusInv, Id
    <2> QED
        BY <1>2, <2>1
<1>8. CASE TagResource \/ UntagResource \/ SyncPolicy \/ UpdateCluster
    <2>1. CASE ctl'.pc = "mutate"
        <3>1. PICK err, r : r \in Resource /\ ctl' = AfterCall(ctl, err, r)
            BY <1>8, MutateCalls
        <3>2. ctl'.desired = ctl.desired /\ NextCall(ctl) # "cluster"
            BY <1>t, <2>1, <3>1, CallMutates
        <3>3. Steady(aws, aws')
            BY <1>8, <3>2, ContentIsSteady DEF UpdateCluster
        <3>4. ctl.pc = "mutate"
            BY <1>8, MutateCalls
        <3> QED
            BY <1>i, <2>1, <3>2, <3>3, <3>4 DEF StatusInv, Steady, Id
    <2>2. CASE ctl'.pc # "mutate"
        <3>1. PICK err, r : r \in Resource /\ ctl' = AfterCall(ctl, err, r)
            BY <1>8, MutateCalls
        <3>2. ctl.pc = "mutate"
            BY <1>8, MutateCalls
        <3>3. ctl'.pc # "getPolicy"
            BY <1>t, <3>1, <3>2, AfterCallType
        <3> QED
            BY <1>2, <2>2, <3>3
    <2> QED
        BY <2>1, <2>2
<1>9. ASSUME NEW id \in Ids, ServiceSettles(id) \/ ServiceIdles(id)
      PROVE  StatusInv'
    BY <1>1, <1>9, <1>t, ServiceIsSteady DEF ServiceSettles, ServiceIdles
<1> QED
    BY <1>3, <1>4, <1>5, <1>6, <1>7, <1>8, <1>9 DEF Next, Work

\* What others change is recorded, or it is no status; and a step to rest leaves
\* nothing to be known.
LEMMA SettledStep ==
    ASSUME WorkerInv, WorkerInv', SettledInv, [AttemptsNext]_attemptVars
    PROVE  SettledInv'
<1>1. ctl'.pc = "idle" => StatusInv'
    BY DEF StatusInv
<1>2. CASE \E id \in Ids : ServiceDrifts(id) /\ Record
    <2>1. PICK id \in Ids : ServiceDrifts(id) /\ Record
        BY <1>2
    <2>2. ctl' = ctl /\ met' \subseteq Marks
        BY <2>1, ChangeMet DEF ServiceDrifts, SettledInv
    <2>3. ASSUME ctl'.pc # "idle", "status" \notin met'
          PROVE  StatusInv'
        <3>1. StatusInv /\ \A i \in Ids : aws'[i].status = aws[i].status
            BY <2>1, <2>3, ChangeMet DEF SettledInv
        <3>2. /\ ctl.pc = "getPolicy" => ctl.observed.status.identifier \in Ids
              /\ ctl.pc = "mutate" => Id \in Ids
            BY HeldIds
        <3> QED
            BY <2>2, <3>1, <3>2 DEF StatusInv, Id
    <2> QED
        BY <1>1, <2>2, <2>3 DEF SettledInv
<1>3. CASE ~ \E id \in Ids : ServiceDrifts(id) /\ Record
    <2>1. /\ [Next]_vars /\ ~ \E id \in Ids : ServiceDrifts(id)
          /\ met' \subseteq Marks
          /\ ctl'.pc # "idle" => met' = met
        BY <1>3, OwnStep DEF SettledInv
    <2> QED
        BY <1>1, <2>1, StatusStep DEF SettledInv
<1> QED
    BY <1>2, <1>3

\* requeueIfTransitional: no call of an update is made on a cluster in CREATING or
\* UPDATING unless others have changed its status since the attempt began, whatever
\* the service does between the read and the last call, whatever earlier attempts left
\* half-way, and whatever answers are lost and processes stop.
THEOREM UpdatesMeetSettled == AttemptsSpec => []MutatesOnlySettled
<1>1. AttemptsInit => SettledInv
    BY DEF AttemptsInit, Init, IdleCtl, SettledInv, StatusInv
<1>2. AttemptsSpec => []WorkerInv
    BY AttemptsAreReconciled, WorkerInvariant, PTL
<1>3. WorkerInv /\ WorkerInv' /\ SettledInv /\ [AttemptsNext]_attemptVars => SettledInv'
    BY SettledStep
<1>4. SettledInv => MutatesOnlySettled
    BY DEF SettledInv, StatusInv, MutatesOnlySettled, Transitional
<1> QED
    BY <1>1, <1>2, <1>3, <1>4, PTL DEF AttemptsSpec

-----------------------------------------------------------------------------
(* Tags of AWS *)

\* The worker starts from a spec without tags of AWS, and once it updates, what it
\* wants and what it has read agree on them.
MirrorInv ==
    /\ ctl.caller = "sync" /\ ctl.pc \in {"getCluster", "getPolicy"} =>
          \A k \in AwsTagKeys : ctl.desired.spec.tags[k] = NoTag
    /\ ctl.pc = "mutate" =>
          \A k \in AwsTagKeys : ctl.desired.spec.tags[k] = ctl.latest.spec.tags[k]

\* The controller's own tags are none of AWS's, so EnsureTags adds none of those.
LEMMA EnsureAddsNone ==
    ASSUME AwsTagKeys \cap SystemTagKeys = {}, NEW r \in Resource, NEW k \in AwsTagKeys
    PROVE  EnsureTags(r).spec.tags[k] = r.spec.tags[k]
<1> DEFINE tags == [j \in TagKeys |-> IF j \in SystemTagKeys /\ r.spec.tags[j] = NoTag
                                      THEN SystemTagValue ELSE r.spec.tags[j]]
<1>1. EnsureTags(r) = [r EXCEPT !.spec.tags = tags]
    BY DEF EnsureTags
<1>2. tags[k] = r.spec.tags[k]
    BY DEF TagKeys
<1> HIDE DEF tags
<1>3. r.spec \in ClusterSpec
    BY DEF Resource
<1> QED
    BY <1>1, <1>2, <1>3 DEF Resource, ClusterSpec

\* Every step keeps the two in agreement.
LEMMA MirrorStep ==
    /\ AwsTagKeys \cap SystemTagKeys = {}
    /\ WorkerInv /\ SystemTagsStayOut /\ MirrorInv /\ [Next]_vars
    => MirrorInv'
<1> SUFFICES ASSUME AwsTagKeys \cap SystemTagKeys = {},
                    WorkerInv, SystemTagsStayOut, MirrorInv, [Next]_vars
             PROVE  MirrorInv'
    OBVIOUS
<1>t. /\ ServiceTypeOK /\ cr \in CustomResource /\ ctl \in Controller
      /\ ctl.desired \in Resource /\ Subject(ctl) \in Resource
      /\ CallerInv /\ IdentifierInv
    BY SubjectType DEF WorkerInv, TypeOK
<1>1. ASSUME ctl' = ctl
      PROVE  MirrorInv'
    BY <1>1 DEF MirrorInv
<1>2. CASE \/ UNCHANGED vars \/ Resync \/ EditSpec \/ DeleteCR
           \/ \E id \in Ids : ServiceSettles(id) \/ ServiceIdles(id) \/ ServiceDrifts(id)
    BY <1>1, <1>2
    DEF vars, Resync, EditSpec, DeleteCR, ServiceSettles, ServiceIdles, ServiceDrifts
<1>3. CASE Start
    <2> DEFINE fresh == [cr.status EXCEPT !.terminal = FALSE, !.recoverable = FALSE,
                                          !.synced = FALSE]
               given == [spec |-> cr.spec, status |-> fresh]
               tagged == EnsureTags(given)
    <2>1. given \in Resource /\ given.spec = cr.spec
        BY <1>t DEF CustomResource, ClusterStatus, Resource
    <2>2. tagged \in Resource /\ \A k \in AwsTagKeys : tagged.spec.tags[k] = NoTag
        BY <2>1, EnsureTagsType, EnsureAddsNone DEF SystemTagsStayOut
    <2>3. \/ ctl' = ctl
          \/ ctl'.pc = "getCluster" /\ ctl'.caller = "delete"
          \/ ctl' = StartRead([IdleCtl EXCEPT !.desired = tagged], "sync")
        BY <1>3 DEF Start, StartRead, IdleCtl
    <2> HIDE DEF tagged
    <2>4. CASE ctl' = StartRead([IdleCtl EXCEPT !.desired = tagged], "sync")
        <3>1. ctl'.pc = "getCluster" /\ ctl'.desired = tagged
            BY <2>4 DEF StartRead, IdleCtl
        <3> QED
            BY <2>2, <3>1 DEF MirrorInv
    <2> QED
        BY <1>1, <2>3, <2>4 DEF MirrorInv
<1>4. CASE Manage \/ CreateCluster \/ DeleteCluster \/ Unmanage \/ PatchSpec \/ Publish \/ Crash
    BY <1>4, OtherSteps DEF MirrorInv
<1>5. CASE GetCluster
    <2>1. CASE ctl'.pc = "getPolicy"
        <3>1. /\ ctl.pc = "getCluster"
              /\ ctl'.caller = ctl.caller /\ ctl'.desired = ctl.desired
            BY <1>5, <1>t, <2>1, GetClusterStep DEF Controller
        <3> QED
            BY <2>1, <3>1 DEF MirrorInv
    <2> QED
        BY <1>5, <2>1, GetClusterStep DEF MirrorInv
<1>6. CASE GetClusterPolicy
    <2>1. CASE \/ ctl'.pc \in {"getPolicy", "mutate"}
               \/ ctl'.pc = "getCluster" /\ ctl'.caller # "lateInit"
        <3>1. /\ ctl.pc = "getPolicy" /\ ctl'.pc = "mutate"
              /\ \E o \in Resource : ctl' = ReadDone(ctl, o)
            BY <1>6, <2>1, GetPolicyStep
        <3>2. PICK o \in Resource : ctl' = ReadDone(ctl, o)
            BY <3>1
        <3>3. ctl.caller # "none"
            BY <1>t, <3>1 DEF CallerInv
        <3>4. /\ ctl'.latest = o
              /\ \A k \in AwsTagKeys : (ctl.caller = "sync" => ctl.desired.spec.tags[k] = NoTag)
                    => ctl'.desired.spec.tags[k] = o.spec.tags[k]
            BY <1>t, <3>1, <3>2, <3>3, ReadMutates
        <3> QED
            BY <3>1, <3>4 DEF MirrorInv
    <2>2. CASE /\ ctl'.pc \notin {"getPolicy", "mutate"}
               /\ ctl'.pc = "getCluster" => ctl'.caller = "lateInit"
        BY <2>2 DEF MirrorInv
    <2> QED
        BY <2>1, <2>2
<1>7. CASE TagResource \/ UntagResource \/ SyncPolicy \/ UpdateCluster
    <2>1. PICK err, r : r \in Resource /\ ctl' = AfterCall(ctl, err, r)
        BY <1>7, MutateCalls
    <2>2. ctl.pc = "mutate"
        BY <1>7, MutateCalls
    <2>3. CASE ctl'.pc = "mutate"
        <3>1. ctl'.desired = ctl.desired /\ ctl'.latest = ctl.latest
            BY <1>t, <2>1, <2>3, CallMutates
        <3> QED
            BY <2>2, <2>3, <3>1 DEF MirrorInv
    <2>4. CASE ctl'.pc # "mutate"
        <3>1. ctl'.pc \notin {"getCluster", "getPolicy"}
            BY <1>t, <2>1, <2>2, AfterCallType
        <3> QED
            BY <2>4, <3>1 DEF MirrorInv
    <2> QED
        BY <2>3, <2>4
<1> QED
    BY <1>2, <1>3, <1>4, <1>5, <1>6, <1>7 DEF Next, Work

\* mirrorAWSTags: no update tags or untags a key AWS owns, whatever AWS does to its
\* tags in the meantime, if users and the controller's flag name no such key.
THEOREM AWSTagsUntouched ==
    UsersTagTheirOwn /\ AwsTagKeys \cap SystemTagKeys = {} => (Spec => []AWSTagsLeftAlone)
<1> SUFFICES ASSUME UsersTagTheirOwn, AwsTagKeys \cap SystemTagKeys = {}
             PROVE  Spec => []AWSTagsLeftAlone
    OBVIOUS
<1>1. Init => MirrorInv
    BY DEF Init, IdleCtl, MirrorInv
<1>2. WorkerInv /\ SystemTagsStayOut /\ MirrorInv /\ [Next]_vars => MirrorInv'
    BY MirrorStep
<1>3. MirrorInv => AWSTagsLeftAlone
    BY DEF MirrorInv, AWSTagsLeftAlone, TagsAdded, TagsRemoved
<1>4. Spec => []SystemTagsStayOut
    BY TagsStayOut
<1> QED
    BY <1>1, <1>2, <1>3, <1>4, WorkerInvariant, PTL DEF Spec

-----------------------------------------------------------------------------
(* What the user stated in a spec *)

SystemKeys == SystemTagKeys \cup AwsTagKeys

\* The spec b has all that a states, but for the tags of the system.
Keeps(a, b) ==
    /\ a.deletionProtection # Nil => b.deletionProtection = a.deletionProtection
    /\ a.kmsKey # Nil => b.kmsKey = a.kmsKey
    /\ a.multiRegion # Nil => b.multiRegion = a.multiRegion
    /\ a.policy # Nil => b.policy = a.policy
    /\ \A k \in TagKeys \ SystemKeys : b.tags[k] = a.tags[k]

\* What is patched, or late-initialized first, keeps what was desired.
Kept(c) ==
    \/ c.pc = "patchSpec"
    \/ c.pc \in {"getCluster", "getPolicy"} /\ c.caller \in {"created", "lateInit"}
    => Keeps(c.desired.spec, c.latest.spec)

-----------------------------------------------------------------------------
(* The resources *)

\* Tags of AWS that are mirrored into a resource take nothing from it.
LEMMA MirrorKeeps ==
    ASSUME NEW a, NEW r \in Resource, NEW o \in Resource, Keeps(a, r.spec)
    PROVE  Keeps(a, MirrorAWSTags(r, o).spec)
<1> DEFINE tags == SyncAWSTags(r.spec.tags, o.spec.tags)
<1>1. r.spec \in ClusterSpec
    BY StatusType
<1>2. MirrorAWSTags(r, o).spec = [r.spec EXCEPT !.tags = tags]
    BY DEF MirrorAWSTags, Resource
<1>3. \A k \in TagKeys \ SystemKeys : tags[k] = r.spec.tags[k]
    BY DEF SyncAWSTags, SystemKeys
<1> HIDE DEF tags
<1> QED
    BY <1>1, <1>2, <1>3 DEF Keeps, ClusterSpec

\* Late initialization fills in what was left open.
LEMMA LateInitializeKeeps ==
    ASSUME NEW a \in ClusterSpec, NEW r \in Resource, NEW o, Keeps(a, r.spec)
    PROVE  Keeps(a, LateInitialize(r, o).spec)
    BY StatusType DEF LateInitialize, Keeps, Resource, ClusterSpec

\* A cluster is made as its spec states, and read back like that.
LEMMA CreatedKeeps ==
    ASSUME NEW r \in Resource, NEW id
    PROVE  Keeps(r.spec, Created(r, id, NewCluster(r.spec)).spec)
    BY StatusType DEF Created, NewCluster, Keeps, Resource, ClusterSpec

\* A success changes conditions only.
LEMMA SuccessKeepsSpec ==
    ASSUME NEW r \in Resource
    PROVE  OnSuccess(r).spec = r.spec
    BY DEF OnSuccess, Resource

-----------------------------------------------------------------------------
(* The worker *)

\* A read that does not fail keeps, for what it returns is mirrored, completed or,
\* where nothing differs, the same as was desired.
LEMMA ReadKept ==
    ASSUME NEW c \in Controller, NEW o \in Resource, c.caller # "none",
           c.pc = "getPolicy", Kept(c)
    PROVE  Kept(ReadDone(c, o))
<1>r. c.desired \in Resource /\ c.latest \in Resource
    BY SubjectType
<1>1. CASE c.caller = "sync"
    <2> DEFINE read  == [c EXCEPT !.desired = MirrorAWSTags(c.desired, o), !.latest = o]
               delta == NewResourceDelta(read.desired, read.latest)
    <2>1. /\ read \in Controller /\ read.latest = o
          /\ read.desired = MirrorAWSTags(c.desired, o) /\ read.desired \in Resource
        BY <1>r, MirrorType DEF Controller
    <2>2. ReadDone(c, o) = IF delta = {} THEN StartRead(read, "lateInit")
                                         ELSE BeginUpdate(read, delta)
        BY <1>1 DEF ReadDone, AfterSyncRead
    <2> HIDE DEF read
    <2>3. CASE delta = {}
        <3>1. read.desired.spec = read.latest.spec
            BY <2>1, <2>3, DeltaFields
        <3> QED
            BY <2>1, <2>2, <2>3, <3>1, StartReadType DEF Kept, Keeps
    <2>4. CASE delta # {}
        <3> HIDE DEF delta
        <3> QED
            BY <2>1, <2>2, <2>4, BeginUpdateType DEF Kept
    <2> QED
        BY <2>3, <2>4
<1>2. CASE c.caller = "delete"
    <2>1. ReadDone(c, o) = AfterDeleteRead(c, o)
        BY <1>2 DEF ReadDone
    <2> QED
        BY <2>1, AfterDeleteReadType DEF Kept
<1>3. CASE c.caller = "created"
    <2> DEFINE m == MirrorAWSTags(c.latest, o)
               r == [m EXCEPT !.status = o.status]
    <2>1. m \in Resource /\ Keeps(c.desired.spec, m.spec)
        BY <1>3, <1>r, MirrorType, MirrorKeeps DEF Kept
    <2>2. ReadDone(c, o) = [c EXCEPT !.pc = "patchSpec", !.latest = r]
        BY <1>3 DEF ReadDone
    <2> HIDE DEF m
    <2>3. r.spec = m.spec
        BY <2>1 DEF Resource
    <2> HIDE DEF r
    <2> QED
        BY <2>1, <2>2, <2>3 DEF Kept, Controller
<1>4. CASE c.caller = "lateInit"
    <2> DEFINE m == MirrorAWSTags(c.latest, o)
               r == LateInitialize(m, o)
    <2>1. /\ m \in Resource /\ Keeps(c.desired.spec, m.spec)
          /\ c.desired.spec \in ClusterSpec
        BY <1>4, <1>r, MirrorType, MirrorKeeps, StatusType DEF Kept
    <2>2. ReadDone(c, o) = AfterLateInit(c, r)
        BY <1>4 DEF ReadDone
    <2> HIDE DEF m
    <2>3. Keeps(c.desired.spec, r.spec)
        BY <2>1, LateInitializeKeeps
    <2> HIDE DEF r
    <2> QED
        BY <2>2, <2>3 DEF AfterLateInit, Kept, Controller
<1> QED
    BY <1>1, <1>2, <1>3, <1>4 DEF Controller

\* A read that fails is not patched.
LEMMA FailedReadKept ==
    ASSUME NEW c \in Controller, NEW err
    PROVE  Kept(ReadFailed(c, err))
<1>1. ReadFailed(c, err).pc \in {"manage", "unmanage", "publish"}
    BY FailType, SubjectType DEF ReadFailed, Controller
<1> QED
    BY <1>1 DEF Kept

\* After its last call an update returns the desired spec.
LEMMA CallKept ==
    ASSUME NEW c \in Controller, NEW err, NEW r \in Resource,
           c.pc = "mutate", r.spec = c.desired.spec
    PROVE  Kept(AfterCall(c, err, r))
<1> DEFINE left == c.todo \ {NextCall(c)}
           rest == [c EXCEPT !.todo = {}]
<1>1. rest \in Controller /\ rest.desired = c.desired
    BY DEF Controller
<1>2. AfterCall(c, err, r) =
          IF err # "none" THEN Fail(rest, c.latest, err)
          ELSE IF left # {} THEN [c EXCEPT !.todo = left] ELSE UpdateDone(rest, r)
    BY DEF AfterCall
<1>3. Kept([c EXCEPT !.todo = left])
    BY DEF Kept, Controller
<1> HIDE DEF left, rest
<1>4. Kept(Fail(rest, c.latest, err))
    BY <1>1, SubjectType, FailType DEF Kept
<1>5. Kept(UpdateDone(rest, r))
    <2>1. /\ UpdateDone(rest, r).desired.spec = c.desired.spec
          /\ UpdateDone(rest, r).latest.spec = c.desired.spec
          /\ UpdateDone(rest, r).pc \in {"delete", "patchSpec"}
        BY <1>1, SuccessKeepsSpec DEF UpdateDone, Controller
    <2> QED
        BY <2>1 DEF Kept, Keeps
<1> QED
    BY <1>2, <1>3, <1>4, <1>5

\* What is to be patched keeps what was desired, from step to step.
LEMMA KeptStep == WorkerInv /\ Kept(ctl) /\ [Next]_vars => Kept(ctl)'
<1> SUFFICES ASSUME WorkerInv, Kept(ctl), [Next]_vars
             PROVE  Kept(ctl')
    BY DEF Kept
<1>t. /\ ctl \in Controller /\ ctl.desired \in Resource /\ ctl.latest \in Resource
      /\ ctl.observed \in Resource /\ CallerInv
    BY SubjectType DEF WorkerInv, TypeOK
<1>1. CASE GetCluster
    <2> DEFINE seen(o) == [ctl EXCEPT !.pc = "getPolicy", !.observed = o]
    <2>1. ctl.pc = "getCluster"
        BY <1>1 DEF GetCluster
    <2>2. \/ \E err : ctl' = ReadFailed(ctl, err)
          \/ \E o : ctl' = seen(o)
        BY <1>1 DEF GetCluster
    <2>3. ASSUME NEW o PROVE Kept(seen(o))
        BY <1>t, <2>1 DEF Kept, Controller
    <2> QED
        BY <1>t, <2>2, <2>3, FailedReadKept
<1>2. CASE GetClusterPolicy
    <2>1. ctl.pc = "getPolicy" /\ ctl.caller # "none"
        BY <1>2, <1>t DEF GetClusterPolicy, CallerInv
    <2>2. \/ \E err : ctl' = ReadFailed(ctl, err)
          \/ \E policy \in Policies \cup {Nil} :
                ctl' = ReadDone(ctl, OnSuccess([ctl.observed EXCEPT !.spec.policy = policy]))
        <3>1. ctl.observed.status.identifier \in Ids
            BY <1>t, <2>1, StatusType DEF WorkerInv, IdentifierInv
        <3>2. aws[ctl.observed.status.identifier].policy \in Policies \cup {Nil}
            BY <3>1, ClusterType DEF WorkerInv, TypeOK, Cluster
        <3> QED
            BY <1>2, <3>2 DEF GetClusterPolicy
    <2>3. ASSUME NEW policy \in Policies \cup {Nil}
          PROVE  OnSuccess([ctl.observed EXCEPT !.spec.policy = policy]) \in Resource
        <3>1. [ctl.observed EXCEPT !.spec.policy = policy] \in Resource
            BY <1>t DEF Resource, ClusterSpec
        <3> QED
            BY <3>1, ConditionsType
    <2> QED
        BY <1>t, <2>1, <2>2, <2>3, ReadKept, FailedReadKept
<1>3. CASE CreateCluster
    <2> DEFINE spec == ctl.desired.spec
               made == Created(ctl.desired, NextId, NewCluster(spec))
               next == [ctl EXCEPT !.latest = OnSuccess(made)]
    <2>1. PICK fate \in Fates :
             ctl' = IF Answer(fate, CreateVerdict(spec)) = "none"
                    THEN StartRead(next, "created")
                    ELSE [Fail(ctl, ctl.desired, Answer(fate, CreateVerdict(spec)))
                            EXCEPT !.pc = "unmanage"]
        BY <1>3 DEF CreateCluster
    <2>2. CASE Answer(fate, CreateVerdict(spec)) = "none"
        <3>1. CreateVerdict(spec) = "none"
            BY <2>2 DEF Answer
        <3>2. spec \in ClusterSpec /\ NextId \in Ids
            BY <1>t, <3>1, StatusType, NextIdType
        <3>3. made \in Resource /\ Keeps(spec, made.spec)
            BY <1>t, <3>2, CreatedType, CreatedKeeps, NewClusterType DEF Statuses
        <3> HIDE DEF made
        <3>4. OnSuccess(made) \in Resource /\ OnSuccess(made).spec = made.spec
            BY <3>3, ConditionsType, SuccessKeepsSpec
        <3>5. next \in Controller /\ next.latest = OnSuccess(made) /\ next.desired = ctl.desired
            BY <1>t, <3>4 DEF Controller
        <3> HIDE DEF next
        <3>6. ctl' = StartRead(next, "created")
            BY <2>1, <2>2
        <3> QED
            BY <3>3, <3>4, <3>5, <3>6, StartReadType DEF Kept
    <2>3. CASE Answer(fate, CreateVerdict(spec)) # "none"
        <3>1. ASSUME NEW err
              PROVE  [Fail(ctl, ctl.desired, err) EXCEPT !.pc = "unmanage"].pc = "unmanage"
            BY <1>t, FailType DEF Controller
        <3> QED
            BY <2>1, <2>3, <3>1 DEF Kept
    <2> QED
        BY <2>2, <2>3
<1>4. CASE TagResource \/ UntagResource \/ SyncPolicy \/ UpdateCluster
    BY <1>4, <1>t, MutateCalls, CallKept
<1>5. CASE PatchSpec
    <2> DEFINE taken == [ctl EXCEPT !.desired = ctl.latest]
    <2>1. taken \in Controller /\ taken.desired = taken.latest
        BY <1>t DEF Controller
    <2>2. ctl' = IF ctl.caller = "lateInit"
                 THEN [taken EXCEPT !.pc = "publish", !.result = "done"]
                 ELSE StartRead(taken, "lateInit")
        BY <1>5 DEF PatchSpec
    <2> HIDE DEF taken
    <2>3. [taken EXCEPT !.pc = "publish", !.result = "done"].pc = "publish"
        BY <2>1 DEF Controller
    <2> QED
        BY <2>1, <2>2, <2>3, StartReadType DEF Kept, Keeps
<1>6. CASE Start
    <2>1. ctl' = ctl \/ \E r \in Resource, caller \in {"sync", "delete"} :
                            ctl' = StartRead([IdleCtl EXCEPT !.desired = r], caller)
        <3>1. cr.spec \in ClusterSpec /\ cr.status \in ClusterStatus
            BY DEF WorkerInv, TypeOK, CustomResource
        <3>2. [spec |-> cr.spec, status |-> cr.status] \in Resource
            BY <3>1 DEF Resource
        <3>3. [spec |-> cr.spec, status |-> [cr.status EXCEPT !.terminal = FALSE,
                    !.recoverable = FALSE, !.synced = FALSE]] \in Resource
            BY <3>1 DEF Resource, ClusterStatus
        <3> QED
            BY <1>6, <3>2, <3>3, EnsureTagsType DEF Start
    <2>2. ASSUME NEW r \in Resource, NEW caller \in {"sync", "delete"}
          PROVE  Kept(StartRead([IdleCtl EXCEPT !.desired = r], caller))
        <3>1. [IdleCtl EXCEPT !.desired = r] \in Controller
            BY IdleType DEF Controller
        <3> QED
            BY <3>1, StartReadType DEF Kept
    <2> QED
        BY <2>1, <2>2
<1>7. CASE Manage \/ DeleteCluster \/ Unmanage \/ Publish \/ Crash
    <2>1. ctl'.pc \in {"create", "idle", "unmanage", "publish"}
        <3>1. CASE DeleteCluster
            <4>1. \/ ctl' = [ctl EXCEPT !.pc = "unmanage"]
                  \/ \E err : ctl' = Fail(ctl, ctl.latest, err)
                BY <3>1 DEF DeleteCluster
            <4> QED
                BY <1>t, <4>1, FailType DEF Controller
        <3>2. CASE Manage \/ Unmanage \/ Publish \/ Crash
            BY <3>2, <1>t DEF Manage, Unmanage, Publish, Crash, IdleCtl, Controller
        <3> QED
            BY <1>7, <3>1, <3>2
    <2> QED
        BY <2>1 DEF Kept
<1>8. CASE \/ UNCHANGED vars \/ Resync \/ EditSpec \/ DeleteCR
           \/ \E id \in Ids : ServiceSettles(id) \/ ServiceIdles(id) \/ ServiceDrifts(id)
    BY <1>8 DEF vars, Resync, EditSpec, DeleteCR, ServiceSettles, ServiceIdles, ServiceDrifts
<1> QED
    BY <1>1, <1>2, <1>3, <1>4, <1>5, <1>6, <1>7, <1>8 DEF Next, Work

\* What is patched keeps what was desired, in every behaviour.
LEMMA KeptInvariant == Spec => []Kept(ctl)
<1>1. Init => Kept(ctl)
    BY DEF Init, IdleCtl, Kept
<1> QED
    BY <1>1, KeptStep, WorkerInvariant, PTL DEF Spec

-----------------------------------------------------------------------------
(* The theorem *)

\* A merge patch of what keeps the desired spec changes no stated field, and no tag.
LEMMA PatchKeeps ==
    ASSUME NEW s \in ClusterSpec, NEW a \in ClusterSpec, NEW r \in Resource,
           Keeps(a, r.spec), \A k \in SystemKeys : s.tags[k] = NoTag,
           NEW p, p = MergePatch(s, a, FilterSystemTags(r).spec)
    PROVE  /\ \A f \in DOMAIN s \ {"tags"} : a[f] # Nil => p[f] = s[f]
           /\ p.tags = s.tags
<1> DEFINE tags == IgnoreSystemTags(r.spec.tags)
<1>1. /\ r.spec \in ClusterSpec /\ s.tags \in TagMaps
      /\ DOMAIN s = {"deletionProtection", "kmsKey", "multiRegion", "policy", "tags"}
    BY StatusType DEF ClusterSpec
<1>2. FilterSystemTags(r).spec = [r.spec EXCEPT !.tags = tags]
    BY DEF FilterSystemTags, Resource
<1>3. \A k \in TagKeys : tags[k] = IF k \in SystemKeys THEN NoTag ELSE r.spec.tags[k]
    BY DEF IgnoreSystemTags, SystemKeys
<1> HIDE DEF tags
<1>4. ASSUME NEW f \in DOMAIN s \ {"tags"}, a[f] # Nil
      PROVE  p[f] = s[f]
    BY <1>1, <1>2, <1>4 DEF MergePatch, Merge, Keeps, ClusterSpec
<1>5. p.tags = s.tags
    <2>1. p.tags = [k \in TagKeys |-> Merge(s.tags[k], a.tags[k], tags[k])]
        BY <1>1, <1>2 DEF MergePatch, ClusterSpec
    <2>2. \A k \in TagKeys : Merge(s.tags[k], a.tags[k], tags[k]) = s.tags[k]
        BY <1>3 DEF Merge, Keeps
    <2> QED
        BY <1>1, <2>1, <2>2 DEF TagMaps
<1> QED
    BY <1>4, <1>5

\* Create, Update, LateInitialize and the merge patch: what the user stated in the
\* spec the worker read is never rewritten, whatever others change, answers are lost
\* and processes stop, if users write only tags of their own.
THEOREM StatedFieldsStay == UsersTagTheirOwn => (Spec => StatedFieldsKept)
<1> SUFFICES ASSUME UsersTagTheirOwn
             PROVE  Spec => StatedFieldsKept
    OBVIOUS
<1> DEFINE StatedKept ==
        ctl.pc = "patchSpec" /\ ctl' # ctl =>
           /\ \A f \in DOMAIN cr.spec \ {"tags"} :
                 ctl.desired.spec[f] # Nil => cr'.spec[f] = cr.spec[f]
           /\ cr'.spec.tags = cr.spec.tags
<1>1. WorkerInv /\ Kept(ctl) /\ SystemTagsStayOut /\ [Next]_vars => [StatedKept]_vars
    <2> SUFFICES ASSUME WorkerInv, Kept(ctl), SystemTagsStayOut, [Next]_vars,
                        ctl.pc = "patchSpec", ctl' # ctl
                 PROVE  /\ \A f \in DOMAIN cr.spec \ {"tags"} :
                              ctl.desired.spec[f] # Nil => cr'.spec[f] = cr.spec[f]
                        /\ cr'.spec.tags = cr.spec.tags
        OBVIOUS
    <2>t. /\ cr \in CustomResource /\ cr.spec \in ClusterSpec
          /\ ctl.desired \in Resource /\ ctl.latest \in Resource
          /\ ctl.desired.spec \in ClusterSpec
        BY SubjectType, StatusType DEF WorkerInv, TypeOK, CustomResource
    <2>1. PatchSpec \/ Crash
        BY DEF Next, Work, vars, Start, GetCluster, GetClusterPolicy, Manage, CreateCluster,
               TagResource, UntagResource, SyncPolicy, UpdateCluster, DeleteCluster, Unmanage,
               Publish, Resync, EditSpec, DeleteCR, ServiceSettles, ServiceIdles, ServiceDrifts
    <2>2. CASE Crash
        BY <2>2 DEF Crash
    <2>3. CASE PatchSpec
        <3> DEFINE p == MergePatch(cr.spec, ctl.desired.spec, FilterSystemTags(ctl.latest).spec)
        <3>1. cr' = [cr EXCEPT !.spec = p]
            BY <2>3 DEF PatchSpec
        <3>2. cr'.spec = p
            BY <2>t, <3>1 DEF CustomResource
        <3>3. Keeps(ctl.desired.spec, ctl.latest.spec)
            BY DEF Kept
        <3>4. \A k \in SystemKeys : cr.spec.tags[k] = NoTag
            BY DEF SystemTagsStayOut, SystemKeys
        <3>5. /\ \A f \in DOMAIN cr.spec \ {"tags"} :
                    ctl.desired.spec[f] # Nil => p[f] = cr.spec[f]
              /\ p.tags = cr.spec.tags
            <4> HIDE DEF p
            <4> QED
                BY <2>t, <3>3, <3>4, PatchKeeps DEF p
        <3> QED
            BY <3>2, <3>5
    <2> QED
        BY <2>1, <2>2, <2>3
<1>2. Spec => [][StatedKept]_vars
    BY <1>1, WorkerInvariant, KeptInvariant, TagsStayOut, PTL DEF Spec
<1> QED
    BY <1>2 DEF StatedFieldsKept
=============================================================================
