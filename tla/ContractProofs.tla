--------------------------- MODULE ContractProofs ---------------------------
(***************************************************************************)
(* Proof that ClusterReconcile implements ClusterContract, when answers    *)
(* arrive and the process does not stop half-way.                          *)
(***************************************************************************)
EXTENDS ReconcileProofs

-----------------------------------------------------------------------------
(* The invariant the mapping needs, beside IndInv *)

\* A result the worker is about to publish or to patch names a cluster.
ResultNamed ==
    ctl.caller \in {"created", "lateInit"} \/ ctl.pc = "patchSpec"
        => ctl.latest.status.identifier # Nil

\* An identifier that is recorded, or about to be, has been handed out.
Issued(x) == \A id \in Ids : id = x => aws[id].status # "absent"

ContractInv ==
    /\ ResultNamed
    /\ Issued(Known)
    /\ Issued(cr.status.identifier)
    /\ ctl.caller = "delete" => cr.deleting

\* A change of the account that hands out no identifier ...
HandsOutNone(before, after) ==
    \A i \in Ids : after[i].status = "absent" <=> before[i].status = "absent"

\* ... and takes no cluster from among the live ones and adds none.
Unmoved(before, after) ==
    /\ HandsOutNone(before, after)
    /\ \A i \in Ids : after[i].status \in Deleted \cup Gone
                        <=> before[i].status \in Deleted \cup Gone

\* Steps the contract does not see.
LEMMA Unseen ==
    ASSUME ContractInv, Unmoved(aws, aws'), Known' = Known, ResultNamed',
           cr'.exists = cr.exists, cr'.deleting = cr.deleting,
           cr'.status.identifier = cr.status.identifier,
           spent'.drifts = spent.drifts,
           ctl'.caller = "delete" => ctl.caller = "delete" \/ cr.deleting
    PROVE  ContractInv' /\ UNCHANGED Contract!vars
<1>1. \A id \in Ids : Live(id)' <=> Live(id)
    BY DEF Unmoved, Live
<1>2. {id \in Ids : Live(id)}' = {id \in Ids : Live(id)} /\ Unused' = Unused
    BY <1>1 DEF Unmoved, HandsOutNone, Unused
<1>3. UNCHANGED Contract!vars
    BY <1>2 DEF Contract!vars
<1>4. ContractInv'
    BY DEF ContractInv, Issued, Unmoved, HandsOutNone
<1> QED
    BY <1>3, <1>4

\* A step that leaves the account alone moves nothing.
LEMMA SameIsUnmoved ==
    ASSUME aws' = aws
    PROVE  Unmoved(aws, aws')
    BY DEF Unmoved, HandsOutNone

-----------------------------------------------------------------------------
(* The account *)

\* A call that changes no status, or takes a cluster at rest to UPDATING.
LEMMA StatusUnmoved ==
    ASSUME NEW after,
           \A i \in Ids : \/ after[i].status = aws[i].status
                          \/ /\ aws[i].status \in {"ACTIVE", "IDLE", "INACTIVE"}
                             /\ after[i].status = "UPDATING"
    PROVE  Unmoved(aws, after)
    BY DEF Unmoved, HandsOutNone, Deleted, Gone

\* The calls of an update move no cluster.
LEMMA ContentUnmoved ==
    ASSUME ServiceTypeOK, NEW id \in Ids
    PROVE  /\ \A keys, tags : Unmoved(aws, AfterTag(id, keys, tags))
           /\ \A keys : Unmoved(aws, AfterUntag(id, keys))
           /\ \A policy : Unmoved(aws, AfterPolicy(id, policy))
           /\ \A input : Unmoved(aws, AfterUpdate(id, input))
<1>1. ASSUME NEW keys, NEW tags PROVE Unmoved(aws, AfterTag(id, keys, tags))
    <2> DEFINE new == [k \in TagKeys |-> IF k \in keys THEN tags[k] ELSE aws[id].tags[k]]
    <2>1. AfterTag(id, keys, tags) = [aws EXCEPT ![id].tags = new]
        BY DEF AfterTag
    <2> HIDE DEF new
    <2> QED
        BY <2>1, StatusUnmoved DEF ServiceTypeOK, Cluster
<1>2. ASSUME NEW keys PROVE Unmoved(aws, AfterUntag(id, keys))
    <2> DEFINE new == [k \in TagKeys |-> IF k \in keys THEN NoTag ELSE aws[id].tags[k]]
    <2>1. AfterUntag(id, keys) = [aws EXCEPT ![id].tags = new]
        BY DEF AfterUntag
    <2> HIDE DEF new
    <2> QED
        BY <2>1, StatusUnmoved DEF ServiceTypeOK, Cluster
<1>3. ASSUME NEW policy PROVE Unmoved(aws, AfterPolicy(id, policy))
    <2>1. \A i \in Ids : AfterPolicy(id, policy)[i].status = aws[i].status
        BY DEF AfterPolicy, ServiceTypeOK, Cluster
    <2> QED
        BY <2>1, StatusUnmoved
<1>4. ASSUME NEW input PROVE Unmoved(aws, AfterUpdate(id, input))
    <2> DEFINE changed == Updated(aws[id], input)
               final   == IF changed = aws[id]
                             \/ aws[id].status \notin {"ACTIVE", "IDLE", "INACTIVE"}
                          THEN changed ELSE [changed EXCEPT !.status = "UPDATING"]
    <2>1. aws[id] \in Cluster
        BY ClusterType
    <2>2. changed.status = aws[id].status /\ [changed EXCEPT !.status = "UPDATING"].status = "UPDATING"
        BY <2>1 DEF Updated, Cluster
    <2>3. AfterUpdate(id, input) = [aws EXCEPT ![id] = final]
        BY DEF AfterUpdate
    <2> HIDE DEF changed
    <2>4. \/ final.status = aws[id].status
          \/ /\ aws[id].status \in {"ACTIVE", "IDLE", "INACTIVE"}
             /\ final.status = "UPDATING"
        BY <2>2
    <2> HIDE DEF final
    <2> QED
        BY <2>3, <2>4, StatusUnmoved DEF ServiceTypeOK
<1> QED
    BY <1>1, <1>2, <1>3, <1>4

\* A status moved within the live ones, or within the deleted ones, moves nothing.
LEMMA MoveIsUnmoved ==
    ASSUME ServiceTypeOK, NEW id \in Ids, NEW s, MoveTo(id, s), s # "absent",
           aws[id].status # "absent", s \in Deleted \cup Gone <=> aws[id].status \in Deleted \cup Gone
    PROVE  Unmoved(aws, aws')
<1>1. \A i \in Ids : aws'[i].status = IF i = id THEN s ELSE aws[i].status
    BY DEF MoveTo, ServiceTypeOK, Cluster
<1> QED
    BY <1>1 DEF Unmoved, HandsOutNone

\* The service moves a cluster through its life and hands out no identifier.
LEMMA ServiceIsUnmoved ==
    ASSUME ServiceTypeOK, NEW id \in Ids, Settle(id) \/ Idle(id)
    PROVE  Unmoved(aws, aws')
<1>1. CASE aws[id].status = "DELETED" /\ aws' = [aws EXCEPT ![id] = NoCluster("purged")]
    <2>1. \A i \in Ids : aws'[i].status = IF i = id THEN "purged" ELSE aws[i].status
        BY <1>1, NoClusterType DEF ServiceTypeOK, Gone
    <2> QED
        BY <1>1, <2>1 DEF Unmoved, HandsOutNone, Deleted, Gone
<1>2. ASSUME NEW s \in {"FAILED", "ACTIVE", "PENDING_SETUP", "IDLE", "INACTIVE"}, MoveTo(id, s),
             aws[id].status \in {"CREATING", "PENDING_SETUP", "UPDATING", "ACTIVE", "IDLE", "INACTIVE"}
      PROVE  Unmoved(aws, aws')
    BY <1>2, MoveIsUnmoved DEF Deleted, Gone
<1>3. ASSUME NEW s \in {"DELETING", "DELETED"}, MoveTo(id, s),
             aws[id].status \in {"PENDING_DELETE", "DELETING"}
      PROVE  Unmoved(aws, aws')
    BY <1>3, MoveIsUnmoved DEF Deleted, Gone
<1>4. CASE Settle(id)
    BY <1>1, <1>2, <1>3, <1>4 DEF Settle
<1>5. CASE Idle(id)
    BY <1>2, <1>5 DEF Idle
<1> QED
    BY <1>4, <1>5

\* A deletion that is accepted hands out no identifier.
LEMMA DeleteHandsOutNone ==
    ASSUME ServiceTypeOK, NEW id \in Ids, DeleteVerdict(id) = "none"
    PROVE  HandsOutNone(aws, AfterDelete(id))
<1>1. aws[id].status # "absent"
    BY DEF DeleteVerdict, MutateVerdict, Found, Gone
<1>2. \A i \in Ids : AfterDelete(id)[i].status = IF i = id THEN "PENDING_DELETE" ELSE aws[i].status
    BY DEF AfterDelete, ServiceTypeOK, Cluster
<1> QED
    BY <1>1, <1>2 DEF HandsOutNone

\* What others change hands out no identifier either.
LEMMA DriftHandsOutNone ==
    ASSUME ServiceTypeOK, NEW id \in Ids, Drift(id)
    PROVE  HandsOutNone(aws, aws')
<1>1. ASSUME NEW p, aws' = AfterUpdate(id, Protect(p))
      PROVE  HandsOutNone(aws, aws')
    BY <1>1, ContentUnmoved DEF Unmoved
<1>2. ASSUME NEW k, NEW v, aws' = [aws EXCEPT ![id].tags[k] = v]
      PROVE  HandsOutNone(aws, aws')
    <2> DEFINE new == [aws[id].tags EXCEPT ![k] = v]
    <2>1. aws' = [aws EXCEPT ![id].tags = new]
        BY <1>2
    <2> HIDE DEF new
    <2> QED
        BY <2>1 DEF HandsOutNone, ServiceTypeOK, Cluster
<1>3. CASE aws' = AfterPolicy(id, Nil)
    BY <1>3, ContentUnmoved DEF Unmoved
<1>4. CASE aws' = AfterDelete(id) /\ DeleteVerdict(id) = "none"
    BY <1>4, DeleteHandsOutNone
<1> QED
    BY <1>1, <1>2, <1>3, <1>4 DEF Drift
-----------------------------------------------------------------------------
(* The steps *)

\* At most one cluster is live, and a tame step makes none: afterwards the same
\* cluster is live, or none is.
LEMMA LiveOrNone ==
    ASSUME LiveInv, Tamer(aws, aws')
    PROVE  {id \in Ids : Live(id)}' \in {{id \in Ids : Live(id)}, {}}
<1>1. \A id \in Ids : Live(id)' => Live(id)
    BY TameLive
<1>2. \A i, j \in Ids : Live(i) /\ Live(j) => i = j
    BY DEF LiveInv, Held
<1> QED
    BY <1>1, <1>2

\* The two requests of a read: the worker stays with its cluster.
LEMMA ReadKeeps ==
    ASSUME WorkerInv, WorkerInv', ContractInv, GetCluster \/ GetClusterPolicy
    PROVE  /\ aws' = aws /\ cr' = cr /\ spent'.drifts = spent.drifts
           /\ ctl.caller \in {"sync", "created", "lateInit", "delete"}
           /\ ctl'.caller = "delete" <=> ctl.caller = "delete"
           /\ Known' = Known /\ ResultNamed'
<1>t. /\ TypeOK /\ ctl \in Controller /\ ctl' \in Controller
      /\ CallerInv /\ IdentifierInv
      /\ ctl.desired \in Resource /\ ctl.latest \in Resource /\ ctl.observed \in Resource
    BY SubjectType DEF WorkerInv, TypeOK
<1>1. aws' = aws /\ cr' = cr /\ spent'.drifts = spent.drifts
    BY <1>t, SpendKeepsDrifts DEF GetCluster, GetClusterPolicy
<1>2. ctl.caller \in {"sync", "created", "lateInit", "delete"}
    BY <1>t DEF GetCluster, GetClusterPolicy, CallerInv, Controller
<1>3. ASSUME NEW err, ctl' = ReadFailed(ctl, err)
      PROVE  Known' = Known /\ ResultNamed' /\ ctl'.caller = ctl.caller
    <2>1. CASE ctl.caller \in {"created", "lateInit"}
        <3>1. ctl'.caller = ctl.caller /\ ctl'.latest = ctl.latest
            BY <1>3, <1>t, <2>1 DEF ReadFailed, Controller
        <3> QED
            BY <2>1, <3>1 DEF Known, ResultNamed, ContractInv
    <2>2. CASE ctl.caller \in {"sync", "delete"}
        <3>1. ctl'.caller = ctl.caller /\ ctl'.pc \in {"manage", "unmanage", "publish"}
            BY <1>3, <1>t, <2>2, FailType DEF ReadFailed, Controller
        <3> QED
            BY <1>1, <2>2, <3>1 DEF Known, ResultNamed
    <2> QED
        BY <1>2, <2>1, <2>2
<1>4. CASE GetCluster
    <2>1. \/ \E err : ctl' = ReadFailed(ctl, err)
          \/ /\ ctl' = [ctl EXCEPT !.pc = "getPolicy", !.observed = ctl'.observed]
             /\ ctl'.pc = "getPolicy"
        BY <1>4, <1>t DEF GetCluster, Controller
    <2>2. CASE ctl'.pc = "getPolicy" /\
               ctl' = [ctl EXCEPT !.pc = "getPolicy", !.observed = ctl'.observed]
        <3>1. ctl'.caller = ctl.caller /\ ctl'.latest = ctl.latest /\ ctl'.pc # "patchSpec"
            BY <1>t, <2>2 DEF Controller
        <3>2. Known' = Known /\ ResultNamed'
            BY <1>1, <3>1 DEF Known, ResultNamed, ContractInv
        <3> QED
            BY <1>1, <1>2, <3>1, <3>2
    <2> QED
        BY <1>1, <1>2, <1>3, <2>1, <2>2
<1>5. CASE GetClusterPolicy
    <2> DEFINE id == ctl.observed.status.identifier
    <2>1. id = Subject(ctl).status.identifier /\ id # Nil /\ id \in Ids
        BY <1>5, <1>t, StatusType DEF GetClusterPolicy, IdentifierInv
    <2>2. aws[id].policy \in Policies \cup {Nil}
        BY <1>t, <2>1, ClusterType DEF TypeOK, Cluster
    <2>3. \/ \E err : ctl' = ReadFailed(ctl, err)
          \/ \E policy \in Policies \cup {Nil} :
                ctl' = ReadDone(ctl, OnSuccess([ctl.observed EXCEPT !.spec.policy = policy]))
        BY <1>5, <2>2 DEF GetClusterPolicy
    <2>4. ASSUME NEW policy \in Policies \cup {Nil},
                 ctl' = ReadDone(ctl, OnSuccess([ctl.observed EXCEPT !.spec.policy = policy]))
          PROVE  /\ Known' = Known /\ ResultNamed'
                 /\ ctl'.caller = "delete" <=> ctl.caller = "delete"
        <3> DEFINE seen == [ctl.observed EXCEPT !.spec.policy = policy]
                   o    == OnSuccess(seen)
        <3>1. seen \in Resource /\ seen.status = ctl.observed.status
            BY <1>t DEF Resource, ClusterSpec
        <3> HIDE DEF seen
        <3>2. o \in Resource /\ o.status.identifier = Subject(ctl).status.identifier
            BY <2>1, <3>1, ConditionsType
        <3>3. ctl' = ReadDone(ctl, o)
            BY <2>4 DEF seen
        <3> HIDE DEF o
        <3>4. CASE ctl.caller \in {"created", "lateInit"}
            <4>1. /\ ctl'.latest.status.identifier = ctl.latest.status.identifier
                  /\ ctl'.caller = ctl.caller
                BY <1>t, <1>2, <3>2, <3>3, <3>4, ReadDoneType
            <4> QED
                BY <3>4, <4>1 DEF Known, ResultNamed, ContractInv
        <3>5. CASE ctl.caller = "sync"
            <4>1. /\ ctl'.latest.status.identifier = ctl.desired.status.identifier
                  /\ ctl'.caller \in {"lateInit", "sync"}
                BY <1>t, <1>2, <3>2, <3>3, <3>5, ReadDoneType
            <4>2. /\ ctl.desired.status.identifier = cr.status.identifier
                  /\ ctl.desired.status.identifier # Nil
                BY <1>t, <2>1, <3>5 DEF IdentifierInv, Subject
            <4> QED
                BY <1>1, <3>5, <4>1, <4>2 DEF Known, ResultNamed
        <3>6. CASE ctl.caller = "delete"
            <4>1. ctl'.pc # "patchSpec" /\ ctl'.caller = "delete"
                BY <1>t, <1>2, <3>2, <3>3, <3>6, ReadDoneType
            <4> QED
                BY <1>1, <3>6, <4>1 DEF Known, ResultNamed
        <3> QED
            BY <1>2, <3>4, <3>5, <3>6
    <2> QED
        BY <1>1, <1>2, <1>3, <2>3, <2>4
<1> QED
    BY <1>4, <1>5

\* The contract does not see what a worker reads.
LEMMA ReadUnseen ==
    ASSUME WorkerInv, WorkerInv', ContractInv, GetCluster \/ GetClusterPolicy
    PROVE  ContractInv' /\ UNCHANGED Contract!vars
    BY ReadKeeps, Unseen, SameIsUnmoved

\* The four calls of an update: the worker stays with its cluster.
LEMMA UpdateKeeps ==
    ASSUME WorkerInv, WorkerInv',
           TagResource \/ UntagResource \/ SyncPolicy \/ UpdateCluster
    PROVE  /\ ctl.pc = "mutate" /\ cr' = cr /\ spent'.drifts = spent.drifts
           /\ ctl.caller \in {"sync", "delete"} /\ ctl'.caller = ctl.caller
           /\ Id \in Ids /\ Id = Known
           /\ Unmoved(aws, aws')
           /\ Known' = Known /\ ResultNamed'
<1>t. /\ TypeOK /\ ServiceTypeOK /\ ctl \in Controller
      /\ CallerInv /\ IdentifierInv /\ CallerInv' /\ IdentifierInv'
      /\ ctl.desired \in Resource /\ ctl.latest \in Resource
    BY SubjectType DEF WorkerInv, TypeOK
<1>1. ctl.pc = "mutate" /\ cr' = cr
    BY MutateCalls
<1>2. ctl.caller \in {"sync", "delete"} /\ ctl.desired.status.identifier # Nil
    BY <1>1, <1>t DEF CallerInv, IdentifierInv
<1>3. Id \in Ids
    BY <1>2, <1>t, StatusType DEF Id
<1>4. spent'.drifts = spent.drifts
    BY <1>t, SpendKeepsDrifts DEF TagResource, UntagResource, SyncPolicy, UpdateCluster
<1>5. Unmoved(aws, aws')
    <2>1. CASE TagResource
        BY <2>1, <1>t, <1>3, ContentUnmoved, SameIsUnmoved DEF TagResource, Effect
    <2>2. CASE UntagResource
        BY <2>2, <1>t, <1>3, ContentUnmoved, SameIsUnmoved DEF UntagResource, Effect
    <2>3. CASE SyncPolicy
        BY <2>3, <1>t, <1>3, ContentUnmoved, SameIsUnmoved DEF SyncPolicy, Effect
    <2>4. CASE UpdateCluster
        BY <2>4, <1>t, <1>3, ContentUnmoved, SameIsUnmoved DEF UpdateCluster, Effect
    <2> QED
        BY <2>1, <2>2, <2>3, <2>4
<1>6. PICK err, r : r \in Resource /\ ctl' = AfterCall(ctl, err, r)
    BY MutateCalls
<1>7. ctl'.caller = ctl.caller /\ ctl'.desired = ctl.desired
    BY <1>t, <1>6, AfterCallType
<1>8. Known' = Known
    BY <1>1, <1>2, <1>7 DEF Known
<1>9. ResultNamed'
    <2>1. /\ ctl'.caller \in {"sync", "delete"}
          /\ ctl.desired.status.identifier = cr.status.identifier
        BY <1>2, <1>7, <1>t DEF IdentifierInv
    <2>2. ctl'.pc = "patchSpec" => ctl'.caller = "sync"
        BY <2>1, <1>t DEF CallerInv
    <2>3. ctl'.pc = "patchSpec" => ctl'.latest.status.identifier = cr'.status.identifier
        BY <2>2, <1>t DEF IdentifierInv
    <2> QED
        BY <1>1, <1>2, <2>1, <2>3 DEF ResultNamed
<1>10. Id = Known
    BY <1>2, <1>t DEF Id, Known, IdentifierInv
<1> QED
    BY <1>1, <1>2, <1>3, <1>4, <1>5, <1>7, <1>8, <1>9, <1>10

\* Nor does it see the calls of an update.
LEMMA UpdateUnseen ==
    ASSUME WorkerInv, WorkerInv', ContractInv,
           TagResource \/ UntagResource \/ SyncPolicy \/ UpdateCluster
    PROVE  ContractInv' /\ UNCHANGED Contract!vars
    BY UpdateKeeps, Unseen

\* A served CreateCluster provides the cluster; any other answer is not seen.
LEMMA CreateProvisions ==
    ASSUME Quiet, WorkerInv, WorkerInv', LiveInv, ContractInv, CreateCluster
    PROVE  ContractInv' /\ [Contract!Next]_(Contract!vars)
<1>t. /\ TypeOK /\ ServiceTypeOK /\ ctl \in Controller /\ cr \in CustomResource
      /\ CallerInv /\ ctl.desired \in Resource
    BY SubjectType DEF WorkerInv, TypeOK
<1> DEFINE spec    == ctl.desired.spec
           verdict == CreateVerdict(spec)
<1>1. PICK fate \in Fates :
         /\ Effect(fate, verdict, AfterCreate(spec))
         /\ ctl' = IF Answer(fate, verdict) = "none"
                   THEN StartRead([ctl EXCEPT !.latest = OnSuccess(
                           Created(ctl.desired, NextId, NewCluster(spec)))], "created")
                   ELSE [Fail(ctl, ctl.desired, Answer(fate, verdict)) EXCEPT !.pc = "unmanage"]
    BY DEF CreateCluster
<1>2. /\ cr' = cr /\ cr.exists /\ ctl.caller = "sync" /\ spec \in ClusterSpec
      /\ spent'.drifts = spent.drifts
      /\ \A i \in Ids : ~Live(i)
    BY <1>t, SpendKeepsDrifts DEF CreateCluster, CallerInv, LiveInv, Held, Resource
<1>3. fate \in {"served", "dropped"}
    BY DEF Quiet, Fates
<1>4. CASE Answer(fate, verdict) = "none"
    <2> DEFINE made == [ctl EXCEPT !.latest = OnSuccess(
                              Created(ctl.desired, NextId, NewCluster(spec)))]
    <2>1. /\ fate = "served" /\ verdict = "none" /\ NextId \in Ids
          /\ aws[NextId].status = "absent"
        BY <1>4, NextIdType DEF Answer
    <2>2. aws' = [aws EXCEPT ![NextId] = NewCluster(spec)]
        BY <1>1, <2>1 DEF Effect, AfterCreate
    <2>3. \A i \in Ids : aws'[i].status = IF i = NextId THEN "CREATING" ELSE aws[i].status
        BY <1>t, <1>2, <2>1, <2>2, NewClusterType DEF ServiceTypeOK
    <2>4. \A i \in Ids : Live(i)' <=> i = NextId
        BY <1>2, <2>3 DEF Live, Deleted, Gone
    <2>5. Unused' = Unused \ {NextId} /\ NextId \in Unused
        BY <2>1, <2>3 DEF Unused
    <2>6. {i \in Ids : Live(i)} = {} /\ {i \in Ids : Live(i)}' = {NextId}
        BY <1>2, <2>1, <2>4
    <2>7. Contract!Provision
        BY <1>2, <2>5, <2>6 DEF Contract!Provision
    <2>8. /\ Created(ctl.desired, NextId, NewCluster(spec)) \in Resource
          /\ Created(ctl.desired, NextId, NewCluster(spec)).status.identifier = NextId
        BY <1>t, <1>2, <2>1, NewClusterType, CreatedType DEF Statuses
    <2>9. made \in Controller /\ made.latest.status.identifier = NextId
        BY <1>t, <2>8, ConditionsType DEF Controller
    <2>10. ctl' = StartRead(made, "created")
        BY <1>1, <1>4
    <2> HIDE DEF made
    <2>11. ctl'.caller = "created" /\ ctl'.latest.status.identifier = NextId
        BY <2>9, <2>10, StartReadType
    <2>12. Known' = NextId /\ NextId # Nil
        BY <2>1, <2>11, ResourceAssumption DEF Known, Ids
    <2>13. ContractInv'
        BY <1>2, <2>3, <2>11, <2>12 DEF ContractInv, ResultNamed, Issued
    <2> QED
        BY <2>7, <2>13 DEF Contract!Next
<1>5. CASE Answer(fate, verdict) # "none"
    <2>1. aws' = aws
        BY <1>1, <1>3, <1>5 DEF Effect, Answer
    <2> DEFINE failed == Fail(ctl, ctl.desired, Answer(fate, verdict))
    <2>2. failed \in Controller /\ failed.caller = "sync"
        BY <1>t, <1>2, FailType
    <2>3. ctl' = [failed EXCEPT !.pc = "unmanage"]
        BY <1>1, <1>5
    <2> HIDE DEF failed
    <2>4. ctl'.pc = "unmanage" /\ ctl'.caller = "sync"
        BY <2>2, <2>3 DEF Controller
    <2>5. Known' = Known /\ ResultNamed'
        BY <1>2, <2>4 DEF Known, ResultNamed
    <2> QED
        BY <1>2, <2>1, <2>4, <2>5, Unseen, SameIsUnmoved
<1> QED
    BY <1>4, <1>5

\* A served DeleteCluster retires the cluster, of a resource that is being deleted.
LEMMA DeleteRetires ==
    ASSUME Quiet, WorkerInv, WorkerInv', LiveInv, ContractInv, DeleteCluster
    PROVE  ContractInv' /\ [Contract!Next]_(Contract!vars)
<1>t. /\ TypeOK /\ ServiceTypeOK /\ ctl \in Controller
      /\ CallerInv /\ IdentifierInv
      /\ ctl.desired \in Resource /\ ctl.latest \in Resource
    BY SubjectType DEF WorkerInv, TypeOK
<1>1. PICK fate \in Fates :
         /\ Effect(fate, DeleteVerdict(Id), AfterDelete(Id))
         /\ ctl' = IF Answer(fate, DeleteVerdict(Id)) = "none"
                   THEN [ctl EXCEPT !.pc = "unmanage"]
                   ELSE Fail(ctl, ctl.latest, Answer(fate, DeleteVerdict(Id)))
    BY DEF DeleteCluster
<1>2. /\ cr' = cr /\ ctl.pc = "delete" /\ ctl.caller = "delete" /\ cr.deleting
      /\ Id = cr.status.identifier /\ Id # Nil
      /\ spent'.drifts = spent.drifts
    BY <1>t, SpendKeepsDrifts DEF DeleteCluster, CallerInv, IdentifierInv, ContractInv, Id
<1>3. fate \in {"served", "dropped"} /\ Id \in Ids
    BY <1>t, <1>2, StatusType DEF Quiet, Fates, Id
<1>4. ctl'.caller = "delete" /\ ctl'.pc # "patchSpec"
    BY <1>t, <1>1, <1>2, FailType DEF Controller
<1>5. Known' = Known /\ ResultNamed'
    BY <1>2, <1>4 DEF Known, ResultNamed
<1>6. CASE aws' = aws
    BY <1>2, <1>4, <1>5, <1>6, Unseen, SameIsUnmoved
<1>7. CASE aws' # aws
    <2>1. aws' = AfterDelete(Id) /\ DeleteVerdict(Id) = "none"
        BY <1>1, <1>7 DEF Effect
    <2>2. HandsOutNone(aws, aws')
        BY <1>t, <1>3, <2>1, DeleteHandsOutNone
    <2>3. Live(Id)
        BY <2>1 DEF DeleteVerdict, MutateVerdict, Busy, Found, Live
    <2>4. cr.exists /\ \A i \in Ids : Live(i) => i = Id
        BY <1>2, <1>3, <2>3 DEF LiveInv, Held
    <2>5. Tamer(aws, aws')
        BY <1>t, <1>3, <2>1, DeleteIsTame
    <2>6. \A i \in Ids : i = Id => ~Live(i)'
        BY <1>t, <1>3, <2>1 DEF AfterDelete, Live, Deleted, ServiceTypeOK, Cluster
    <2>0. \A i \in Ids : ~Live(i)'
        BY <2>4, <2>5, <2>6, TameLive
    <2>7. {i \in Ids : Live(i)} # {} /\ {i \in Ids : Live(i)}' = {}
        BY <1>3, <2>3, <2>0
    <2>8. Unused' = Unused
        BY <2>2 DEF HandsOutNone, Unused
    <2>9. Contract!Retire
        BY <1>2, <2>4, <2>7, <2>8 DEF Contract!Retire
    <2>10. ContractInv'
        BY <1>2, <1>5, <2>2 DEF ContractInv, Issued, HandsOutNone
    <2> QED
        BY <2>9, <2>10 DEF Contract!Next
<1> QED
    BY <1>6, <1>7

\* What others do to the account is an intervention.
LEMMA DriftIntervenes ==
    ASSUME WorkerInv, WorkerInv', LiveInv, ContractInv, NEW id \in Ids, ServiceDrifts(id)
    PROVE  ContractInv' /\ [Contract!Next]_(Contract!vars)
<1>t. TypeOK /\ ServiceTypeOK
    BY DEF WorkerInv, TypeOK
<1>1. /\ Drift(id) /\ cr' = cr /\ ctl' = ctl
      /\ spent'.drifts = spent.drifts + 1
    BY <1>t DEF ServiceDrifts, TypeOK
<1>2. HandsOutNone(aws, aws') /\ Tamer(aws, aws')
    BY <1>t, <1>1, DriftHandsOutNone, ServiceIsTame
<1>3. Unused' = Unused
    BY <1>2 DEF HandsOutNone, Unused
<1>4. {i \in Ids : Live(i)}' \in {{i \in Ids : Live(i)}, {}}
    BY <1>2, LiveOrNone
<1>5. Contract!Intervene
    BY <1>1, <1>3, <1>4 DEF Contract!Intervene
<1>6. ContractInv'
    BY <1>1, <1>2 DEF ContractInv, ResultNamed, Known, Issued, HandsOutNone
<1> QED
    BY <1>5, <1>6 DEF Contract!Next

\* The resource goes when its finalizer does, or at once when it has none.
LEMMA ResourceLeaves ==
    ASSUME WorkerInv, WorkerInv', LiveInv, LiveInv', ContractInv, DeleteCR \/ Unmanage
    PROVE  ContractInv' /\ [Contract!Next]_(Contract!vars)
<1>t. /\ TypeOK /\ ctl \in Controller /\ cr \in CustomResource /\ CallerInv
    BY DEF WorkerInv, TypeOK
<1>1. /\ aws' = aws /\ spent' = spent /\ cr'.status = cr.status
      /\ cr.deleting => cr'.deleting
    BY <1>t DEF DeleteCR, Unmanage, CustomResource
<1>2. /\ {i \in Ids : Live(i)}' = {i \in Ids : Live(i)} /\ Unused' = Unused
      /\ \A i \in Ids : Live(i)' <=> Live(i)
    BY <1>1 DEF Live, Unused
<1>3. /\ Known' = Known /\ ResultNamed'
      /\ ctl'.caller = "delete" => ctl.caller = "delete"
    <2>1. CASE DeleteCR
        BY <1>1, <2>1 DEF DeleteCR, Known, ResultNamed, ContractInv
    <2>2. CASE Unmanage
        <3>1. ctl.caller \in {"sync", "delete"} /\ ctl'.caller \in {"none", "sync"}
            BY <1>t, <2>2 DEF Unmanage, CallerInv, IdleCtl, Controller
        <3>2. ctl'.pc # "patchSpec"
            BY <1>t, <2>2 DEF Unmanage, IdleCtl, Controller
        <3> QED
            BY <1>1, <3>1, <3>2 DEF Known, ResultNamed
    <2> QED
        BY <2>1, <2>2
<1>4. ContractInv'
    BY <1>1, <1>3 DEF ContractInv, Issued
<1>5. CASE cr'.exists = cr.exists /\ cr'.deleting = cr.deleting
    BY <1>1, <1>2, <1>4, <1>5 DEF Contract!vars
<1>6. CASE cr.exists /\ cr'.exists /\ cr'.deleting # cr.deleting
    <2>1. ~cr.deleting /\ cr'.deleting
        BY <1>t, <1>6 DEF DeleteCR, Unmanage, CustomResource
    <2>2. Contract!Leave
        BY <1>1, <1>2, <1>6, <2>1 DEF Contract!Leave
    <2> QED
        BY <1>4, <2>2 DEF Contract!Next
<1>7. CASE cr.exists /\ ~cr'.exists
    <2>1. \A i \in Ids : ~Live(i)
        BY <1>2, <1>7 DEF LiveInv, Held
    <2>2. {i \in Ids : Live(i)} = {}
        BY <2>1
    <2>3. Contract!Vanish
        BY <1>1, <1>2, <1>7, <2>2 DEF Contract!Vanish
    <2> QED
        BY <1>4, <2>3 DEF Contract!Next
<1>8. \/ cr'.exists = cr.exists /\ cr'.deleting = cr.deleting
      \/ cr.exists /\ cr'.exists /\ cr'.deleting # cr.deleting
      \/ cr.exists /\ ~cr'.exists
    BY <1>t DEF DeleteCR, Unmanage, CustomResource
<1> QED
    BY <1>5, <1>6, <1>7, <1>8

\* A published result shows its identifier, and none is replaced while it is live.
LEMMA PublishReports ==
    ASSUME WorkerInv, WorkerInv', LiveInv, ContractInv, Publish
    PROVE  ContractInv' /\ [Contract!Next]_(Contract!vars)
<1>t. /\ TypeOK /\ ctl \in Controller /\ cr \in CustomResource
      /\ CallerInv /\ IdentifierInv /\ ctl.latest \in Resource
    BY SubjectType DEF WorkerInv, TypeOK
<1> DEFINE status == [ctl.latest.status EXCEPT !.synced = ctl.result = "done"
                                                          /\ IsSynced(ctl.latest)]
<1>1. /\ ctl.pc = "publish" /\ ctl.caller # "none" /\ ctl'.caller = "none"
      /\ ctl'.pc = "idle" /\ aws' = aws /\ spent' = spent
      /\ cr' = IF cr.exists THEN [cr EXCEPT !.status = status] ELSE cr
    BY <1>t DEF Publish, CallerInv, IdleCtl
<1>2. Known = ctl.latest.status.identifier
    BY <1>t, <1>1 DEF Known, IdentifierInv, Controller
<1>3. {i \in Ids : Live(i)}' = {i \in Ids : Live(i)} /\ Unused' = Unused
    BY <1>1 DEF Live, Unused
<1>4. status.identifier = ctl.latest.status.identifier
    BY <1>t, StatusType DEF ClusterStatus
<1> HIDE DEF status
<1>5. /\ cr'.exists = cr.exists /\ cr'.deleting = cr.deleting
      /\ cr'.status.identifier = IF cr.exists THEN Known ELSE cr.status.identifier
    BY <1>t, <1>1, <1>2, <1>4 DEF CustomResource
<1>6. Known' = cr'.status.identifier
    BY <1>1 DEF Known
<1>7. ContractInv'
    BY <1>1, <1>5, <1>6 DEF ContractInv, ResultNamed, Issued
<1>8. CASE cr'.status.identifier = cr.status.identifier
    BY <1>1, <1>3, <1>5, <1>7, <1>8 DEF Contract!vars
<1>9. CASE cr'.status.identifier # cr.status.identifier
    <2>1. cr.exists /\ cr'.status.identifier = Known
        BY <1>5, <1>9
    <2>2. ctl.caller \in {"created", "lateInit"}
        BY <1>9, <2>1 DEF Known
    <2>3. Known # Nil /\ Known \in Ids
        BY <1>2, <1>t, <2>2, StatusType DEF ContractInv, ResultNamed
    <2>4. Known \in Ids \ Unused
        BY <2>3 DEF ContractInv, Issued, Unused
    <2>5. cr.status.identifier \notin {i \in Ids : Live(i)}
        BY <1>9, <2>1 DEF LiveInv, Held
    <2>6. Contract!Report
        BY <1>1, <1>3, <1>5, <2>1, <2>4, <2>5 DEF Contract!Report
    <2> QED
        BY <1>7, <2>6 DEF Contract!Next
<1> QED
    BY <1>8, <1>9

\* The steps of the worker and the user that leave the account alone and change
\* neither the identifier nor the existence of the resource.
LEMMA QuietKeep ==
    ASSUME WorkerInv, WorkerInv', ContractInv,
           UNCHANGED vars \/ Start \/ Manage \/ PatchSpec \/ Resync \/ EditSpec
    PROVE  /\ aws' = aws /\ spent'.drifts = spent.drifts
           /\ cr'.exists = cr.exists /\ cr'.deleting = cr.deleting /\ cr'.status = cr.status
           /\ Known' = Known /\ ResultNamed'
           /\ ctl'.caller = "delete" => ctl.caller = "delete" \/ cr.deleting
<1>t. /\ TypeOK /\ ctl \in Controller /\ cr \in CustomResource
      /\ CallerInv /\ IdentifierInv /\ ctl.latest \in Resource
    BY SubjectType DEF WorkerInv, TypeOK
<1>1. /\ aws' = aws /\ spent'.drifts = spent.drifts
      /\ cr'.exists = cr.exists /\ cr'.deleting = cr.deleting /\ cr'.status = cr.status
    BY <1>t DEF vars, Start, Manage, PatchSpec, Resync, EditSpec, TypeOK, CustomResource
<1>2. /\ Known' = Known /\ ResultNamed'
      /\ ctl'.caller = "delete" => ctl.caller = "delete" \/ cr.deleting
    <2>1. CASE UNCHANGED vars \/ Resync \/ EditSpec
        <3>1. ctl' = ctl
            BY <2>1 DEF vars, Resync, EditSpec
        <3> QED
            BY <1>1, <3>1 DEF Known, ResultNamed, ContractInv
    <2>2. CASE Start
        <3>1. ctl.caller = "none"
            BY <1>t, <2>2 DEF Start, CallerInv
        <3>2. \/ ctl' = ctl
              \/ /\ ctl'.pc = "getCluster" /\ ctl'.caller \in {"sync", "delete"}
                 /\ ctl'.caller = "delete" => cr.deleting
            BY <2>2 DEF Start, StartRead, IdleCtl
        <3> QED
            BY <1>1, <3>1, <3>2 DEF Known, ResultNamed, ContractInv
    <2>3. CASE Manage
        <3>1. ctl.caller = "sync" /\ ctl'.caller \in {"sync", "none"} /\ ctl'.pc # "patchSpec"
            BY <1>t, <2>3 DEF Manage, CallerInv, IdleCtl, Controller
        <3> QED
            BY <1>1, <3>1 DEF Known, ResultNamed
    <2>4. CASE PatchSpec
        <3> DEFINE taken == [ctl EXCEPT !.desired = ctl.latest]
        <3>1. taken \in Controller /\ taken.latest = ctl.latest /\ taken.caller = ctl.caller
            BY <1>t DEF Controller
        <3>2. ctl' = IF ctl.caller = "lateInit"
                     THEN [taken EXCEPT !.pc = "publish", !.result = "done"]
                     ELSE StartRead(taken, "lateInit")
            BY <2>4 DEF PatchSpec
        <3> HIDE DEF taken
        <3>3. ctl'.caller = "lateInit" /\ ctl'.latest = ctl.latest
            BY <3>1, <3>2, StartReadType DEF Controller
        <3>4. Known = ctl.latest.status.identifier /\ ctl.pc = "patchSpec"
            BY <1>t, <2>4 DEF PatchSpec, Known, CallerInv, IdentifierInv
        <3> QED
            BY <3>3, <3>4 DEF Known, ResultNamed, ContractInv
    <2> QED
        BY <2>1, <2>2, <2>3, <2>4
<1> QED
    BY <1>1, <1>2

\* Nor the steps between, nor what the user writes into the spec.
LEMMA QuietSteps ==
    ASSUME WorkerInv, WorkerInv', ContractInv,
           UNCHANGED vars \/ Start \/ Manage \/ PatchSpec \/ Resync \/ EditSpec
    PROVE  ContractInv' /\ UNCHANGED Contract!vars
    BY QuietKeep, Unseen, SameIsUnmoved

\* What the service does on its own.
LEMMA ServiceUnseen ==
    ASSUME WorkerInv, ContractInv, NEW id \in Ids, ServiceSettles(id) \/ ServiceIdles(id)
    PROVE  ContractInv' /\ UNCHANGED Contract!vars
<1>1. Unmoved(aws, aws')
    BY ServiceIsUnmoved DEF ServiceSettles, ServiceIdles, WorkerInv, TypeOK
<1>2. cr' = cr /\ ctl' = ctl /\ spent' = spent
    BY DEF ServiceSettles, ServiceIdles
<1>3. Known' = Known /\ ResultNamed'
    BY <1>2 DEF Known, ResultNamed, ContractInv
<1> QED
    BY <1>1, <1>2, <1>3, Unseen

\* Every step of a quiet run is a step of the contract, or is not seen by it.
LEMMA ContractStep ==
    Quiet /\ IndInv /\ IndInv' /\ ContractInv /\ [Next]_vars
        => ContractInv' /\ [Contract!Next]_(Contract!vars)
<1> SUFFICES ASSUME Quiet, WorkerInv, LiveInv, WorkerInv', LiveInv', ContractInv, [Next]_vars
             PROVE  ContractInv' /\ [Contract!Next]_(Contract!vars)
    BY DEF IndInv
<1>1. CASE UNCHANGED vars \/ Start \/ Manage \/ PatchSpec \/ Resync \/ EditSpec
    BY <1>1, QuietSteps
<1>2. CASE GetCluster \/ GetClusterPolicy
    BY <1>2, ReadUnseen
<1>3. CASE TagResource \/ UntagResource \/ SyncPolicy \/ UpdateCluster
    BY <1>3, UpdateUnseen
<1>4. CASE CreateCluster
    BY <1>4, CreateProvisions
<1>5. CASE DeleteCluster
    BY <1>5, DeleteRetires
<1>6. CASE DeleteCR \/ Unmanage
    BY <1>6, ResourceLeaves
<1>7. CASE Publish
    BY <1>7, PublishReports
<1>8. CASE Crash
    BY <1>8 DEF Crash, WorkerInv, TypeOK, Quiet
<1>9. ASSUME NEW id \in Ids, ServiceSettles(id) \/ ServiceIdles(id)
      PROVE  ContractInv' /\ [Contract!Next]_(Contract!vars)
    BY <1>9, ServiceUnseen
<1>10. ASSUME NEW id \in Ids, ServiceDrifts(id)
       PROVE  ContractInv' /\ [Contract!Next]_(Contract!vars)
    BY <1>10, DriftIntervenes
<1> QED
    BY <1>1, <1>2, <1>3, <1>4, <1>5, <1>6, <1>7, <1>8, <1>9, <1>10 DEF Next, Work

-----------------------------------------------------------------------------
(* The invariant by itself, whatever is lost and whenever the process stops *)

\* CreateCluster: an identifier that comes back was handed out.
LEMMA CreateIssues ==
    ASSUME WorkerInv, WorkerInv', ContractInv, CreateCluster
    PROVE  ContractInv'
<1>t. /\ TypeOK /\ ServiceTypeOK /\ ctl \in Controller /\ CallerInv /\ ctl.desired \in Resource
    BY SubjectType DEF WorkerInv, TypeOK
<1> DEFINE spec    == ctl.desired.spec
           verdict == CreateVerdict(spec)
           new     == NewCluster(spec)
           created == Created(ctl.desired, NextId, new)
           made    == [ctl EXCEPT !.latest = OnSuccess(created)]
<1>1. PICK fate \in Fates :
         /\ Effect(fate, verdict, AfterCreate(spec))
         /\ ctl' = IF Answer(fate, verdict) = "none" THEN StartRead(made, "created")
                   ELSE [Fail(ctl, ctl.desired, Answer(fate, verdict)) EXCEPT !.pc = "unmanage"]
    BY DEF CreateCluster
<1>2. /\ cr' = cr /\ ctl.caller = "sync" /\ spec \in ClusterSpec
    BY <1>t DEF CreateCluster, CallerInv, Resource
<1>3. \/ aws' = aws
      \/ /\ verdict = "none" /\ NextId \in Ids
         /\ aws' = [aws EXCEPT ![NextId] = new]
    BY <1>1, NextIdType DEF Effect, AfterCreate
<1>4. new \in Cluster /\ new.status = "CREATING"
    BY <1>2, NewClusterType
<1> HIDE DEF new
<1>5. \A id \in Ids : aws[id].status # "absent" => aws'[id].status # "absent"
    BY <1>t, <1>3, <1>4 DEF ServiceTypeOK
<1>6. CASE Answer(fate, verdict) # "none"
    <2> DEFINE failed == Fail(ctl, ctl.desired, Answer(fate, verdict))
    <2>1. failed \in Controller /\ failed.caller = "sync"
        BY <1>t, <1>2, FailType
    <2>2. ctl' = [failed EXCEPT !.pc = "unmanage"]
        BY <1>1, <1>6
    <2> HIDE DEF failed
    <2>3. ctl'.pc = "unmanage" /\ ctl'.caller = "sync"
        BY <2>1, <2>2 DEF Controller
    <2>4. Known' = Known
        BY <1>2, <2>3 DEF Known
    <2> QED
        BY <1>2, <1>5, <2>3, <2>4 DEF ContractInv, ResultNamed, Issued
<1>7. CASE Answer(fate, verdict) = "none"
    <2>1. /\ fate = "served" /\ verdict = "none" /\ NextId \in Ids /\ NextId # Nil
          /\ aws' = [aws EXCEPT ![NextId] = new]
        BY <1>1, <1>7, NextIdType, ResourceAssumption DEF Answer, Effect, AfterCreate, new, Ids
    <2>2. aws'[NextId].status = "CREATING"
        BY <1>t, <1>4, <2>1 DEF ServiceTypeOK
    <2>3. created \in Resource /\ created.status.identifier = NextId
        BY <1>t, <1>4, <2>1, CreatedType DEF Statuses
    <2> HIDE DEF created
    <2>4. made \in Controller /\ made.latest.status.identifier = NextId
        BY <1>t, <2>3, ConditionsType DEF Controller
    <2>5. ctl' = StartRead(made, "created")
        BY <1>1, <1>7
    <2> HIDE DEF made
    <2>6. ctl'.caller = "created" /\ ctl'.latest.status.identifier = NextId
        BY <2>4, <2>5, StartReadType
    <2>7. Known' = NextId
        BY <2>6 DEF Known
    <2> QED
        BY <1>2, <1>5, <2>1, <2>2, <2>6, <2>7 DEF ContractInv, ResultNamed, Issued
<1> QED
    BY <1>6, <1>7

\* DeleteCluster hands out none, whether it was served or not.
LEMMA DeleteIssues ==
    ASSUME WorkerInv, WorkerInv', ContractInv, DeleteCluster
    PROVE  ContractInv'
<1>t. /\ TypeOK /\ ServiceTypeOK /\ ctl \in Controller /\ CallerInv /\ IdentifierInv
      /\ ctl.latest \in Resource /\ ctl.desired \in Resource
    BY SubjectType DEF WorkerInv, TypeOK
<1>1. PICK fate \in Fates :
         /\ Effect(fate, DeleteVerdict(Id), AfterDelete(Id))
         /\ ctl' = IF Answer(fate, DeleteVerdict(Id)) = "none"
                   THEN [ctl EXCEPT !.pc = "unmanage"]
                   ELSE Fail(ctl, ctl.latest, Answer(fate, DeleteVerdict(Id)))
    BY DEF DeleteCluster
<1>2. /\ cr' = cr /\ ctl.caller = "delete" /\ cr.deleting /\ Id \in Ids
    BY <1>t, StatusType DEF DeleteCluster, CallerInv, IdentifierInv, ContractInv, Id
<1>3. ctl'.caller = "delete" /\ ctl'.pc \in {"unmanage", "publish"}
    BY <1>t, <1>1, <1>2, FailType DEF Controller
<1>4. HandsOutNone(aws, aws') /\ Known' = Known
    BY <1>t, <1>1, <1>2, <1>3, DeleteHandsOutNone DEF Effect, HandsOutNone, Known
<1> QED
    BY <1>2, <1>3, <1>4 DEF ContractInv, ResultNamed, Issued, HandsOutNone

\* The resource goes, its finalizer does, or the worker comes to rest.
LEMMA LeaveIssues ==
    ASSUME WorkerInv, WorkerInv', ContractInv, DeleteCR \/ Unmanage \/ Publish \/ Crash
    PROVE  ContractInv'
<1>t. /\ TypeOK /\ ctl \in Controller /\ cr \in CustomResource /\ CallerInv /\ IdentifierInv
      /\ ctl.latest \in Resource
    BY SubjectType DEF WorkerInv, TypeOK
<1>1. CASE DeleteCR \/ Unmanage
    <2>1. /\ aws' = aws /\ cr'.status = cr.status /\ (cr.deleting => cr'.deleting)
        BY <1>t, <1>1 DEF DeleteCR, Unmanage, CustomResource
    <2>2. \/ ctl' = ctl
          \/ /\ ctl.caller \in {"sync", "delete"} /\ ctl'.caller \in {"none", "sync"}
             /\ ctl'.pc \in {"idle", "publish"}
        BY <1>t, <1>1 DEF DeleteCR, Unmanage, CallerInv, IdleCtl, Controller
    <2> QED
        BY <2>1, <2>2 DEF ContractInv, ResultNamed, Issued, Known
<1>2. CASE Crash
    <2>1. aws' = aws /\ cr' = cr /\ ctl'.caller = "none" /\ ctl'.pc = "idle"
        BY <1>2 DEF Crash, IdleCtl
    <2> QED
        BY <2>1 DEF ContractInv, ResultNamed, Issued, Known
<1>3. CASE Publish
    <2> DEFINE status == [ctl.latest.status EXCEPT !.synced = ctl.result = "done"
                                                              /\ IsSynced(ctl.latest)]
    <2>1. /\ ctl.pc = "publish" /\ ctl.caller # "none" /\ aws' = aws
          /\ ctl'.caller = "none" /\ ctl'.pc = "idle"
          /\ cr' = IF cr.exists THEN [cr EXCEPT !.status = status] ELSE cr
        BY <1>t, <1>3 DEF Publish, CallerInv, IdleCtl
    <2>2. Known = ctl.latest.status.identifier
        BY <1>t, <2>1 DEF Known, IdentifierInv, Controller
    <2>3. status.identifier = ctl.latest.status.identifier
        BY <1>t, StatusType DEF ClusterStatus
    <2> HIDE DEF status
    <2>4. /\ cr'.deleting = cr.deleting
          /\ cr'.status.identifier \in {Known, cr.status.identifier}
        BY <1>t, <2>1, <2>2, <2>3 DEF CustomResource
    <2> QED
        BY <2>1, <2>4 DEF ContractInv, ResultNamed, Issued, Known
<1> QED
    BY <1>1, <1>2, <1>3

\* Every step keeps the invariant.
LEMMA IssuedStep == WorkerInv /\ WorkerInv' /\ ContractInv /\ [Next]_vars => ContractInv'
<1> SUFFICES ASSUME WorkerInv, WorkerInv', ContractInv, [Next]_vars
             PROVE  ContractInv'
    OBVIOUS
<1>1. CASE UNCHANGED vars \/ Start \/ Manage \/ PatchSpec \/ Resync \/ EditSpec
    BY <1>1, QuietSteps
<1>2. CASE GetCluster \/ GetClusterPolicy
    BY <1>2, ReadUnseen
<1>3. CASE TagResource \/ UntagResource \/ SyncPolicy \/ UpdateCluster
    BY <1>3, UpdateUnseen
<1>4. CASE CreateCluster
    BY <1>4, CreateIssues
<1>5. CASE DeleteCluster
    BY <1>5, DeleteIssues
<1>6. CASE DeleteCR \/ Unmanage \/ Publish \/ Crash
    BY <1>6, LeaveIssues
<1>7. ASSUME NEW id \in Ids, ServiceSettles(id) \/ ServiceIdles(id)
      PROVE  ContractInv'
    BY <1>7, ServiceUnseen
<1>8. ASSUME NEW id \in Ids, ServiceDrifts(id)
      PROVE  ContractInv'
    <2>1. /\ HandsOutNone(aws, aws') /\ cr' = cr /\ ctl' = ctl
        BY <1>8, DriftHandsOutNone DEF ServiceDrifts, WorkerInv, TypeOK
    <2> QED
        BY <2>1 DEF ContractInv, ResultNamed, Known, Issued, HandsOutNone
<1> QED
    BY <1>1, <1>2, <1>3, <1>4, <1>5, <1>6, <1>7, <1>8 DEF Next, Work

\* At the start there is a resource and no cluster.
LEMMA ContractInit == Init => ContractInv /\ Contract!Init
<1> SUFFICES ASSUME Init
             PROVE  ContractInv /\ Contract!Init
    OBVIOUS
<1>1. /\ cr.exists /\ ~cr.deleting /\ cr.status.identifier = Nil /\ spent.drifts = 0
      /\ ctl.caller = "none" /\ ctl.pc = "idle"
      /\ \A id \in Ids : aws[id].status = "absent"
    BY DEF Init, ServiceInit, NoCluster, BlankStatus, IdleCtl
<1>2. {id \in Ids : Live(id)} = {} /\ Unused = Ids
    BY <1>1 DEF Live, Gone, Unused
<1>3. Contract!Init
    BY <1>1, <1>2 DEF Contract!Init
<1>4. ContractInv
    BY <1>1, ResourceAssumption DEF ContractInv, ResultNamed, Issued, Known, Ids
<1> QED
    BY <1>3, <1>4

\* The invariant holds in every state.
LEMMA ContractInvariant == Spec => [](WorkerInv /\ ContractInv)
<1>1. Init => WorkerInv /\ ContractInv
    BY WorkerInit, ContractInit
<1>2. WorkerInv /\ ContractInv /\ [Next]_vars => WorkerInv' /\ ContractInv'
    BY WorkerStep, IssuedStep
<1> QED
    BY <1>1, <1>2, PTL DEF Spec

\* The contract is kept: if the answers of AWS arrive and the process does not stop
\* between two calls, ClusterReconcile implements ClusterContract.
THEOREM ContractKept == ~LostReplies /\ MaxCrashes = 0 => (Spec => ImplementsContract)
<1> SUFFICES ASSUME ~LostReplies, MaxCrashes = 0
             PROVE  Spec => ImplementsContract
    OBVIOUS
<1>1. Quiet
    BY DEF Quiet
<1>2. Spec => []IndInv
    BY <1>1, QuietInvariant
<1>3. Init => ContractInv /\ Contract!Init
    BY ContractInit
<1>4. IndInv /\ IndInv' /\ ContractInv /\ [Next]_vars
          => ContractInv' /\ [Contract!Next]_(Contract!vars)
    BY <1>1, ContractStep
<1> QED
    BY <1>2, <1>3, <1>4, PTL DEF Spec, ImplementsContract, Contract!Spec
=============================================================================
