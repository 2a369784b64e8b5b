--------------------------- MODULE ProtectionProofs ---------------------------
(***************************************************************************)
(* Proof that a deletion honours deletion protection: unless others switch *)
(* the protection of a cluster in the course of the attempt, none is       *)
(* deleted for a custom resource that was read with deletion protection    *)
(* on, whatever else others change or delete, whatever answers are lost    *)
(* and wherever the process stops.                                         *)
(***************************************************************************)
EXTENDS AppliedProofs

\* From the read on, what a deletion has of the protection is what the cluster
\* has, or the update of the cluster is still to come.
Guarded(c, cluster) ==
    c.caller = "delete" =>
        /\ c.pc = "getPolicy" =>
              c.observed.spec.deletionProtection = cluster.deletionProtection
        /\ c.pc = "mutate" =>
              \/ "cluster" \in c.todo
              \/ c.desired.spec.deletionProtection \in {Nil, cluster.deletionProtection}
        /\ c.pc = "delete" =>
              c.desired.spec.deletionProtection \in {Nil, cluster.deletionProtection}

GuardInv == \A id \in Ids : id = Known /\ Live(id) => Guarded(ctl, aws[id])

\* It is what the cluster has unless others have switched it in this attempt.
ProtectionInv == met \subseteq Marks /\ ("deletionProtection" \in met \/ GuardInv)

-----------------------------------------------------------------------------
(* The worker *)

\* A read leads to the deletion only if the protection is as it was read.
LEMMA ReadGuarded ==
    ASSUME NEW c \in Controller, NEW o \in Resource, NEW cluster, c.caller = "delete",
           o.spec.deletionProtection = cluster.deletionProtection
    PROVE  Guarded(AfterDeleteRead(c, o), cluster)
<1> DEFINE current == MirrorAWSTags(c.desired, o)
           delta   == NewResourceDeltaForPreDelete(current, o)
           merged  == PreDeleteMerge(current, o)
           read    == [c EXCEPT !.desired = merged, !.latest = o]
           after   == AfterDeleteRead(c, o)
<1>1. /\ merged \in Resource
      /\ merged.spec.deletionProtection = current.spec.deletionProtection
    <2>1. current \in Resource /\ merged \in Resource
        BY SubjectType, MirrorType, PreDeleteMergeType
    <2> HIDE DEF current
    <2> QED
        BY <2>1 DEF PreDeleteMerge, Resource, ClusterSpec
<1>2. after = IF delta = {} THEN [read EXCEPT !.pc = "delete"] ELSE BeginUpdate(read, delta)
    BY DEF AfterDeleteRead
<1>3. /\ delta = {} => current.spec.deletionProtection = o.spec.deletionProtection
      /\ delta # {} => delta = {"deletionProtection"}
    BY DEF NewResourceDeltaForPreDelete
<1> HIDE DEF current, delta, merged
<1>4. /\ read \in Controller /\ read.desired = merged /\ read.latest = o
      /\ read.caller = "delete"
    BY <1>1 DEF Controller
<1> HIDE DEF read
<1>5. CASE delta = {}
    <2>1. after.pc = "delete" /\ after.desired = merged
        BY <1>2, <1>4, <1>5 DEF Controller
    <2> HIDE DEF after
    <2>2. Guarded(after, cluster)
        BY <1>1, <1>3, <1>5, <2>1 DEF Guarded
    <2> QED
        BY <2>2 DEF after
<1>6. CASE delta # {} /\ RequeueIfTransitional(read.latest)
    <2>1. after.pc = "publish"
        BY <1>2, <1>4, <1>6, FailType, SubjectType DEF BeginUpdate
    <2> HIDE DEF after
    <2>2. Guarded(after, cluster)
        BY <2>1 DEF Guarded
    <2> QED
        BY <2>2 DEF after
<1>7. CASE delta # {} /\ ~RequeueIfTransitional(read.latest)
    <2> DEFINE calls == CallsFor(delta, read.desired, read.latest)
    <2>1. "cluster" \in calls
        BY <1>3, <1>7 DEF CallsFor
    <2>2. after = [read EXCEPT !.pc = "mutate", !.todo = calls]
        BY <1>2, <1>7 DEF BeginUpdate
    <2> HIDE DEF calls
    <2>3. after.pc = "mutate" /\ after.todo = calls
        BY <1>4, <2>2 DEF Controller
    <2> HIDE DEF after
    <2>4. Guarded(after, cluster)
        BY <2>1, <2>3 DEF Guarded
    <2> QED
        BY <2>4 DEF after
<1> QED
    BY <1>5, <1>6, <1>7

\* An update leads to the deletion only after its call for the cluster was served.
LEMMA CallGuarded ==
    ASSUME NEW c \in Controller, NEW err, NEW updated, NEW cluster,
           c.pc = "mutate", c.caller = "delete",
           err = "none" =>
              \/ "cluster" \in c.todo \ {NextCall(c)}
              \/ c.desired.spec.deletionProtection \in {Nil, cluster.deletionProtection}
    PROVE  Guarded(AfterCall(c, err, updated), cluster)
<1> DEFINE left  == c.todo \ {NextCall(c)}
           after == AfterCall(c, err, updated)
           ended == [c EXCEPT !.todo = {}]
<1>1. after = IF err # "none" THEN Fail(ended, c.latest, err)
              ELSE IF left # {} THEN [c EXCEPT !.todo = left]
              ELSE UpdateDone(ended, updated)
    BY DEF AfterCall
<1>2. left \in SUBSET Calls
    BY DEF Controller
<1> HIDE DEF left
<1>3. ended \in Controller /\ ended.desired = c.desired
    BY DEF Controller
<1>4. CASE err # "none"
    <2>1. after.pc = "publish"
        BY <1>1, <1>3, <1>4, FailType, SubjectType
    <2> HIDE DEF after
    <2>2. Guarded(after, cluster)
        BY <2>1 DEF Guarded
    <2> QED
        BY <2>2 DEF after
<1>5. CASE err = "none" /\ left # {}
    <2>1. after.pc = "mutate" /\ after.todo = left /\ after.desired = c.desired
        BY <1>1, <1>2, <1>5 DEF Controller
    <2> HIDE DEF after
    <2>2. Guarded(after, cluster)
        BY <1>5, <2>1 DEF Guarded, left
    <2> QED
        BY <2>2 DEF after
<1>6. CASE err = "none" /\ left = {}
    <2> DEFINE latest == OnSuccess(updated)
               pc     == IF ended.caller = "delete" THEN "delete" ELSE "patchSpec"
    <2>1. after = [ended EXCEPT !.pc = pc, !.latest = latest]
        BY <1>1, <1>6 DEF UpdateDone
    <2>2. pc \in {"delete", "patchSpec"}
        OBVIOUS
    <2> HIDE DEF latest, pc, ended
    <2>3. after.pc \in {"delete", "patchSpec"} /\ after.desired = c.desired
        BY <1>3, <2>1, <2>2 DEF Controller
    <2> HIDE DEF after
    <2>4. Guarded(after, cluster)
        BY <1>6, <2>3 DEF Guarded, left
    <2> QED
        BY <2>4 DEF after
<1> QED
    BY <1>4, <1>5, <1>6

-----------------------------------------------------------------------------
(* The steps *)

\* Where no deletion is between its read and its call there is nothing to guard.
LEMMA NothingToGuard ==
    ASSUME \/ ctl'.caller # "delete"
           \/ ctl'.pc \notin {"getPolicy", "mutate", "delete"}
    PROVE  GuardInv'
    BY DEF GuardInv, Guarded

\* The first request of a read shows the protection as it is.
LEMMA GetClusterGuarded ==
    ASSUME WorkerInv, WorkerInv', ContractInv, GetCluster
    PROVE  GuardInv'
<1>t. /\ TypeOK /\ ServiceTypeOK /\ ctl \in Controller /\ IdentifierInv
      /\ Subject(ctl) \in Resource
    BY SubjectType DEF WorkerInv, TypeOK
<1>1. /\ aws' = aws /\ Known' = Known /\ (ctl'.caller = "delete" <=> ctl.caller = "delete")
    BY <1>t, ReadKeeps
<1>2. SUFFICES ASSUME ctl.caller = "delete"
               PROVE  GuardInv'
    BY <1>1, NothingToGuard
<1>3. Subject(ctl).status.identifier = Known
    BY <1>t, <1>2 DEF Subject, Known, IdentifierInv
<1>4. ASSUME NEW err, ctl' = ReadFailed(ctl, err)
      PROVE  GuardInv'
    <2>1. ReadFailed(ctl, err).pc \in {"unmanage", "publish"}
        BY <1>t, <1>2, FailType, SubjectType DEF ReadFailed, Controller
    <2> QED
        BY <1>4, <2>1, NothingToGuard
<1>5. ASSUME Known # Nil,
             ctl' = [ctl EXCEPT !.pc       = "getPolicy",
                                !.observed = Observe(Subject(ctl), aws[Known])]
      PROVE  GuardInv'
    <2> DEFINE o == Observe(Subject(ctl), aws[Known])
    <2>1. o.spec.deletionProtection = aws[Known].deletionProtection
        BY <1>t DEF Observe, Resource, ClusterSpec
    <2> HIDE DEF o
    <2>2. ctl'.pc = "getPolicy" /\ ctl'.observed = o
        BY <1>t, <1>5 DEF Controller, o
    <2> QED
        BY <1>1, <2>1, <2>2 DEF GuardInv, Guarded
<1> QED
    BY <1>3, <1>4, <1>5 DEF GetCluster

\* The second one decides about an update or the deletion, by the protection just read.
LEMMA GetPolicyGuarded ==
    ASSUME WorkerInv, WorkerInv', ContractInv, GuardInv, GetClusterPolicy
    PROVE  GuardInv'
<1>t. /\ TypeOK /\ ServiceTypeOK /\ ctl \in Controller /\ IdentifierInv
      /\ ctl.observed \in Resource /\ Subject(ctl) \in Resource
    BY SubjectType DEF WorkerInv, TypeOK
<1>1. /\ aws' = aws /\ Known' = Known /\ (ctl'.caller = "delete" <=> ctl.caller = "delete")
    BY <1>t, ReadKeeps
<1>2. SUFFICES ASSUME ctl.caller = "delete"
               PROVE  GuardInv'
    BY <1>1, NothingToGuard
<1> DEFINE id == ctl.observed.status.identifier
<1>3. ctl.pc = "getPolicy" /\ id = Known /\ id \in Ids
    BY <1>t, <1>2, StatusType DEF GetClusterPolicy, IdentifierInv, Subject, Known
<1>4. PICK err, policy :
         /\ policy = IF err = "none" THEN aws[id].policy ELSE Nil
         /\ ctl' = IF err \in {"none", "notFound"}
                   THEN ReadDone(ctl, OnSuccess([ctl.observed EXCEPT !.spec.policy = policy]))
                   ELSE ReadFailed(ctl, err)
    BY DEF GetClusterPolicy
<1>5. CASE err \in {"none", "notFound"}
    <2> DEFINE seen == [ctl.observed EXCEPT !.spec.policy = policy]
               o    == OnSuccess(seen)
    <2>1. policy \in Policies \cup {Nil}
        BY <1>t, <1>3, <1>4, ClusterType DEF Cluster
    <2>2. /\ seen \in Resource
          /\ seen.spec.deletionProtection = ctl.observed.spec.deletionProtection
        BY <1>t, <2>1 DEF Resource, ClusterSpec
    <2> HIDE DEF seen
    <2>3. o \in Resource /\ o.spec = seen.spec
        BY <2>2, ConditionsType DEF OnSuccess, Resource
    <2>4. ctl' = AfterDeleteRead(ctl, o)
        BY <1>2, <1>4, <1>5 DEF ReadDone, seen
    <2> HIDE DEF o
    <2>5. Live(id) => o.spec.deletionProtection = aws[id].deletionProtection
        BY <1>2, <1>3, <2>2, <2>3 DEF GuardInv, Guarded
    <2>6. Live(id) => Guarded(ctl', aws[id])
        BY <1>t, <1>2, <2>3, <2>4, <2>5, ReadGuarded
    <2> QED
        BY <1>1, <1>3, <2>6 DEF GuardInv, Live
<1>6. CASE err \notin {"none", "notFound"}
    <2>1. ReadFailed(ctl, err).pc = "publish"
        BY <1>t, <1>2, <1>6, FailType, SubjectType DEF ReadFailed
    <2> QED
        BY <1>4, <1>6, <2>1, NothingToGuard
<1> QED
    BY <1>5, <1>6

\* The calls of an update other than UpdateCluster leave the protection as it is.
LEMMA ProtectionKept ==
    ASSUME ServiceTypeOK, NEW id \in Ids
    PROVE  /\ \A keys, tags : AfterTag(id, keys, tags)[id].deletionProtection
                                 = aws[id].deletionProtection
           /\ \A keys : AfterUntag(id, keys)[id].deletionProtection = aws[id].deletionProtection
           /\ \A policy : AfterPolicy(id, policy)[id].deletionProtection
                             = aws[id].deletionProtection
<1>1. ASSUME NEW keys, NEW tags
      PROVE  AfterTag(id, keys, tags)[id].deletionProtection = aws[id].deletionProtection
    <2> DEFINE new == [k \in TagKeys |-> IF k \in keys THEN tags[k] ELSE aws[id].tags[k]]
    <2>1. AfterTag(id, keys, tags) = [aws EXCEPT ![id].tags = new]
        BY DEF AfterTag
    <2> HIDE DEF new
    <2> QED
        BY <2>1 DEF ServiceTypeOK, Cluster
<1>2. ASSUME NEW keys
      PROVE  AfterUntag(id, keys)[id].deletionProtection = aws[id].deletionProtection
    <2> DEFINE new == [k \in TagKeys |-> IF k \in keys THEN NoTag ELSE aws[id].tags[k]]
    <2>1. AfterUntag(id, keys) = [aws EXCEPT ![id].tags = new]
        BY DEF AfterUntag
    <2> HIDE DEF new
    <2> QED
        BY <2>1 DEF ServiceTypeOK, Cluster
<1>3. ASSUME NEW policy
      PROVE  AfterPolicy(id, policy)[id].deletionProtection = aws[id].deletionProtection
    BY DEF AfterPolicy, ServiceTypeOK, Cluster
<1> QED
    BY <1>1, <1>2, <1>3

\* The calls of a pre-delete update bring the protection to what is desired.
LEMMA UpdateGuarded ==
    ASSUME WorkerInv, WorkerInv', GuardInv,
           TagResource \/ UntagResource \/ SyncPolicy \/ UpdateCluster
    PROVE  GuardInv'
<1>t. ServiceTypeOK /\ ctl \in Controller /\ ctl.desired \in Resource
    BY SubjectType DEF WorkerInv, TypeOK
<1>1. /\ ctl.pc = "mutate" /\ Known' = Known /\ ctl'.caller = ctl.caller
      /\ Id \in Ids /\ Id = Known /\ Unmoved(aws, aws')
    BY UpdateKeeps
<1>2. SUFFICES ASSUME ctl.caller = "delete"
               PROVE  GuardInv'
    BY <1>1, NothingToGuard
<1>3. ASSUME NEW err, NEW updated, ctl' = AfterCall(ctl, err, updated),
             Live(Id) /\ err = "none" =>
                \/ "cluster" \in ctl.todo \ {NextCall(ctl)}
                \/ ctl.desired.spec.deletionProtection \in {Nil, aws'[Id].deletionProtection}
      PROVE  GuardInv'
    <2>1. Live(Id) => Guarded(ctl', aws'[Id])
        BY <1>t, <1>1, <1>2, <1>3, CallGuarded
    <2>2. \A id \in Ids : Live(id)' <=> Live(id)
        BY <1>1, UnmovedLive
    <2> QED
        BY <1>1, <2>1, <2>2 DEF GuardInv
<1>4. ASSUME NEW err, NEW updated, ctl' = AfterCall(ctl, err, updated),
             NextCall(ctl) # "cluster",
             aws'[Id].deletionProtection = aws[Id].deletionProtection
      PROVE  GuardInv'
    <2>1. Live(Id) => Guarded(ctl, aws[Id])
        BY <1>1 DEF GuardInv
    <2> QED
        BY <1>1, <1>2, <1>3, <1>4, <2>1 DEF Guarded
<1>5. CASE TagResource
    BY <1>t, <1>1, <1>4, <1>5, ProtectionKept DEF TagResource, Effect
<1>6. CASE UntagResource
    BY <1>t, <1>1, <1>4, <1>6, ProtectionKept DEF UntagResource, Effect
<1>7. CASE SyncPolicy
    BY <1>t, <1>1, <1>4, <1>7, ProtectionKept DEF SyncPolicy, Effect
<1>8. CASE UpdateCluster
    <2> DEFINE input   == NewUpdateRequestPayload(ctl.desired, ctl.latest)
               changed == Updated(aws[Id], input)
               effect  == AfterUpdate(Id, input)
    <2>1. PICK fate \in Fates :
             /\ Effect(fate, UpdateVerdict(Id, input), effect)
             /\ \E updated :
                   ctl' = AfterCall(ctl, Answer(fate, UpdateVerdict(Id, input)), updated)
        BY <1>8 DEF UpdateCluster
    <2>2. Answer(fate, UpdateVerdict(Id, input)) = "none" => aws' = effect
        BY <2>1 DEF Answer, Effect
    <2>3. aws[Id] \in Cluster
        BY <1>t, <1>1, ClusterType
    <2>4. /\ ctl.desired.spec.deletionProtection \in {Nil, changed.deletionProtection}
          /\ [changed EXCEPT !.status = "UPDATING"].deletionProtection
                = changed.deletionProtection
        BY <2>3 DEF Updated, Cluster, NewUpdateRequestPayload
    <2>5. effect[Id] \in {changed, [changed EXCEPT !.status = "UPDATING"]}
        BY <1>t, <1>1 DEF AfterUpdate, ServiceTypeOK
    <2> HIDE DEF changed, effect
    <2>6. ctl.desired.spec.deletionProtection \in {Nil, effect[Id].deletionProtection}
        BY <2>4, <2>5
    <2> QED
        BY <1>3, <2>1, <2>2, <2>6
<1> QED
    BY <1>5, <1>6, <1>7, <1>8

\* What others change is recorded, or it is not the protection.
LEMMA DriftGuarded ==
    ASSUME WorkerInv, ProtectionInv, Record, NEW id \in Ids, ServiceDrifts(id)
    PROVE  ProtectionInv'
<1>t. ServiceTypeOK /\ Drift(id) /\ ctl' = ctl /\ Known' = Known
    BY DEF WorkerInv, TypeOK, ServiceDrifts, Known
<1>1. met' \subseteq Marks
    BY ChangeMet DEF ProtectionInv
<1>2. CASE ctl'.pc = "idle"
    <2>1. GuardInv'
        BY <1>2, NothingToGuard
    <2> QED
        BY <1>1, <2>1 DEF ProtectionInv
<1>3. CASE ctl'.pc # "idle" /\ "deletionProtection" \notin met'
    <2>1. /\ GuardInv
          /\ \A i \in Ids : aws'[i].deletionProtection = aws[i].deletionProtection
        BY <1>3, ChangeMet DEF ProtectionInv
    <2>2. \A i \in Ids : Live(i)' => Live(i)
        BY <1>t, DriftRevivesNone
    <2>3. GuardInv'
        BY <1>t, <2>1, <2>2 DEF GuardInv, Guarded
    <2> QED
        BY <1>1, <2>3 DEF ProtectionInv
<1> QED
    BY <1>1, <1>2, <1>3 DEF ProtectionInv

\* Every step but those of others keeps what the deletion has of the protection.
LEMMA GuardStep ==
    ASSUME WorkerInv, WorkerInv', ContractInv, GuardInv, [Next]_vars,
           ~ \E id \in Ids : ServiceDrifts(id)
    PROVE  GuardInv'
<1>t. TypeOK /\ ServiceTypeOK /\ ctl \in Controller /\ CallerInv /\ cr \in CustomResource
    BY DEF WorkerInv, TypeOK
<1>1. CASE UNCHANGED vars \/ Resync \/ EditSpec \/ DeleteCR
    <2>1. aws' = aws /\ ctl' = ctl /\ cr'.status = cr.status
        BY <1>t, <1>1 DEF vars, Resync, EditSpec, DeleteCR, CustomResource
    <2> QED
        BY <2>1 DEF GuardInv, Known, Live
<1>2. CASE Start \/ Manage \/ Publish \/ Crash
    <2>1. CASE Start
        <3>1. ctl'.pc \in {"getCluster", "idle"}
            BY <2>1 DEF Start, StartRead, IdleCtl
        <3> QED
            BY <3>1, NothingToGuard
    <2>2. CASE Manage
        <3>1. ctl'.pc \in {"create", "idle"}
            BY <1>t, <2>2 DEF Manage, IdleCtl, Controller
        <3> QED
            BY <3>1, NothingToGuard
    <2>3. CASE Publish \/ Crash
        <3>1. ctl'.pc = "idle"
            BY <2>3 DEF Publish, Crash, IdleCtl
        <3> QED
            BY <3>1, NothingToGuard
    <2> QED
        BY <1>2, <2>1, <2>2, <2>3
<1>3. CASE GetCluster
    BY <1>3, GetClusterGuarded
<1>4. CASE GetClusterPolicy
    BY <1>4, GetPolicyGuarded
<1>5. CASE TagResource \/ UntagResource \/ SyncPolicy \/ UpdateCluster
    BY <1>5, UpdateGuarded
<1>6. CASE CreateCluster
    <2> DEFINE made == [ctl EXCEPT !.latest = OnSuccess(
                              Created(ctl.desired, NextId, NewCluster(ctl.desired.spec)))]
    <2>1. PICK err : ctl' = IF err = "none" THEN StartRead(made, "created")
                            ELSE [Fail(ctl, ctl.desired, err) EXCEPT !.pc = "unmanage"]
        BY <1>6 DEF CreateCluster
    <2>2. CASE err = "none"
        <3>1. DOMAIN made = DOMAIN ctl /\ {"pc", "caller"} \subseteq DOMAIN made
            BY <1>t DEF Controller
        <3> HIDE DEF made
        <3>2. ctl'.pc = "getCluster"
            BY <2>1, <2>2, <3>1 DEF StartRead
        <3> QED
            BY <3>2, NothingToGuard
    <2>3. CASE err # "none"
        <3> DEFINE failed == Fail(ctl, ctl.desired, err)
        <3>1. failed \in Controller /\ ctl' = [failed EXCEPT !.pc = "unmanage"]
            BY <1>t, <2>1, <2>3, FailType, SubjectType
        <3> HIDE DEF failed
        <3>2. ctl'.pc = "unmanage"
            BY <3>1 DEF Controller
        <3> QED
            BY <3>2, NothingToGuard
    <2> QED
        BY <2>2, <2>3
<1>7. CASE DeleteCluster
    <2> DEFINE failed(err) == Fail(ctl, ctl.latest, err)
    <2>1. \A err : failed(err).pc = "publish"
        BY <1>t, FailType, SubjectType
    <2>2. ctl' = [ctl EXCEPT !.pc = "unmanage"] \/ \E err : ctl' = failed(err)
        BY <1>7 DEF DeleteCluster
    <2> HIDE DEF failed
    <2>3. ctl'.pc \in {"unmanage", "publish"}
        BY <1>t, <2>1, <2>2 DEF Controller
    <2> QED
        BY <2>3, NothingToGuard
<1>8. CASE Unmanage
    <2>1. ctl'.pc \in {"idle", "publish"}
        BY <1>t, <1>8 DEF Unmanage, IdleCtl, Controller
    <2> QED
        BY <2>1, NothingToGuard
<1>9. CASE PatchSpec
    <2> DEFINE patched == [ctl EXCEPT !.desired = ctl.latest]
    <2>1. ctl' = IF ctl.caller = "lateInit"
                 THEN [patched EXCEPT !.pc = "publish", !.result = "done"]
                 ELSE StartRead(patched, "lateInit")
        BY <1>9 DEF PatchSpec
    <2>2. DOMAIN patched = DOMAIN ctl /\ {"pc", "caller"} \subseteq DOMAIN patched
        BY <1>t DEF Controller
    <2> HIDE DEF patched
    <2>3. ctl'.pc \in {"publish", "getCluster"}
        BY <2>1, <2>2 DEF StartRead
    <2> QED
        BY <2>3, NothingToGuard
<1>10. ASSUME NEW id \in Ids, ServiceSettles(id) \/ ServiceIdles(id)
       PROVE  GuardInv'
    <2>1. cr' = cr /\ ctl' = ctl /\ (Settle(id) \/ Idle(id))
        BY <1>10 DEF ServiceSettles, ServiceIdles
    <2>2. Known' = Known /\ \A i \in Ids : Live(i)' <=> Live(i)
        BY <1>t, <2>1, ServiceIsUnmoved, UnmovedLive DEF Known
    <2>3. \A i \in Ids : Live(i) => aws'[i].deletionProtection = aws[i].deletionProtection
        BY <1>t, <2>1, ServiceKeepsContent DEF SameContent
    <2> QED
        BY <2>1, <2>2, <2>3 DEF GuardInv, Guarded
<1> QED
    BY <1>1, <1>2, <1>3, <1>4, <1>5, <1>6, <1>7, <1>8, <1>9, <1>10 DEF Next, Work

\* A step to rest leaves nothing to guard, any other forgets nothing.
LEMMA ProtectionStep ==
    ASSUME WorkerInv, WorkerInv', ContractInv, ProtectionInv, [AttemptsNext]_attemptVars
    PROVE  ProtectionInv'
<1>1. CASE \E id \in Ids : ServiceDrifts(id) /\ Record
    BY <1>1, DriftGuarded
<1>2. CASE ~ \E id \in Ids : ServiceDrifts(id) /\ Record
    <2>1. /\ [Next]_vars /\ ~ \E id \in Ids : ServiceDrifts(id)
          /\ met' \subseteq Marks
          /\ ctl'.pc # "idle" => met' = met
        BY <1>2, OwnStep DEF ProtectionInv
    <2>2. CASE ctl'.pc = "idle"
        BY <2>1, <2>2, NothingToGuard DEF ProtectionInv
    <2>3. CASE ctl'.pc # "idle"
        BY <2>1, <2>3, GuardStep DEF ProtectionInv
    <2> QED
        BY <2>2, <2>3
<1> QED
    BY <1>1, <1>2

\* Protection is honoured: DeleteCluster succeeds only for a resource that was read
\* without deletion protection, unless others have switched the protection since the
\* attempt began.
THEOREM DeletesUnprotected == AttemptsSpec => ProtectionHonoured
<1>1. AttemptsSpec => [](WorkerInv /\ ContractInv)
    BY AttemptsAreReconciled, ContractInvariant, PTL
<1>2. AttemptsInit => ProtectionInv
    BY DEF AttemptsInit, Init, IdleCtl, ProtectionInv, GuardInv, Guarded
<1>3. WorkerInv /\ WorkerInv' /\ ContractInv /\ ProtectionInv /\ [AttemptsNext]_attemptVars
         => ProtectionInv'
    BY ProtectionStep
<1>4. WorkerInv /\ ProtectionInv /\ [AttemptsNext]_attemptVars
         => [ctl.pc = "delete" /\ aws' # aws /\ ctl' # ctl
               => \/ ctl.desired.spec.deletionProtection # "on"
                  \/ "deletionProtection" \in met]_attemptVars
    <2> SUFFICES ASSUME WorkerInv, GuardInv, Next,
                        ctl.pc = "delete", aws' # aws, ctl' # ctl
                 PROVE  ctl.desired.spec.deletionProtection # "on"
        BY DEF ProtectionInv, AttemptsNext, attemptVars, vars
    <2>t. /\ TypeOK /\ ServiceTypeOK /\ CallerInv /\ IdentifierInv
          /\ ctl.desired \in Resource
        BY SubjectType DEF WorkerInv, TypeOK
    <2>1. DeleteCluster
        BY DEF Next, Work, vars, Start, GetCluster, GetClusterPolicy, Manage, CreateCluster,
               TagResource, UntagResource, SyncPolicy, UpdateCluster, Unmanage, PatchSpec,
               Publish, Resync, EditSpec, DeleteCR, Crash, ServiceSettles, ServiceIdles,
               ServiceDrifts
    <2>2. DeleteVerdict(Id) = "none"
        BY <2>1 DEF DeleteCluster, Effect
    <2>3. Live(Id) /\ aws[Id].deletionProtection # "on"
        BY <2>2 DEF DeleteVerdict, MutateVerdict, Busy, Found, Live
    <2>4. ctl.caller = "delete" /\ Id # Nil /\ Id = Known
        BY <2>t DEF CallerInv, IdentifierInv, Id, Known
    <2>5. Id \in Ids \cup {Nil}
        BY <2>t, StatusType DEF Id
    <2>6. ctl.desired.spec.deletionProtection \in {Nil, aws[Id].deletionProtection}
        BY <2>3, <2>4, <2>5 DEF GuardInv, Guarded
    <2> QED
        BY <2>3, <2>6, ResourceAssumption
<1> QED
    BY <1>1, <1>2, <1>3, <1>4, PTL DEF AttemptsSpec, ProtectionHonoured
=============================================================================
