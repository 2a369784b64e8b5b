--------------------------- MODULE ReplicasProofs ---------------------------
(***************************************************************************)
(* Proofs about Replicas: with leader election two processes of the        *)
(* controller do nothing that one process, restarted now and then, could   *)
(* not have done; so what is proved of one process, ReconcileProofs, holds *)
(* of both together.                                                       *)
(***************************************************************************)
EXTENDS Replicas, TLAPS

\* What is proved about a process, said of the one that acts.
Proved == INSTANCE ReconcileProofs WITH ctl <- Acting, queued <- ActingQueue

-----------------------------------------------------------------------------
(* The lease *)

\* A replica that does not hold the lease has done nothing since it started.
LeaseInv ==
    /\ leader \in {"A", "B", "none"}
    /\ leader # "A" => ctl = IdleCtl /\ queued = TRUE
    /\ leader # "B" => ctlB = IdleCtl /\ queuedB = TRUE

\* What a replica holds is what the process holds that the two amount to.
ActsA == Acting = ctl /\ ActingQueue = queued
ActsB == Acting = ctlB /\ ActingQueue = queuedB

LEMMA Actors ==
    ASSUME LeaseInv
    PROVE  /\ leader # "B" => ActsA
           /\ leader # "A" => ActsB
    BY DEF LeaseInv, ActsA, ActsB, Acting, ActingQueue

\* The account answers a call of the one process as it does one of replica A.
LEMMA ServiceA ==
    /\ \A status : Single!NoCluster(status) = NoCluster(status)
    /\ \A id : Single!GetVerdict(id) = GetVerdict(id)
    /\ \A id : Single!GetPolicyVerdict(id) = GetPolicyVerdict(id)
    /\ \A spec : Single!CreateVerdict(spec) = CreateVerdict(spec)
    /\ \A id : Single!MutateVerdict(id) = MutateVerdict(id)
    /\ \A id, policy : Single!PutPolicyVerdict(id, policy) = PutPolicyVerdict(id, policy)
    /\ \A id : Single!DeletePolicyVerdict(id) = DeletePolicyVerdict(id)
    /\ \A id, input : Single!UpdateVerdict(id, input) = UpdateVerdict(id, input)
    /\ \A id : Single!DeleteVerdict(id) = DeleteVerdict(id)
    /\ Single!NextId = NextId
    /\ \A spec : Single!NewCluster(spec) = NewCluster(spec)
    /\ \A spec : Single!AfterCreate(spec) = AfterCreate(spec)
    /\ \A id, keys, tags : Single!AfterTag(id, keys, tags) = AfterTag(id, keys, tags)
    /\ \A id, keys : Single!AfterUntag(id, keys) = AfterUntag(id, keys)
    /\ \A id, policy : Single!AfterPolicy(id, policy) = AfterPolicy(id, policy)
    /\ \A id, input : Single!AfterUpdate(id, input) = AfterUpdate(id, input)
    /\ \A id : Single!AfterDelete(id) = AfterDelete(id)
    /\ Single!Fates = Fates
    /\ Single!ReadFates = ReadFates
    /\ \A fate, verdict : Single!Answer(fate, verdict) = Answer(fate, verdict)
    BY DEF
        Single!AfterCreate, Single!AfterDelete, Single!AfterPolicy, Single!AfterTag,
        Single!AfterUntag, Single!AfterUpdate, Single!Answer, Single!Busy,
        Single!CreateVerdict, Single!DeletePolicyVerdict, Single!DeleteVerdict,
        Single!Deleted, Single!Fates, Single!Found, Single!GetPolicyVerdict,
        Single!GetVerdict, Single!Gone, Single!Ids, Single!MutateVerdict,
        Single!NewCluster, Single!NextId, Single!NoCluster, Single!PutPolicyVerdict,
        Single!ReadFates, Single!TagKeys, Single!Unused, Single!UpdateVerdict,
        Single!Updated, AfterCreate, AfterDelete, AfterPolicy, AfterTag, AfterUntag,
        AfterUpdate, Answer, Busy, CreateVerdict, DeletePolicyVerdict,
        DeleteVerdict, Deleted, Fates, Found, GetPolicyVerdict, GetVerdict, Gone,
        Ids, MutateVerdict, NewCluster, NextId, NoCluster, PutPolicyVerdict,
        ReadFates, TagKeys, Unused, UpdateVerdict, Updated

\* The one process computes what replica A computes.
LEMMA ManagerA ==
    /\ \A from, to : Single!TagsAdded(from, to) = TagsAdded(from, to)
    /\ \A from, to : Single!TagsRemoved(from, to) = TagsRemoved(from, to)
    /\ \A r : Single!EnsureTags(r) = EnsureTags(r)
    /\ \A r : Single!FilterSystemTags(r) = FilterSystemTags(r)
    /\ \A spec, from, to : Single!MergePatch(spec, from, to) = MergePatch(spec, from, to)
    /\ \A r : Single!IsSynced(r) = IsSynced(r)
    /\ \A r, cluster : Single!Observe(r, cluster) = Observe(r, cluster)
    /\ \A r, id, cluster : Single!Created(r, id, cluster) = Created(r, id, cluster)
    /\ \A r : Single!OnSuccess(r) = OnSuccess(r)
    /\ \A desired, latest : Single!NewUpdateRequestPayload(desired, latest) = NewUpdateRequestPayload(desired, latest)
    /\ Single!IdleCtl = IdleCtl
    /\ \A c : Single!Subject(c) = Subject(c)
    /\ \A c, caller : Single!StartRead(c, caller) = StartRead(c, caller)
    /\ \A c, r, err : Single!Fail(c, r, err) = Fail(c, r, err)
    /\ \A c, err : Single!ReadFailed(c, err) = ReadFailed(c, err)
    /\ \A c, observed : Single!ReadDone(c, observed) = ReadDone(c, observed)
    /\ \A c : Single!NextCall(c) = NextCall(c)
    /\ \A c, err, updated : Single!AfterCall(c, err, updated) = AfterCall(c, err, updated)
    BY DEF
        Single!AfterCall, Single!AfterDeleteRead, Single!AfterLateInit,
        Single!AfterSyncRead, Single!BeginUpdate, Single!Blank, Single!BlankSpec,
        Single!BlankStatus, Single!CallsFor, Single!Created, Single!EnsureTags,
        Single!Fail, Single!FilterSystemTags, Single!IdleCtl,
        Single!IgnoreSystemTags, Single!IsSynced, Single!LateInitialize,
        Single!Merge, Single!MergePatch, Single!MirrorAWSTags,
        Single!NewResourceDelta, Single!NewResourceDeltaForPreDelete,
        Single!NewUpdateRequestPayload, Single!NextCall, Single!Observe,
        Single!OnError, Single!OnSuccess, Single!Order, Single!PreDeleteMerge,
        Single!ReadDone, Single!ReadFailed, Single!RequeueIfTransitional,
        Single!StartRead, Single!Subject, Single!SyncAWSTags, Single!TagKeys,
        Single!TagsAdded, Single!TagsRemoved, Single!TerminalAWSError,
        Single!TransitionalStatuses, Single!UpdateConditions, Single!UpdateDone,
        AfterCall, AfterDeleteRead, AfterLateInit, AfterSyncRead, BeginUpdate,
        Blank, BlankSpec, BlankStatus, CallsFor, Created, EnsureTags, Fail,
        FilterSystemTags, IdleCtl, IgnoreSystemTags, IsSynced, LateInitialize,
        Merge, MergePatch, MirrorAWSTags, NewResourceDelta,
        NewResourceDeltaForPreDelete, NewUpdateRequestPayload, NextCall, Observe,
        OnError, OnSuccess, Order, PreDeleteMerge, ReadDone, ReadFailed,
        RequeueIfTransitional, StartRead, Subject, SyncAWSTags, TagKeys, TagsAdded,
        TagsRemoved, TerminalAWSError, TransitionalStatuses, UpdateConditions,
        UpdateDone

\* The account answers a call of the one process as it does one of replica B.
LEMMA ServiceB ==
    /\ \A status : Single!NoCluster(status) = B!NoCluster(status)
    /\ \A id : Single!GetVerdict(id) = B!GetVerdict(id)
    /\ \A id : Single!GetPolicyVerdict(id) = B!GetPolicyVerdict(id)
    /\ \A spec : Single!CreateVerdict(spec) = B!CreateVerdict(spec)
    /\ \A id : Single!MutateVerdict(id) = B!MutateVerdict(id)
    /\ \A id, policy : Single!PutPolicyVerdict(id, policy) = B!PutPolicyVerdict(id, policy)
    /\ \A id : Single!DeletePolicyVerdict(id) = B!DeletePolicyVerdict(id)
    /\ \A id, input : Single!UpdateVerdict(id, input) = B!UpdateVerdict(id, input)
    /\ \A id : Single!DeleteVerdict(id) = B!DeleteVerdict(id)
    /\ Single!NextId = B!NextId
    /\ \A spec : Single!NewCluster(spec) = B!NewCluster(spec)
    /\ \A spec : Single!AfterCreate(spec) = B!AfterCreate(spec)
    /\ \A id, keys, tags : Single!AfterTag(id, keys, tags) = B!AfterTag(id, keys, tags)
    /\ \A id, keys : Single!AfterUntag(id, keys) = B!AfterUntag(id, keys)
    /\ \A id, policy : Single!AfterPolicy(id, policy) = B!AfterPolicy(id, policy)
    /\ \A id, input : Single!AfterUpdate(id, input) = B!AfterUpdate(id, input)
    /\ \A id : Single!AfterDelete(id) = B!AfterDelete(id)
    /\ Single!Fates = B!Fates
    /\ Single!ReadFates = B!ReadFates
    /\ \A fate, verdict : Single!Answer(fate, verdict) = B!Answer(fate, verdict)
    BY DEF
        Single!AfterCreate, Single!AfterDelete, Single!AfterPolicy, Single!AfterTag,
        Single!AfterUntag, Single!AfterUpdate, Single!Answer, Single!Busy,
        Single!CreateVerdict, Single!DeletePolicyVerdict, Single!DeleteVerdict,
        Single!Deleted, Single!Fates, Single!Found, Single!GetPolicyVerdict,
        Single!GetVerdict, Single!Gone, Single!Ids, Single!MutateVerdict,
        Single!NewCluster, Single!NextId, Single!NoCluster, Single!PutPolicyVerdict,
        Single!ReadFates, Single!TagKeys, Single!Unused, Single!UpdateVerdict,
        Single!Updated, B!AfterCreate, B!AfterDelete, B!AfterPolicy, B!AfterTag,
        B!AfterUntag, B!AfterUpdate, B!Answer, B!Busy, B!CreateVerdict,
        B!DeletePolicyVerdict, B!DeleteVerdict, B!Deleted, B!Fates, B!Found,
        B!GetPolicyVerdict, B!GetVerdict, B!Gone, B!Ids, B!MutateVerdict,
        B!NewCluster, B!NextId, B!NoCluster, B!PutPolicyVerdict, B!ReadFates,
        B!TagKeys, B!Unused, B!UpdateVerdict, B!Updated

\* The one process computes what replica B computes.
LEMMA ManagerB ==
    /\ \A from, to : Single!TagsAdded(from, to) = B!TagsAdded(from, to)
    /\ \A from, to : Single!TagsRemoved(from, to) = B!TagsRemoved(from, to)
    /\ \A r : Single!EnsureTags(r) = B!EnsureTags(r)
    /\ \A r : Single!FilterSystemTags(r) = B!FilterSystemTags(r)
    /\ \A spec, from, to : Single!MergePatch(spec, from, to) = B!MergePatch(spec, from, to)
    /\ \A r : Single!IsSynced(r) = B!IsSynced(r)
    /\ \A r, cluster : Single!Observe(r, cluster) = B!Observe(r, cluster)
    /\ \A r, id, cluster : Single!Created(r, id, cluster) = B!Created(r, id, cluster)
    /\ \A r : Single!OnSuccess(r) = B!OnSuccess(r)
    /\ \A desired, latest : Single!NewUpdateRequestPayload(desired, latest) = B!NewUpdateRequestPayload(desired, latest)
    /\ Single!IdleCtl = B!IdleCtl
    /\ \A c : Single!Subject(c) = B!Subject(c)
    /\ \A c, caller : Single!StartRead(c, caller) = B!StartRead(c, caller)
    /\ \A c, r, err : Single!Fail(c, r, err) = B!Fail(c, r, err)
    /\ \A c, err : Single!ReadFailed(c, err) = B!ReadFailed(c, err)
    /\ \A c, observed : Single!ReadDone(c, observed) = B!ReadDone(c, observed)
    /\ \A c : Single!NextCall(c) = B!NextCall(c)
    /\ \A c, err, updated : Single!AfterCall(c, err, updated) = B!AfterCall(c, err, updated)
    BY DEF
        Single!AfterCall, Single!AfterDeleteRead, Single!AfterLateInit,
        Single!AfterSyncRead, Single!BeginUpdate, Single!Blank, Single!BlankSpec,
        Single!BlankStatus, Single!CallsFor, Single!Created, Single!EnsureTags,
        Single!Fail, Single!FilterSystemTags, Single!IdleCtl,
        Single!IgnoreSystemTags, Single!IsSynced, Single!LateInitialize,
        Single!Merge, Single!MergePatch, Single!MirrorAWSTags,
        Single!NewResourceDelta, Single!NewResourceDeltaForPreDelete,
        Single!NewUpdateRequestPayload, Single!NextCall, Single!Observe,
        Single!OnError, Single!OnSuccess, Single!Order, Single!PreDeleteMerge,
        Single!ReadDone, Single!ReadFailed, Single!RequeueIfTransitional,
        Single!StartRead, Single!Subject, Single!SyncAWSTags, Single!TagKeys,
        Single!TagsAdded, Single!TagsRemoved, Single!TerminalAWSError,
        Single!TransitionalStatuses, Single!UpdateConditions, Single!UpdateDone,
        B!AfterCall, B!AfterDeleteRead, B!AfterLateInit, B!AfterSyncRead,
        B!BeginUpdate, B!Blank, B!BlankSpec, B!BlankStatus, B!CallsFor, B!Created,
        B!EnsureTags, B!Fail, B!FilterSystemTags, B!IdleCtl, B!IgnoreSystemTags,
        B!IsSynced, B!LateInitialize, B!Merge, B!MergePatch, B!MirrorAWSTags,
        B!NewResourceDelta, B!NewResourceDeltaForPreDelete,
        B!NewUpdateRequestPayload, B!NextCall, B!Observe, B!OnError, B!OnSuccess,
        B!Order, B!PreDeleteMerge, B!ReadDone, B!ReadFailed,
        B!RequeueIfTransitional, B!StartRead, B!Subject, B!SyncAWSTags, B!TagKeys,
        B!TagsAdded, B!TagsRemoved, B!TerminalAWSError, B!TransitionalStatuses,
        B!UpdateConditions, B!UpdateDone

\* A request of replica A, or what it does between two, is one of the process.
LEMMA StepA ==
    ASSUME ActsA, ActsA'
    PROVE  /\ Start => Single!Start
           /\ Work => Single!Work
           /\ Resync => Single!Resync
<1>1. /\ Acting = ctl /\ Acting' = ctl'
      /\ ActingQueue = queued /\ ActingQueue' = queued'
    BY DEF ActsA
<1>2. Start => Single!Start
    BY <1>1, ManagerA DEF Start, Single!Start
<1>3. Resync => Single!Resync
    BY <1>1 DEF Resync, Single!Resync
<1>4. GetCluster => Single!GetCluster
    BY <1>1, ServiceA, ManagerA
    DEF GetCluster, Spend, Single!GetCluster, Single!Spend
<1>5. GetClusterPolicy => Single!GetClusterPolicy
    BY <1>1, ServiceA, ManagerA
    DEF GetClusterPolicy, Spend, Single!GetClusterPolicy, Single!Spend
<1>6. Manage => Single!Manage
    BY <1>1, ManagerA
    DEF Manage, Single!Manage
<1>7. CreateCluster => Single!CreateCluster
    BY <1>1, ServiceA, ManagerA
    DEF CreateCluster, Spend, Effect, Single!CreateCluster, Single!Spend,
        Single!Effect
<1>8. TagResource => Single!TagResource
    BY <1>1, ServiceA, ManagerA
    DEF TagResource, Spend, Effect, Id, Single!TagResource, Single!Spend,
        Single!Effect, Single!Id
<1>9. UntagResource => Single!UntagResource
    BY <1>1, ServiceA, ManagerA
    DEF UntagResource, Spend, Effect, Id, Single!UntagResource, Single!Spend,
        Single!Effect, Single!Id
<1>10. SyncPolicy => Single!SyncPolicy
    BY <1>1, ServiceA, ManagerA
    DEF SyncPolicy, Spend, Effect, Id, Single!SyncPolicy, Single!Spend,
        Single!Effect, Single!Id
<1>11. UpdateCluster => Single!UpdateCluster
    BY <1>1, ServiceA, ManagerA
    DEF UpdateCluster, Spend, Effect, Id, Single!UpdateCluster, Single!Spend,
        Single!Effect, Single!Id
<1>12. DeleteCluster => Single!DeleteCluster
    BY <1>1, ServiceA, ManagerA
    DEF DeleteCluster, Spend, Effect, Id, Single!DeleteCluster, Single!Spend,
        Single!Effect, Single!Id
<1>13. Unmanage => Single!Unmanage
    BY <1>1, ManagerA
    DEF Unmanage, Single!Unmanage
<1>14. PatchSpec => Single!PatchSpec
    BY <1>1, ManagerA
    DEF PatchSpec, Single!PatchSpec
<1>15. Publish => Single!Publish
    BY <1>1, ManagerA
    DEF Publish, Single!Publish
<1>16. Work => Single!Work
    BY <1>4, <1>5, <1>6, <1>7, <1>8, <1>9, <1>10, <1>11, <1>12, <1>13, <1>14, <1>15 DEF Work, Single!Work
<1> QED
    BY <1>2, <1>3, <1>16

\* A request of replica B, or what it does between two, is one of the process.
LEMMA StepB ==
    ASSUME ActsB, ActsB'
    PROVE  /\ B!Start => Single!Start
           /\ B!Work => Single!Work
           /\ B!Resync => Single!Resync
<1>1. /\ Acting = ctlB /\ Acting' = ctlB'
      /\ ActingQueue = queuedB /\ ActingQueue' = queuedB'
    BY DEF ActsB
<1>2. B!Start => Single!Start
    BY <1>1, ManagerB DEF B!Start, Single!Start
<1>3. B!Resync => Single!Resync
    BY <1>1 DEF B!Resync, Single!Resync
<1>4. B!GetCluster => Single!GetCluster
    BY <1>1, ServiceB, ManagerB
    DEF B!GetCluster, B!Spend, Single!GetCluster, Single!Spend
<1>5. B!GetClusterPolicy => Single!GetClusterPolicy
    BY <1>1, ServiceB, ManagerB
    DEF B!GetClusterPolicy, B!Spend, Single!GetClusterPolicy, Single!Spend
<1>6. B!Manage => Single!Manage
    BY <1>1, ManagerB
    DEF B!Manage, Single!Manage
<1>7. B!CreateCluster => Single!CreateCluster
    BY <1>1, ServiceB, ManagerB
    DEF B!CreateCluster, B!Spend, B!Effect, Single!CreateCluster, Single!Spend,
        Single!Effect
<1>8. B!TagResource => Single!TagResource
    BY <1>1, ServiceB, ManagerB
    DEF B!TagResource, B!Spend, B!Effect, B!Id, Single!TagResource, Single!Spend,
        Single!Effect, Single!Id
<1>9. B!UntagResource => Single!UntagResource
    BY <1>1, ServiceB, ManagerB
    DEF B!UntagResource, B!Spend, B!Effect, B!Id, Single!UntagResource,
        Single!Spend, Single!Effect, Single!Id
<1>10. B!SyncPolicy => Single!SyncPolicy
    BY <1>1, ServiceB, ManagerB
    DEF B!SyncPolicy, B!Spend, B!Effect, B!Id, Single!SyncPolicy, Single!Spend,
        Single!Effect, Single!Id
<1>11. B!UpdateCluster => Single!UpdateCluster
    BY <1>1, ServiceB, ManagerB
    DEF B!UpdateCluster, B!Spend, B!Effect, B!Id, Single!UpdateCluster,
        Single!Spend, Single!Effect, Single!Id
<1>12. B!DeleteCluster => Single!DeleteCluster
    BY <1>1, ServiceB, ManagerB
    DEF B!DeleteCluster, B!Spend, B!Effect, B!Id, Single!DeleteCluster,
        Single!Spend, Single!Effect, Single!Id
<1>13. B!Unmanage => Single!Unmanage
    BY <1>1, ManagerB
    DEF B!Unmanage, Single!Unmanage
<1>14. B!PatchSpec => Single!PatchSpec
    BY <1>1, ManagerB
    DEF B!PatchSpec, Single!PatchSpec
<1>15. B!Publish => Single!Publish
    BY <1>1, ManagerB
    DEF B!Publish, Single!Publish
<1>16. B!Work => Single!Work
    BY <1>4, <1>5, <1>6, <1>7, <1>8, <1>9, <1>10, <1>11, <1>12, <1>13, <1>14, <1>15 DEF B!Work, Single!Work
<1> QED
    BY <1>2, <1>3, <1>16

-----------------------------------------------------------------------------
(* One process *)

\* The lease keeps the two apart: who takes it over starts from nothing.
LEMMA LeaseStep ==
    LeaderElection /\ LeaseInv /\ [ReplicasNext]_replicaVars => LeaseInv'
<1> SUFFICES ASSUME LeaderElection, LeaseInv, [ReplicasNext]_replicaVars
             PROVE  LeaseInv'
    OBVIOUS
<1>1. CASE StepOfA(Start) \/ StepOfA(Work) \/ StepOfA(Resync)
    BY <1>1 DEF StepOfA, Works, LeaseInv
<1>2. CASE StepOfB(B!Start) \/ StepOfB(B!Work) \/ StepOfB(B!Resync)
    BY <1>2 DEF StepOfB, Works, LeaseInv
<1>3. CASE Elect
    BY <1>3 DEF Elect, LeaseInv
<1>4. CASE StopA
    BY <1>4 DEF StopA, Crash, LeaseInv
<1>5. CASE StopB
    BY <1>5, ManagerB, ManagerA DEF StopB, B!Crash, LeaseInv
<1>6. CASE UserActs
    BY <1>6 DEF UserActs, EditSpec, DeleteCR, LeaseInv
<1>7. ASSUME NEW id \in Ids,
             \/ ServiceActs(ServiceSettles(id))
             \/ ServiceActs(ServiceIdles(id))
             \/ ServiceActs(ServiceDrifts(id))
      PROVE  LeaseInv'
    BY <1>7 DEF ServiceActs, ServiceSettles, ServiceIdles, ServiceDrifts, LeaseInv
<1>8. CASE UNCHANGED replicaVars
    BY <1>8 DEF replicaVars, LeaseInv
<1> QED
    BY <1>1, <1>2, <1>3, <1>4, <1>5, <1>6, <1>7, <1>8 DEF ReplicasNext

\* The two start as one process does.
LEMMA OneInit == ReplicasInit => Single!Init /\ LeaseInv
<1> SUFFICES ASSUME ReplicasInit
             PROVE  Single!Init /\ LeaseInv
    OBVIOUS
<1>1. LeaseInv /\ ctl = IdleCtl /\ queued = TRUE
    BY DEF ReplicasInit, Init, LeaseInv
<1>2. ActsA
    BY <1>1, Actors DEF ReplicasInit
<1>3. Single!ServiceInit
    BY ServiceA DEF ReplicasInit, Init, ServiceInit, Single!ServiceInit, Ids, Single!Ids
<1>4. Single!BlankStatus = BlankStatus
    BY DEF BlankStatus, Single!BlankStatus
<1> QED
    BY <1>1, <1>2, <1>3, <1>4, ManagerA DEF ActsA, ReplicasInit, Init, Single!Init

\* Every step of the two is a step of one process, its restart, or invisible.
LEMMA OneStep ==
    LeaderElection /\ LeaseInv /\ [ReplicasNext]_replicaVars => [Single!Next]_(Single!vars)
<1> SUFFICES ASSUME LeaderElection, LeaseInv, [ReplicasNext]_replicaVars
             PROVE  Single!Next \/ UNCHANGED Single!vars
    OBVIOUS
<1>i. LeaseInv'
    BY LeaseStep
<1>a. (leader # "B" => ActsA) /\ (leader # "A" => ActsB)
    BY Actors
<1>b. (leader' # "B" => ActsA') /\ (leader' # "A" => ActsB')
    BY <1>i DEF LeaseInv, ActsA, ActsB, Acting, ActingQueue
<1>1. CASE StepOfA(Start) \/ StepOfA(Work) \/ StepOfA(Resync)
    <2>1. ActsA /\ ActsA'
        BY <1>1, <1>a, <1>b DEF StepOfA, Works
    <2> QED
        BY <1>1, <2>1, StepA DEF StepOfA, Single!Next
<1>2. CASE StepOfB(B!Start) \/ StepOfB(B!Work) \/ StepOfB(B!Resync)
    <2>1. ActsB /\ ActsB'
        BY <1>2, <1>a, <1>b DEF StepOfB, Works
    <2> QED
        BY <1>2, <2>1, StepB DEF StepOfB, Single!Next
<1>3. CASE Elect
    <2>1. Acting' = Acting /\ ActingQueue' = ActingQueue
        BY <1>3, <1>a, <1>b DEF Elect, LeaseInv, ActsA, ActsB
    <2> QED
        BY <1>3, <2>1 DEF Elect, Single!vars
<1>4. CASE StopA
    <2>1. Acting' = IdleCtl /\ ActingQueue' = TRUE
        BY <1>4, <1>b DEF StopA, Crash, ActsA
    <2>2. Single!Crash
        BY <1>4, <2>1, ManagerA DEF StopA, Crash, Single!Crash
    <2> QED
        BY <2>2 DEF Single!Next
<1>5. CASE StopB
    <2>1. Acting' = B!IdleCtl /\ ActingQueue' = TRUE
        BY <1>5, <1>b DEF StopB, B!Crash, ActsB
    <2>2. Single!Crash
        BY <1>5, <2>1, ManagerB DEF StopB, B!Crash, Single!Crash
    <2> QED
        BY <2>2 DEF Single!Next
<1>6. CASE UserActs
    <2>1. Acting' = Acting /\ ActingQueue' = TRUE
        BY <1>6, <1>a, <1>b DEF UserActs, EditSpec, DeleteCR, LeaseInv, ActsA, ActsB
    <2>2. Single!EditSpec \/ Single!DeleteCR
        BY <1>6, <2>1 DEF UserActs, EditSpec, DeleteCR, Single!EditSpec, Single!DeleteCR
    <2> QED
        BY <2>2 DEF Single!Next
<1>7. ASSUME NEW id \in Ids,
             \/ ServiceActs(ServiceSettles(id))
             \/ ServiceActs(ServiceIdles(id))
             \/ ServiceActs(ServiceDrifts(id))
      PROVE  Single!Next
    <2>1. Acting' = Acting /\ ActingQueue' = ActingQueue
        BY <1>7 DEF ServiceActs, ServiceSettles, ServiceIdles, ServiceDrifts,
                    Acting, ActingQueue, IdleCtl, Blank, BlankSpec, BlankStatus
    <2>2. /\ ServiceSettles(id) => Single!ServiceSettles(id)
          /\ ServiceIdles(id) => Single!ServiceIdles(id)
        BY <2>1, ServiceA DEF ServiceSettles, Single!ServiceSettles, Settle, Single!Settle,
            ServiceIdles, Single!ServiceIdles, Idle, Single!Idle, MoveTo, Single!MoveTo
    <2>3. ServiceDrifts(id) => Single!ServiceDrifts(id)
        BY <2>1, ServiceA DEF ServiceDrifts, Single!ServiceDrifts, Drift, Single!Drift,
            Protect, Single!Protect, TagKeys, Single!TagKeys
    <2>4. Single!Ids = Ids
        BY DEF Ids, Single!Ids
    <2> QED
        BY <1>7, <2>2, <2>3, <2>4 DEF ServiceActs, Single!Next
<1>8. CASE UNCHANGED replicaVars
    BY <1>8 DEF replicaVars, Single!vars, Acting, ActingQueue
<1> QED
    BY <1>1, <1>2, <1>3, <1>4, <1>5, <1>6, <1>7, <1>8 DEF ReplicasNext

\* LeaderElection: what two replicas do to the resource and the account, one process
\* that is restarted now and then could have done, for any specs, faults and
\* handovers; nothing a replica read before it lost the lease is acted upon after.
THEOREM LeaseMakesOneProcess == LeaderElection => (ReplicasSpec => ActsAsOneProcess)
<1> SUFFICES ASSUME LeaderElection
             PROVE  ReplicasSpec => ActsAsOneProcess
    OBVIOUS
<1>1. ReplicasInit => Single!Init /\ LeaseInv
    BY OneInit
<1>2. LeaseInv /\ [ReplicasNext]_replicaVars => LeaseInv'
    BY LeaseStep
<1>3. LeaseInv /\ [ReplicasNext]_replicaVars => [Single!Next]_(Single!vars)
    BY OneStep
<1> QED
    BY <1>1, <1>2, <1>3, PTL DEF ReplicasSpec, ActsAsOneProcess, Single!Spec

-----------------------------------------------------------------------------
(* What is proved of one process, of the two *)

\* Single and Proved are the same specification.
LEMMA SameSpec ==
    /\ Single!Init => Proved!Init
    /\ [Single!Next]_(Single!vars) => [Proved!Next]_(Proved!vars)
    BY DEF
        Single!AfterCall, Single!AfterCreate, Single!AfterDelete,
        Single!AfterDeleteRead, Single!AfterLateInit, Single!AfterPolicy,
        Single!AfterSyncRead, Single!AfterTag, Single!AfterUntag,
        Single!AfterUpdate, Single!Answer, Single!BeginUpdate, Single!Blank,
        Single!BlankSpec, Single!BlankStatus, Single!Busy, Single!CallsFor,
        Single!Crash, Single!CreateCluster, Single!CreateVerdict, Single!Created,
        Single!DeleteCR, Single!DeleteCluster, Single!DeletePolicyVerdict,
        Single!DeleteVerdict, Single!Deleted, Single!Drift, Single!EditSpec,
        Single!Effect, Single!EnsureTags, Single!Fail, Single!Fates,
        Single!FilterSystemTags, Single!Found, Single!GetCluster,
        Single!GetClusterPolicy, Single!GetPolicyVerdict, Single!GetVerdict,
        Single!Gone, Single!Id, Single!Idle, Single!IdleCtl, Single!Ids,
        Single!IgnoreSystemTags, Single!Init, Single!IsSynced,
        Single!LateInitialize, Single!Manage, Single!Merge, Single!MergePatch,
        Single!MirrorAWSTags, Single!MoveTo, Single!MutateVerdict,
        Single!NewCluster, Single!NewResourceDelta,
        Single!NewResourceDeltaForPreDelete, Single!NewUpdateRequestPayload,
        Single!Next, Single!NextCall, Single!NextId, Single!NoCluster,
        Single!Observe, Single!OnError, Single!OnSuccess, Single!Order,
        Single!PatchSpec, Single!PreDeleteMerge, Single!Protect, Single!Publish,
        Single!PutPolicyVerdict, Single!ReadDone, Single!ReadFailed,
        Single!ReadFates, Single!RequeueIfTransitional, Single!Resync,
        Single!ServiceDrifts, Single!ServiceIdles, Single!ServiceInit,
        Single!ServiceSettles, Single!Settle, Single!Spend, Single!Start,
        Single!StartRead, Single!Subject, Single!SyncAWSTags, Single!SyncPolicy,
        Single!TagKeys, Single!TagResource, Single!TagsAdded, Single!TagsRemoved,
        Single!TerminalAWSError, Single!TransitionalStatuses, Single!Unmanage,
        Single!UntagResource, Single!Unused, Single!UpdateCluster,
        Single!UpdateConditions, Single!UpdateDone, Single!UpdateVerdict,
        Single!Updated, Single!Work, Single!vars, Proved!AfterCall,
        Proved!AfterCreate, Proved!AfterDelete, Proved!AfterDeleteRead,
        Proved!AfterLateInit, Proved!AfterPolicy, Proved!AfterSyncRead,
        Proved!AfterTag, Proved!AfterUntag, Proved!AfterUpdate, Proved!Answer,
        Proved!BeginUpdate, Proved!Blank, Proved!BlankSpec, Proved!BlankStatus,
        Proved!Busy, Proved!CallsFor, Proved!Crash, Proved!CreateCluster,
        Proved!CreateVerdict, Proved!Created, Proved!DeleteCR, Proved!DeleteCluster,
        Proved!DeletePolicyVerdict, Proved!DeleteVerdict, Proved!Deleted,
        Proved!Drift, Proved!EditSpec, Proved!Effect, Proved!EnsureTags,
        Proved!Fail, Proved!Fates, Proved!FilterSystemTags, Proved!Found,
        Proved!GetCluster, Proved!GetClusterPolicy, Proved!GetPolicyVerdict,
        Proved!GetVerdict, Proved!Gone, Proved!Id, Proved!Idle, Proved!IdleCtl,
        Proved!Ids, Proved!IgnoreSystemTags, Proved!Init, Proved!IsSynced,
        Proved!LateInitialize, Proved!Manage, Proved!Merge, Proved!MergePatch,
        Proved!MirrorAWSTags, Proved!MoveTo, Proved!MutateVerdict,
        Proved!NewCluster, Proved!NewResourceDelta,
        Proved!NewResourceDeltaForPreDelete, Proved!NewUpdateRequestPayload,
        Proved!Next, Proved!NextCall, Proved!NextId, Proved!NoCluster,
        Proved!Observe, Proved!OnError, Proved!OnSuccess, Proved!Order,
        Proved!PatchSpec, Proved!PreDeleteMerge, Proved!Protect, Proved!Publish,
        Proved!PutPolicyVerdict, Proved!ReadDone, Proved!ReadFailed,
        Proved!ReadFates, Proved!RequeueIfTransitional, Proved!Resync,
        Proved!ServiceDrifts, Proved!ServiceIdles, Proved!ServiceInit,
        Proved!ServiceSettles, Proved!Settle, Proved!Spend, Proved!Start,
        Proved!StartRead, Proved!Subject, Proved!SyncAWSTags, Proved!SyncPolicy,
        Proved!TagKeys, Proved!TagResource, Proved!TagsAdded, Proved!TagsRemoved,
        Proved!TerminalAWSError, Proved!TransitionalStatuses, Proved!Unmanage,
        Proved!UntagResource, Proved!Unused, Proved!UpdateCluster,
        Proved!UpdateConditions, Proved!UpdateDone, Proved!UpdateVerdict,
        Proved!Updated, Proved!Work, Proved!vars

\* The constants are assumed to be what ReconcileProofs assumes them to be.
LEMMA SameAssumption ==
    /\ InitialSpecs \subseteq Proved!ClusterSpec
    /\ EditedSpecs \subseteq Proved!ClusterSpec
    /\ LostReplies \in BOOLEAN
    /\ {MaxEdits, MaxFaults, MaxCrashes, MaxDrifts} \subseteq Nat
    BY ReconcileAssumption
    DEF ClusterSpec, Proved!ClusterSpec, TagMaps, Proved!TagMaps, TagKeys, Proved!TagKeys

\* A handover in the middle of a Create costs one cluster at most, as a restart does:
\* no more clusters are out of reach of the custom resource than calls failed or lost
\* their answers and replicas stopped.
THEOREM HandoversAccounted ==
    LeaderElection => (ReplicasSpec => []HandoverCostsOneAtMost)
<1> SUFFICES ASSUME LeaderElection
             PROVE  ReplicasSpec => []HandoverCostsOneAtMost
    OBVIOUS
<1>1. ReplicasSpec => Single!Spec
    BY LeaseMakesOneProcess DEF ActsAsOneProcess
<1>2. Single!Init => Proved!Init
    BY SameSpec
<1>3. [Single!Next]_(Single!vars) => [Proved!Next]_(Proved!vars)
    BY SameSpec
<1>4. Proved!Spec => []Proved!OrphansAccounted
    BY Proved!LossesAccounted, SameAssumption, ResourceAssumption, ServiceAssumption
<1>5. Proved!OrphansAccounted => HandoverCostsOneAtMost
    BY DEF HandoverCostsOneAtMost,
        Single!Cardinality, Single!Deleted, Single!Gone, Single!Ids,
        Single!IsFiniteSet, Single!Live, Single!OrphansAccounted, Single!Remembers,
        Proved!Cardinality, Proved!Deleted, Proved!Gone, Proved!Ids,
        Proved!IsFiniteSet, Proved!Live, Proved!OrphansAccounted, Proved!Remembers
<1> QED
    BY <1>1, <1>2, <1>3, <1>4, <1>5, PTL DEF Single!Spec, Proved!Spec
=============================================================================
