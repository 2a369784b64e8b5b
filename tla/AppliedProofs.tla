---------------------------- MODULE AppliedProofs ----------------------------
(***************************************************************************)
(* Proof that a success which a reconciliation reports is true: AWS has    *)
(* the protection, the tags and the policy it reports, but for what others *)
(* have changed in the course of that reconciliation.  Requests may fail,       *)
(* answers may be lost and the process may stop between any two requests,  *)
(* any number of times.                                                    *)
(*                                                                         *)
(* The lemmas are about a set m of fields that others have changed, which  *)
(* no step of ClusterReconcile but theirs looks at; the last part puts met *)
(* in its place.                                                           *)
(***************************************************************************)
EXTENDS ContractProofs, UpdateProofs

-----------------------------------------------------------------------------
(* The invariant *)

SameContent(c, d) ==
    /\ c.deletionProtection = d.deletionProtection
    /\ c.policy = d.policy
    /\ c.tags = d.tags

\* As AppliedBut, but for a protection that is still to be late-initialized.
Near(m, spec, cluster) ==
    /\ "deletionProtection" \in m \/ spec.deletionProtection \in {Nil, cluster.deletionProtection}
    /\ "tags" \in m \/ spec.tags = cluster.tags
    /\ "policy" \in m \/ PolicyMatches(spec.policy, cluster.policy)

\* What the worker reads of the cluster is what it is.
Shows(m, spec, cluster) ==
    /\ "deletionProtection" \in m \/ spec.deletionProtection = cluster.deletionProtection
    /\ "tags" \in m \/ spec.tags = cluster.tags

\* What no call is left for, the cluster has.
Progress(m, c, cluster) ==
    LET from == c.latest.spec.tags
        to   == c.desired.spec.tags
    IN /\ \/ "tags" \in m
          \/ \A k \in TagKeys : \/ "tag" \in c.todo /\ k \in TagsAdded(from, to)
                                \/ "untag" \in c.todo /\ k \in TagsRemoved(from, to)
                                \/ cluster.tags[k] = to[k]
       /\ \/ "policy" \in m
          \/ "policy" \in c.todo \/ PolicyMatches(c.desired.spec.policy, cluster.policy)
       /\ \/ "deletionProtection" \in m
          \/ "cluster" \in c.todo
          \/ c.desired.spec.deletionProtection \in {Nil, cluster.deletionProtection}

\* What the worker c holds of the cluster it works on, from call to call.
Agrees(m, c, cluster) ==
    /\ c.pc = "getPolicy" /\ c.caller # "delete" => Shows(m, c.observed.spec, cluster)
    /\ c.pc = "mutate" /\ c.caller = "sync" => Progress(m, c, cluster)
    /\ c.pc = "patchSpec" \/ (c.caller \in {"created", "lateInit"} /\ c.pc # "publish")
          => Near(m, c.latest.spec, cluster)
    /\ c.pc = "patchSpec" /\ c.caller = "lateInit" => AppliedBut(m, c.latest.spec, cluster)
    /\ c.result = "done" => AppliedBut(m, c.desired.spec, cluster)

\* What the worker holds by itself: late initialization starts from what was
\* patched, and only it ends in a success.
Carries(c) ==
    /\ c.caller = "lateInit" /\ c.pc \in {"getCluster", "getPolicy"} =>
          /\ c.desired.spec = c.latest.spec
          /\ c.desired.status.identifier = c.latest.status.identifier
    /\ c.result = "done" =>
          /\ c.pc = "publish" /\ c.caller = "lateInit"
          /\ c.desired.status.identifier = c.latest.status.identifier

\* The cluster a reconciliation works on is live, where others never delete one.
AliveInv ==
    /\ ~cr.deleting => \A id \in Ids : id = cr.status.identifier => Live(id)
    /\ ctl.caller \in {"sync", "created", "lateInit"} => \A id \in Ids : id = Known => Live(id)

Applied(m) ==
    /\ ContractInv
    /\ "deletion" \in m \/ AliveInv
    /\ Carries(ctl)
    /\ \A id \in Ids : id = Known /\ Live(id) => Agrees(m, ctl, aws[id])

AppliedInv == met \subseteq Marks /\ Applied(met)

-----------------------------------------------------------------------------
(* The worker *)

\* A worker at rest, or on its way from a call that failed, has nothing to agree on.
LEMMA NothingHeld ==
    ASSUME NEW m, NEW c, NEW cluster, c.result # "done",
           \/ c.pc \in {"idle", "publish", "manage", "create", "unmanage", "delete"}
           \/ c.caller = "delete" /\ c.pc \in {"getCluster", "getPolicy", "mutate"}
           \/ c.caller = "sync" /\ c.pc = "getCluster",
           c.caller \in {"created", "lateInit"} => c.pc = "publish"
    PROVE  Carries(c) /\ Agrees(m, c, cluster)
    BY DEF Carries, Agrees

\* A failure is no success.
LEMMA FailHeld ==
    ASSUME NEW m, NEW c \in Controller, NEW r \in Resource, NEW err, NEW cluster
    PROVE  /\ Fail(c, r, err).result # "done"
           /\ Carries(Fail(c, r, err)) /\ Agrees(m, Fail(c, r, err), cluster)
<1>1. Fail(c, r, err).result # "done" /\ Fail(c, r, err).pc = "publish"
    BY DEF Fail, Controller
<1> QED
    BY <1>1, NothingHeld

\* Nor is a read that failed.
LEMMA ReadFailedHeld ==
    ASSUME NEW m, NEW c \in Controller, NEW err, NEW cluster, c.result # "done",
           c.caller \in {"sync", "created", "lateInit", "delete"}
    PROVE  Carries(ReadFailed(c, err)) /\ Agrees(m, ReadFailed(c, err), cluster)
<1>1. CASE c.caller \in {"sync", "delete"} /\ err = "notFound"
    <2>1. /\ ReadFailed(c, err).pc \in {"manage", "unmanage"}
          /\ ReadFailed(c, err).result = c.result /\ ReadFailed(c, err).caller = c.caller
        BY <1>1 DEF ReadFailed, Controller
    <2> QED
        BY <1>1, <2>1, NothingHeld
<1>2. CASE c.caller \in {"sync", "delete"} /\ err # "notFound"
    BY <1>2, FailHeld, SubjectType DEF ReadFailed
<1>3. CASE c.caller \in {"created", "lateInit"}
    <2>1. ReadFailed(c, err).pc = "publish" /\ ReadFailed(c, err).result = "retry"
        BY <1>3 DEF ReadFailed, Controller
    <2> QED
        BY <2>1, NothingHeld
<1> QED
    BY <1>1, <1>2, <1>3

\* An update begins with a call for all that differs from what was read.
LEMMA BeginHeld ==
    ASSUME NEW m, NEW c \in Controller, NEW cluster \in Cluster, c.caller = "sync", c.result # "done",
           Shows(m, c.latest.spec, cluster), c.latest.spec.policy = cluster.policy
    PROVE  LET d == BeginUpdate(c, NewResourceDelta(c.desired, c.latest))
           IN Carries(d) /\ Agrees(m, d, cluster)
<1> DEFINE delta == NewResourceDelta(c.desired, c.latest)
           d     == BeginUpdate(c, delta)
           calls == CallsFor(delta, c.desired, c.latest)
           from  == c.latest.spec.tags
           to    == c.desired.spec.tags
<1>1. CASE RequeueIfTransitional(c.latest)
    BY <1>1, FailHeld, SubjectType DEF BeginUpdate
<1>2. CASE ~RequeueIfTransitional(c.latest)
    <2>1. d = [c EXCEPT !.pc = "mutate", !.todo = calls]
        BY <1>2 DEF BeginUpdate
    <2>2. /\ d.pc = "mutate" /\ d.caller = "sync" /\ d.result = c.result /\ d.todo = calls
          /\ d.latest = c.latest /\ d.desired = c.desired
        BY <2>1 DEF Controller
    <2>3. c.desired \in Resource /\ c.latest \in Resource
        BY SubjectType
    <2>4. \/ "tags" \in m
          \/ \A k \in TagKeys : \/ "tag" \in calls /\ k \in TagsAdded(from, to)
                                \/ "untag" \in calls /\ k \in TagsRemoved(from, to)
                                \/ cluster.tags[k] = to[k]
        <3> SUFFICES ASSUME NEW k \in TagKeys, from[k] # to[k]
                     PROVE  \/ "tag" \in calls /\ k \in TagsAdded(from, to)
                            \/ "untag" \in calls /\ k \in TagsRemoved(from, to)
            BY DEF Shows
        <3>1. "tags" \in delta
            BY <2>3, DeltaFields
        <3>2. k \in TagsAdded(from, to) \/ k \in TagsRemoved(from, to)
            BY DEF TagsAdded, TagsRemoved
        <3> HIDE DEF delta, from, to
        <3>3. /\ TagsAdded(from, to) # {} => "tag" \in calls
              /\ TagsRemoved(from, to) # {} => "untag" \in calls
            BY <3>1 DEF CallsFor, from, to
        <3> QED
            BY <3>2, <3>3
    <2>5. "policy" \in calls \/ PolicyMatches(c.desired.spec.policy, cluster.policy)
        <3>1. CASE "policy" \in delta
            BY <3>1 DEF CallsFor
        <3>2. CASE "policy" \notin delta
            <4>1. c.desired.spec.policy = cluster.policy
                BY <2>3, <3>2, DeltaFields
            <4>2. cluster.policy = EmptyPolicy => cluster.policy = Nil
                BY DEF Cluster
            <4> QED
                BY <4>1, <4>2 DEF PolicyMatches
        <3> QED
            BY <3>1, <3>2
    <2>6. \/ "deletionProtection" \in m
          \/ "cluster" \in calls
          \/ c.desired.spec.deletionProtection \in {Nil, cluster.deletionProtection}
        <3>1. CASE "deletionProtection" \in delta
            BY <3>1 DEF CallsFor
        <3>2. CASE "deletionProtection" \notin delta
            BY <2>3, <3>2, DeltaFields DEF Shows
        <3> QED
            BY <3>1, <3>2
    <2> HIDE DEF delta, d, calls
    <2>7. Progress(m, d, cluster)
        BY <2>2, <2>4, <2>5, <2>6 DEF Progress
    <2>8. Carries(d) /\ Agrees(m, d, cluster)
        BY <2>2, <2>7 DEF Carries, Agrees
    <2> QED
        BY <2>8 DEF d, delta
<1> QED
    BY <1>1, <1>2

\* Where the tags agree there is no tag of AWS to mirror.
LEMMA MirrorHeld ==
    ASSUME NEW r \in Resource, NEW o \in Resource, r.spec.tags = o.spec.tags
    PROVE  MirrorAWSTags(r, o) = r
<1>1. r.spec \in ClusterSpec /\ r.spec.tags \in TagMaps
    BY StatusType DEF ClusterSpec
<1>2. SyncAWSTags(r.spec.tags, o.spec.tags) = [k \in TagKeys |-> r.spec.tags[k]]
    BY DEF SyncAWSTags
<1>3. SyncAWSTags(r.spec.tags, o.spec.tags) = r.spec.tags
    BY <1>1, <1>2 DEF TagMaps
<1>4. MirrorAWSTags(r, o) = [r EXCEPT !.spec.tags = r.spec.tags]
    BY <1>3 DEF MirrorAWSTags
<1> QED
    BY <1>1, <1>4 DEF Resource, ClusterSpec

\* Mirroring changes tags alone.
LEMMA MirrorsTags ==
    ASSUME NEW r \in Resource, NEW o
    PROVE  /\ MirrorAWSTags(r, o).spec.deletionProtection = r.spec.deletionProtection
           /\ MirrorAWSTags(r, o).spec.policy = r.spec.policy
<1> DEFINE tags == SyncAWSTags(r.spec.tags, o.spec.tags)
<1>1. MirrorAWSTags(r, o) = [r EXCEPT !.spec.tags = tags]
    BY DEF MirrorAWSTags
<1> HIDE DEF tags
<1> QED
    BY <1>1 DEF Resource, ClusterSpec

\* A read shows what AWS has; a sync goes on from there.
LEMMA SyncReadHeld ==
    ASSUME NEW m, NEW c \in Controller, NEW o \in Resource, NEW cluster \in Cluster,
           c.caller = "sync", c.result # "done",
           o.status.identifier = c.desired.status.identifier,
           Shows(m, o.spec, cluster), o.spec.policy = cluster.policy
    PROVE  Carries(AfterSyncRead(c, o)) /\ Agrees(m, AfterSyncRead(c, o), cluster)
<1> DEFINE current == MirrorAWSTags(c.desired, o)
           read    == [c EXCEPT !.desired = current, !.latest = o]
           delta   == NewResourceDelta(read.desired, read.latest)
           after   == AfterSyncRead(c, o)
<1>1. current \in Resource /\ current.status = c.desired.status
    BY SubjectType, MirrorType
<1>2. after = IF delta = {} THEN StartRead(read, "lateInit") ELSE BeginUpdate(read, delta)
    BY DEF AfterSyncRead
<1> HIDE DEF current
<1>3. /\ read \in Controller /\ read.caller = c.caller /\ read.result = c.result
      /\ read.desired = current /\ read.latest = o
    BY <1>1 DEF Controller
<1> HIDE DEF read
<1>4. CASE delta = {}
    <2>1. /\ after.pc = "getCluster" /\ after.caller = "lateInit" /\ after.result = c.result
          /\ after.desired = current /\ after.latest = o
        BY <1>2, <1>3, <1>4 DEF StartRead, Controller
    <2>2. current.spec = o.spec
        BY <1>1, <1>3, <1>4, DeltaFields
    <2>3. cluster.policy = EmptyPolicy => cluster.policy = Nil
        BY DEF Cluster
    <2>4. Near(m, o.spec, cluster)
        BY <2>3 DEF Near, Shows, PolicyMatches
    <2> HIDE DEF after
    <2>5. Carries(after) /\ Agrees(m, after, cluster)
        BY <1>1, <2>1, <2>2, <2>4 DEF Carries, Agrees
    <2> QED
        BY <2>5 DEF after
<1>5. CASE delta # {}
    BY <1>2, <1>3, <1>5, BeginHeld
<1> QED
    BY <1>4, <1>5

\* A delete has nothing to agree on.
LEMMA DeleteReadHeld ==
    ASSUME NEW m, NEW c \in Controller, NEW o \in Resource, NEW cluster,
           c.caller = "delete", c.result # "done"
    PROVE  Carries(AfterDeleteRead(c, o)) /\ Agrees(m, AfterDeleteRead(c, o), cluster)
<1> DEFINE current == MirrorAWSTags(c.desired, o)
           delta   == NewResourceDeltaForPreDelete(current, o)
           merged  == PreDeleteMerge(current, o)
           read    == [c EXCEPT !.desired = merged, !.latest = o]
           after   == AfterDeleteRead(c, o)
<1>1. merged \in Resource
    BY SubjectType, MirrorType, PreDeleteMergeType
<1>2. after = IF delta = {} THEN [read EXCEPT !.pc = "delete"] ELSE BeginUpdate(read, delta)
    BY DEF AfterDeleteRead
<1> HIDE DEF merged, delta
<1>3. read \in Controller /\ read.caller = "delete" /\ read.result = c.result
    BY <1>1 DEF Controller
<1> HIDE DEF read
<1>4. after.pc \in {"delete", "mutate", "publish"} /\ after.caller = "delete"
    BY <1>2, <1>3, BeginUpdateType DEF Controller
<1>5. after.result # "done"
    <2>1. CASE delta = {}
        BY <1>2, <1>3, <2>1 DEF Controller
    <2>2. CASE delta # {} /\ RequeueIfTransitional(read.latest)
        BY <1>2, <1>3, <2>2, FailHeld, SubjectType DEF BeginUpdate
    <2>3. CASE delta # {} /\ ~RequeueIfTransitional(read.latest)
        BY <1>2, <1>3, <2>3 DEF BeginUpdate, Controller
    <2> QED
        BY <2>1, <2>2, <2>3
<1> HIDE DEF after
<1>6. Carries(after) /\ Agrees(m, after, cluster)
    BY <1>4, <1>5, NothingHeld
<1> QED
    BY <1>6 DEF after

\* Late initialization fills in the protection AWS has.
LEMMA LateInitHeld ==
    ASSUME NEW m, NEW c \in Controller, NEW o \in Resource, NEW cluster \in Cluster,
           c.caller = "lateInit", c.pc = "getPolicy", c.result # "done",
           Carries(c), Agrees(m, c, cluster), Shows(m, o.spec, cluster)
    PROVE  /\ Carries(ReadDone(c, o)) /\ Agrees(m, ReadDone(c, o), cluster)
<1> DEFINE current == MirrorAWSTags(c.latest, o)
           r       == LateInitialize(current, o)
           after   == ReadDone(c, o)
<1>1. /\ c.desired \in Resource /\ c.latest \in Resource
      /\ c.desired.spec = c.latest.spec
      /\ c.desired.status.identifier = c.latest.status.identifier
      /\ Near(m, c.latest.spec, cluster)
    BY SubjectType DEF Carries, Agrees
<1>2. /\ current \in Resource
      /\ current.spec.deletionProtection = c.latest.spec.deletionProtection
      /\ current.spec.policy = c.latest.spec.policy
      /\ "tags" \in m \/ current.spec.tags = c.latest.spec.tags
    <2>1. current \in Resource
        BY <1>1, MirrorType
    <2>2. /\ current.spec.deletionProtection = c.latest.spec.deletionProtection
          /\ current.spec.policy = c.latest.spec.policy
        BY <1>1, MirrorsTags
    <2>3. "tags" \notin m => current = c.latest
        BY <1>1, MirrorHeld DEF Near, Shows
    <2> QED
        BY <2>1, <2>2, <2>3
<1>3. after = AfterLateInit(c, r)
    BY DEF ReadDone
<1> HIDE DEF current
<1>4. r \in Resource /\ AppliedBut(m, r.spec, cluster)
    <2>1. r \in Resource /\ c.latest.spec \in ClusterSpec
        BY <1>1, <1>2, LateInitializeType, StatusType
    <2>2. CASE current.spec.deletionProtection = Nil
        <3>1. r = [current EXCEPT !.spec.deletionProtection = o.spec.deletionProtection]
            BY <2>2 DEF LateInitialize
        <3> HIDE DEF r
        <3>2. /\ r.spec.deletionProtection = o.spec.deletionProtection
              /\ r.spec.tags = current.spec.tags /\ r.spec.policy = current.spec.policy
            BY <1>2, <3>1 DEF Resource, ClusterSpec
        <3> QED
            BY <1>1, <1>2, <2>1, <3>2 DEF Near, Shows, AppliedBut
    <2>3. CASE current.spec.deletionProtection # Nil
        <3>1. r = current
            BY <2>3 DEF LateInitialize
        <3> QED
            BY <1>1, <1>2, <2>1, <2>3, <3>1 DEF Near, AppliedBut
    <2> QED
        BY <2>2, <2>3
<1> HIDE DEF r
<1>5. CASE r = c.latest
    <2>1. /\ after.pc = "publish" /\ after.result = "done" /\ after.caller = "lateInit"
          /\ after.desired = c.desired /\ after.latest = c.latest
        BY <1>3, <1>5 DEF AfterLateInit, Controller
    <2> HIDE DEF after
    <2>2. Carries(after) /\ Agrees(m, after, cluster)
        BY <1>1, <1>4, <1>5, <2>1 DEF Carries, Agrees
    <2> QED
        BY <2>2 DEF after
<1>6. CASE r # c.latest
    <2>1. /\ after.pc = "patchSpec" /\ after.result = c.result /\ after.caller = "lateInit"
          /\ after.latest = r
        BY <1>3, <1>4, <1>6 DEF AfterLateInit, Controller
    <2>2. Near(m, r.spec, cluster)
        BY <1>4 DEF Near, AppliedBut
    <2> HIDE DEF after
    <2>3. Carries(after) /\ Agrees(m, after, cluster)
        BY <1>4, <2>1, <2>2 DEF Carries, Agrees
    <2> QED
        BY <2>3 DEF after
<1> QED
    BY <1>5, <1>6

\* All that a successful read leads to.
LEMMA ReadHeld ==
    ASSUME NEW m, NEW c \in Controller, NEW o \in Resource, NEW cluster \in Cluster,
           c.pc = "getPolicy", c.caller \in {"sync", "created", "lateInit", "delete"},
           c.result # "done", Carries(c), Agrees(m, c, cluster),
           c.caller = "sync" => o.status.identifier = c.desired.status.identifier,
           c.caller # "delete" =>
              Shows(m, o.spec, cluster) /\ o.spec.policy = cluster.policy
    PROVE  Carries(ReadDone(c, o)) /\ Agrees(m, ReadDone(c, o), cluster)
<1>1. CASE c.caller = "sync"
    BY <1>1, SyncReadHeld DEF ReadDone
<1>2. CASE c.caller = "delete"
    BY <1>2, DeleteReadHeld DEF ReadDone
<1>3. CASE c.caller = "lateInit"
    BY <1>3, LateInitHeld
<1>4. CASE c.caller = "created"
    <2> DEFINE current == MirrorAWSTags(c.latest, o)
               r       == [current EXCEPT !.status = o.status]
               after   == ReadDone(c, o)
    <2>1. c.latest \in Resource /\ Near(m, c.latest.spec, cluster)
        BY <1>4, SubjectType DEF Agrees
    <2>2. Near(m, current.spec, cluster)
        BY <1>4, <2>1, MirrorHeld, MirrorsTags DEF Near, Shows
    <2>3. after = [c EXCEPT !.pc = "patchSpec", !.latest = r]
        BY <1>4 DEF ReadDone
    <2>4. current \in Resource /\ r.spec = current.spec
        BY <2>1, MirrorType DEF Resource
    <2> HIDE DEF r, current
    <2>5. /\ after.pc = "patchSpec" /\ after.caller = "created" /\ after.latest = r
          /\ after.result = c.result
        BY <1>4, <2>3 DEF Controller
    <2> HIDE DEF after
    <2>6. Carries(after) /\ Agrees(m, after, cluster)
        BY <2>2, <2>4, <2>5 DEF Carries, Agrees
    <2> QED
        BY <2>6 DEF after
<1> QED
    BY <1>1, <1>2, <1>3, <1>4


-----------------------------------------------------------------------------
(* The calls of an update *)

\* One call less to make.
Without(c, call) == [c EXCEPT !.todo = c.todo \ {call}]

\* A call that was answered without an error leaves the others, or ends the update.
LEMMA CallHeld ==
    ASSUME NEW m, NEW c \in Controller, NEW err, NEW updated \in Resource, NEW cluster \in Cluster,
           c.pc = "mutate", c.caller \in {"sync", "delete"}, c.result # "done",
           updated.spec = c.desired.spec,
           c.caller = "sync" /\ err = "none" => Progress(m, Without(c, NextCall(c)), cluster)
    PROVE  /\ Carries(AfterCall(c, err, updated))
           /\ Agrees(m, AfterCall(c, err, updated), cluster)
<1> DEFINE left  == c.todo \ {NextCall(c)}
           after == AfterCall(c, err, updated)
           ended == [c EXCEPT !.todo = {}]
<1>1. /\ after = IF err # "none" THEN Fail(ended, c.latest, err)
                 ELSE IF left # {} THEN [c EXCEPT !.todo = left]
                 ELSE UpdateDone(ended, updated)
      /\ Without(c, NextCall(c)) = [c EXCEPT !.todo = left]
    BY DEF AfterCall, Without
<1>2. c.latest \in Resource /\ c.desired \in Resource /\ left \in SUBSET Calls
    BY SubjectType DEF Controller
<1> HIDE DEF left
<1>3. /\ ended \in Controller /\ ended.caller = c.caller /\ ended.result = c.result
      /\ [c EXCEPT !.todo = left].todo = left
      /\ [c EXCEPT !.todo = left].latest = c.latest
      /\ [c EXCEPT !.todo = left].desired = c.desired
      /\ [c EXCEPT !.todo = left].pc = "mutate"
      /\ [c EXCEPT !.todo = left].caller = c.caller
      /\ [c EXCEPT !.todo = left].result = c.result
    BY <1>2 DEF Controller
<1>4. CASE err # "none"
    BY <1>1, <1>2, <1>3, <1>4, FailHeld
<1>5. CASE err = "none" /\ left # {}
    <2> DEFINE next == [c EXCEPT !.todo = left]
    <2>1. after = next /\ (c.caller = "sync" => Progress(m, next, cluster))
        BY <1>1, <1>5
    <2>2. next.pc = "mutate" /\ next.caller = c.caller /\ next.result # "done"
        BY <1>3
    <2> HIDE DEF next, after
    <2>3. Carries(next) /\ Agrees(m, next, cluster)
        BY <2>1, <2>2 DEF Carries, Agrees
    <2> QED
        BY <2>1, <2>3 DEF after
<1>6. CASE err = "none" /\ left = {}
    <2> DEFINE done == OnSuccess(updated)
    <2>1. done.spec = c.desired.spec /\ done \in Resource
        BY ConditionsType DEF OnSuccess, Resource
    <2>2. after = [ended EXCEPT !.pc = IF ended.caller = "delete" THEN "delete" ELSE "patchSpec",
                                !.latest = done]
        BY <1>1, <1>6 DEF UpdateDone
    <2> HIDE DEF ended, done
    <2>3. /\ after.pc = IF c.caller = "delete" THEN "delete" ELSE "patchSpec"
          /\ after.latest = done /\ after.caller = c.caller /\ after.result # "done"
        BY <1>3, <2>1, <2>2 DEF Controller
    <2> HIDE DEF after
    <2>4. CASE c.caller = "delete"
        <3>1. Carries(after) /\ Agrees(m, after, cluster)
            BY <2>3, <2>4, NothingHeld
        <3> QED
            BY <3>1 DEF after
    <2>5. CASE c.caller = "sync"
        <3> DEFINE next == [c EXCEPT !.todo = left]
                   to   == c.desired.spec.tags
        <3>1. Progress(m, next, cluster)
            BY <1>1, <1>6, <2>5
        <3>2. next.todo = {} /\ next.desired = c.desired
            BY <1>3, <1>6
        <3> HIDE DEF next
        <3>3. /\ "tags" \in m \/ \A k \in TagKeys : cluster.tags[k] = to[k]
              /\ "policy" \in m \/ PolicyMatches(c.desired.spec.policy, cluster.policy)
              /\ \/ "deletionProtection" \in m
                 \/ c.desired.spec.deletionProtection \in {Nil, cluster.deletionProtection}
            BY <3>1, <3>2 DEF Progress
        <3>4. cluster.tags \in TagMaps /\ to \in TagMaps
            BY <1>2, StatusType DEF Cluster, ClusterSpec
        <3>5. "tags" \in m \/ cluster.tags = to
            BY <3>3, <3>4 DEF TagMaps
        <3>6. Near(m, done.spec, cluster)
            BY <2>1, <3>3, <3>5 DEF Near
        <3>7. Carries(after) /\ Agrees(m, after, cluster)
            BY <2>3, <2>5, <3>6 DEF Carries, Agrees
        <3> QED
            BY <3>7 DEF after
    <2> QED
        BY <2>4, <2>5
<1> QED
    BY <1>4, <1>5, <1>6

\* TagResource gets done what it is for and does not disturb the calls that are left.
LEMMA TagProgress ==
    ASSUME NEW m, ServiceTypeOK, NEW c \in Controller, NEW id \in Ids, Progress(m, c, aws[id]),
           NEW to, to = c.desired.spec.tags
    PROVE  Progress(m, Without(c, "tag"),
                    AfterTag(id, TagsAdded(c.latest.spec.tags, to), to)[id])
<1> DEFINE added == TagsAdded(c.latest.spec.tags, to)
           tags  == [k \in TagKeys |-> IF k \in added THEN to[k] ELSE aws[id].tags[k]]
           after == AfterTag(id, added, to)[id]
<1>1. AfterTag(id, added, to) = [aws EXCEPT ![id].tags = tags]
    BY DEF AfterTag
<1> HIDE DEF tags
<1>2. /\ after.tags = tags /\ after.policy = aws[id].policy
      /\ after.deletionProtection = aws[id].deletionProtection
    BY <1>1 DEF ServiceTypeOK, Cluster
<1>3. \A k \in TagKeys : after.tags[k] = IF k \in added THEN to[k] ELSE aws[id].tags[k]
    BY <1>2 DEF tags
<1>4. /\ Without(c, "tag").latest = c.latest /\ Without(c, "tag").desired = c.desired
      /\ Without(c, "tag").todo = c.todo \ {"tag"}
    BY DEF Without, Controller
<1> HIDE DEF after
<1>5. Progress(m, Without(c, "tag"), after)
    BY <1>2, <1>3, <1>4 DEF Progress
<1> QED
    BY <1>5 DEF after

\* UntagResource does so for the tags it takes off ...
LEMMA UntagProgress ==
    ASSUME NEW m, ServiceTypeOK, NEW c \in Controller, NEW id \in Ids, Progress(m, c, aws[id])
    PROVE  Progress(m, Without(c, "untag"),
                    AfterUntag(id, TagsRemoved(c.latest.spec.tags, c.desired.spec.tags))[id])
<1> DEFINE to      == c.desired.spec.tags
           removed == TagsRemoved(c.latest.spec.tags, to)
           tags    == [k \in TagKeys |-> IF k \in removed THEN NoTag ELSE aws[id].tags[k]]
           after   == AfterUntag(id, removed)[id]
<1>1. AfterUntag(id, removed) = [aws EXCEPT ![id].tags = tags]
    BY DEF AfterUntag
<1> HIDE DEF tags
<1>2. /\ after.tags = tags /\ after.policy = aws[id].policy
      /\ after.deletionProtection = aws[id].deletionProtection
    BY <1>1 DEF ServiceTypeOK, Cluster
<1>3. \A k \in TagKeys : after.tags[k] = IF k \in removed THEN NoTag ELSE aws[id].tags[k]
    BY <1>2 DEF tags
<1>4. \A k \in removed : k \in TagKeys /\ to[k] = NoTag
    BY DEF TagsRemoved, TagsAdded
<1>5. /\ Without(c, "untag").latest = c.latest /\ Without(c, "untag").desired = c.desired
      /\ Without(c, "untag").todo = c.todo \ {"untag"}
    BY DEF Without, Controller
<1> HIDE DEF after
<1>6. Progress(m, Without(c, "untag"), after)
    BY <1>2, <1>3, <1>4, <1>5 DEF Progress
<1> QED
    BY <1>6 DEF after

\* ... a call that leaves the cluster with the desired policy for the policy ...
LEMMA PolicyProgress ==
    ASSUME NEW m, NEW c \in Controller, NEW cluster \in Cluster, NEW policy, Progress(m, c, cluster),
           PolicyMatches(c.desired.spec.policy, policy)
    PROVE  Progress(m, Without(c, "policy"), [cluster EXCEPT !.policy = policy])
<1> DEFINE after == [cluster EXCEPT !.policy = policy]
<1>1. /\ after.tags = cluster.tags /\ after.policy = policy
      /\ after.deletionProtection = cluster.deletionProtection
    BY DEF Cluster
<1>2. /\ Without(c, "policy").latest = c.latest /\ Without(c, "policy").desired = c.desired
      /\ Without(c, "policy").todo = c.todo \ {"policy"}
    BY DEF Without, Controller
<1> HIDE DEF after
<1>3. Progress(m, Without(c, "policy"), after)
    BY <1>1, <1>2 DEF Progress
<1> QED
    BY <1>3 DEF after

\* ... and UpdateCluster for the protection.
LEMMA UpdateProgress ==
    ASSUME NEW m, ServiceTypeOK, NEW c \in Controller, NEW id \in Ids, Progress(m, c, aws[id]),
           NEW input, input.deletionProtection = c.desired.spec.deletionProtection
    PROVE  Progress(m, Without(c, "cluster"), AfterUpdate(id, input)[id])
<1> DEFINE changed == Updated(aws[id], input)
           after   == AfterUpdate(id, input)[id]
<1>1. aws[id] \in Cluster
    BY ClusterType
<1>2. /\ changed.tags = aws[id].tags /\ changed.policy = aws[id].policy
      /\ input.deletionProtection \in {Nil, changed.deletionProtection}
      /\ [changed EXCEPT !.status = "UPDATING"].tags = changed.tags
      /\ [changed EXCEPT !.status = "UPDATING"].policy = changed.policy
      /\ [changed EXCEPT !.status = "UPDATING"].deletionProtection = changed.deletionProtection
    BY <1>1 DEF Updated, Cluster
<1>3. after = IF changed = aws[id] \/ aws[id].status \notin {"ACTIVE", "IDLE", "INACTIVE"}
              THEN changed ELSE [changed EXCEPT !.status = "UPDATING"]
    BY DEF AfterUpdate, ServiceTypeOK
<1> HIDE DEF changed, after
<1>4. /\ after.tags = aws[id].tags /\ after.policy = aws[id].policy
      /\ input.deletionProtection \in {Nil, after.deletionProtection}
    BY <1>2, <1>3
<1>5. /\ Without(c, "cluster").latest = c.latest /\ Without(c, "cluster").desired = c.desired
      /\ Without(c, "cluster").todo = c.todo \ {"cluster"}
    BY DEF Without, Controller
<1>6. Progress(m, Without(c, "cluster"), after)
    BY <1>4, <1>5 DEF Progress
<1> QED
    BY <1>6 DEF after

-----------------------------------------------------------------------------
(* The steps *)

\* A step that ends no cluster, and stays with the one it works on, leaves it live.
LEMMA AliveKept ==
    ASSUME \A id \in Ids : Live(id) => Live(id)', Known' = Known,
           cr'.status.identifier = cr.status.identifier, cr.deleting => cr'.deleting,
           ctl'.caller \in {"sync", "created", "lateInit"} =>
              \/ ctl.caller \in {"sync", "created", "lateInit"}
              \/ ~cr.deleting /\ Known = cr.status.identifier
    PROVE  AliveInv => AliveInv'
    BY DEF AliveInv

\* An account from which nothing moved has the same live clusters.
LEMMA UnmovedLive ==
    ASSUME Unmoved(aws, aws')
    PROVE  \A id \in Ids : Live(id)' <=> Live(id)
    BY DEF Unmoved, Live

\* An account that is as it was has the same live clusters.
LEMMA SameLive ==
    ASSUME aws' = aws
    PROVE  \A id \in Ids : Live(id)' <=> Live(id)
    BY DEF Live

\* Only the end of a reconciliation has a result.
LEMMA NotDone ==
    ASSUME Carries(ctl), ctl.pc # "publish"
    PROVE  ctl.result # "done"
    BY DEF Carries

\* What a read leads to carries on, whatever there is to be read.
LEMMA ReadCarries ==
    ASSUME NEW c \in Controller, NEW o \in Resource,
           c.pc = "getPolicy", c.caller \in {"sync", "created", "lateInit", "delete"},
           c.result # "done", Carries(c),
           o.spec.policy \in (Policies \ {EmptyPolicy}) \cup {Nil},
           c.caller = "sync" => o.status.identifier = c.desired.status.identifier
    PROVE  Carries(ReadDone(c, o))
<1> DEFINE cluster == [status |-> "ACTIVE", deletionProtection |-> "on", kmsKey |-> Nil,
                       multiRegion |-> Nil, policy |-> o.spec.policy, tags |-> o.spec.tags]
<1>1. cluster \in Cluster /\ cluster.policy = o.spec.policy
    BY StatusType DEF Cluster, Statuses, Gone, ClusterSpec
<1> HIDE DEF cluster
<1>2. Agrees(Fields, c, cluster) /\ Shows(Fields, o.spec, cluster)
    BY DEF Agrees, Shows, Near, Progress, AppliedBut, Fields
<1> QED
    BY <1>1, <1>2, ReadHeld

\* The two requests of a read keep the invariant.
LEMMA ReadApplied ==
    ASSUME NEW m, WorkerInv, WorkerInv', Applied(m), GetCluster \/ GetClusterPolicy
    PROVE  Applied(m)'
<1>t. /\ TypeOK /\ ServiceTypeOK /\ ctl \in Controller /\ IdentifierInv
      /\ ContractInv /\ Carries(ctl)
      /\ Subject(ctl) \in Resource /\ ctl.observed \in Resource
    BY SubjectType DEF WorkerInv, TypeOK, Applied
<1>1. /\ aws' = aws /\ cr' = cr /\ Known' = Known
      /\ ctl.caller \in {"sync", "created", "lateInit", "delete"}
      /\ ctl'.caller = "delete" <=> ctl.caller = "delete"
    BY <1>t, ReadKeeps
<1>2. ContractInv' /\ (AliveInv => AliveInv')
    BY <1>t, <1>1, ReadUnseen, AliveKept, SameLive
<1>3. ctl.result # "done"
    BY <1>t, NotDone DEF GetCluster, GetClusterPolicy
<1>4. Subject(ctl).status.identifier = Known
    BY <1>t, <1>1 DEF Subject, Known, IdentifierInv
<1>5. ASSUME NEW err, ctl' = ReadFailed(ctl, err)
      PROVE  Carries(ctl)' /\ \A id \in Ids : Agrees(m, ctl', aws[id])
    BY <1>t, <1>1, <1>3, <1>5, ReadFailedHeld
<1>6. CASE GetCluster
    <2>1. SUFFICES ASSUME Known # Nil,
                   ctl' = [ctl EXCEPT !.pc       = "getPolicy",
                                      !.observed = Observe(Subject(ctl), aws[Known])]
                   PROVE  Carries(ctl)' /\ (Live(Known) => Agrees(m, ctl', aws[Known]))
        BY <1>1, <1>2, <1>4, <1>5, <1>6, SameLive DEF GetCluster, Applied
    <2>2. Known \in Ids /\ aws[Known] \in Cluster
        BY <1>t, <1>4, <2>1, StatusType, ClusterType
    <2> DEFINE o == Observe(Subject(ctl), aws[Known])
    <2>3. o.spec.deletionProtection = aws[Known].deletionProtection /\ o.spec.tags = aws[Known].tags
        BY <1>t, <2>2 DEF Observe, Resource, ClusterSpec
    <2> HIDE DEF o
    <2>4. /\ ctl'.pc = "getPolicy" /\ ctl.pc = "getCluster" /\ ctl'.observed = o
          /\ ctl'.caller = ctl.caller /\ ctl'.desired = ctl.desired /\ ctl'.latest = ctl.latest
          /\ ctl'.result = ctl.result
        BY <1>t, <1>6, <2>1 DEF Controller, GetCluster, o
    <2>5. Live(Known) => Agrees(m, ctl, aws[Known])
        BY <2>2 DEF Applied
    <2> QED
        BY <1>t, <1>3, <2>3, <2>4, <2>5 DEF Carries, Agrees, Shows
<1>7. CASE GetClusterPolicy
    <2> DEFINE id == ctl.observed.status.identifier
    <2>1. /\ ctl.pc = "getPolicy" /\ id = Known /\ id \in Ids /\ aws[id] \in Cluster
          /\ ctl.caller = "sync" => id = ctl.desired.status.identifier
        BY <1>t, <1>4, <1>7, StatusType, ClusterType DEF GetClusterPolicy, IdentifierInv, Subject
    <2>2. PICK err, policy :
             /\ policy = IF err = "none" THEN aws[id].policy ELSE Nil
             /\ err = "notFound" => GetPolicyVerdict(id) = "notFound"
             /\ ctl' = IF err \in {"none", "notFound"}
                       THEN ReadDone(ctl, OnSuccess([ctl.observed EXCEPT !.spec.policy = policy]))
                       ELSE ReadFailed(ctl, err)
        BY <1>7 DEF GetClusterPolicy, Answer
    <2>3. CASE err \in {"none", "notFound"}
        <3> DEFINE seen == [ctl.observed EXCEPT !.spec.policy = policy]
                   o    == OnSuccess(seen)
        <3>1. policy \in (Policies \ {EmptyPolicy}) \cup {Nil}
            BY <2>1, <2>2 DEF Cluster
        <3>2. /\ seen \in Resource /\ seen.status = ctl.observed.status
              /\ seen.spec.deletionProtection = ctl.observed.spec.deletionProtection
              /\ seen.spec.tags = ctl.observed.spec.tags /\ seen.spec.policy = policy
            BY <1>t, <3>1 DEF Resource, ClusterSpec
        <3> HIDE DEF seen
        <3>3. o \in Resource /\ o.status.identifier = id /\ o.spec = seen.spec
            BY <3>2, ConditionsType DEF OnSuccess, Resource
        <3>4. ctl' = ReadDone(ctl, o)
            BY <2>2, <2>3 DEF seen
        <3> HIDE DEF o
        <3>5. Live(id) => policy = aws[id].policy
            BY <2>2, <2>3 DEF GetPolicyVerdict, Found, Live
        <3>6. Live(id) => Agrees(m, ctl, aws[id])
            BY <2>1 DEF Applied
        <3>7. Live(id) /\ ctl.caller # "delete" =>
                 Shows(m, o.spec, aws[id]) /\ o.spec.policy = aws[id].policy
            BY <2>1, <3>2, <3>3, <3>5, <3>6 DEF Agrees, Shows
        <3>8. Live(id) => Carries(ctl') /\ Agrees(m, ctl', aws[id])
            BY <1>t, <1>1, <1>3, <2>1, <3>3, <3>4, <3>6, <3>7, ReadHeld
        <3>9. Carries(ctl')
            BY <1>t, <1>1, <1>3, <2>1, <3>1, <3>2, <3>3, <3>4, ReadCarries
        <3> QED
            BY <1>1, <1>2, <2>1, <3>8, <3>9, SameLive DEF Applied
    <2>4. CASE err \notin {"none", "notFound"}
        BY <1>1, <1>2, <1>5, <2>2, <2>4, SameLive DEF Applied
    <2> QED
        BY <2>3, <2>4
<1> QED
    BY <1>6, <1>7

\* The four calls of an update: an answer without an error means that the call was
\* served; only the deletion of a policy may find that there is nothing to do.
LEMMA UpdateApplied ==
    ASSUME NEW m, WorkerInv, WorkerInv', Applied(m),
           TagResource \/ UntagResource \/ SyncPolicy \/ UpdateCluster
    PROVE  Applied(m)'
<1>t. /\ TypeOK /\ ServiceTypeOK /\ ServiceTypeOK' /\ ctl \in Controller /\ IdentifierInv
      /\ ContractInv /\ Carries(ctl)
      /\ ctl.desired \in Resource /\ ctl.latest \in Resource
    BY SubjectType DEF WorkerInv, TypeOK, Applied
<1>1. /\ ctl.pc = "mutate" /\ cr' = cr /\ Known' = Known
      /\ ctl.caller \in {"sync", "delete"} /\ ctl'.caller = ctl.caller
      /\ Id \in Ids /\ Id = Known /\ Unmoved(aws, aws')
    BY UpdateKeeps
<1>2. /\ ContractInv' /\ (AliveInv => AliveInv')
      /\ \A id \in Ids : Live(id)' <=> Live(id)
    BY <1>t, <1>1, UpdateUnseen, AliveKept, UnmovedLive
<1>3. ctl.result # "done" /\ aws[Id] \in Cluster /\ aws'[Id] \in Cluster
    BY <1>t, <1>1, NotDone, ClusterType DEF ServiceTypeOK
<1>4. ctl.caller = "sync" /\ Live(Id) => Progress(m, ctl, aws[Id])
    BY <1>t, <1>1 DEF Applied, Agrees
<1>5. ASSUME NEW err, NEW updated \in Resource, updated.spec = ctl.desired.spec,
             ctl' = AfterCall(ctl, err, updated),
             ctl.caller = "sync" /\ Live(Id) /\ err = "none" =>
                Progress(m, Without(ctl, NextCall(ctl)), aws'[Id])
      PROVE  Applied(m)'
    <2>1. Live(Id) => Agrees(m, ctl', aws'[Id])
        BY <1>t, <1>1, <1>3, <1>5, CallHeld
    <2>2. Progress(Fields, Without(ctl, NextCall(ctl)), aws'[Id])
        BY DEF Progress, Fields
    <2>3. Carries(ctl')
        BY <1>t, <1>1, <1>3, <1>5, <2>2, CallHeld
    <2> QED
        BY <1>1, <1>2, <2>1, <2>3 DEF Applied
<1>6. CASE TagResource
    <2> DEFINE to     == ctl.desired.spec.tags
               effect == AfterTag(Id, TagsAdded(ctl.latest.spec.tags, to), to)
    <2>1. PICK fate \in Fates :
             /\ Effect(fate, MutateVerdict(Id), effect)
             /\ ctl' = AfterCall(ctl, Answer(fate, MutateVerdict(Id)), ctl.desired)
        BY <1>6 DEF TagResource
    <2>2. Answer(fate, MutateVerdict(Id)) = "none" => aws' = effect
        BY <2>1 DEF Answer, Effect
    <2>3. ctl.caller = "sync" /\ Live(Id) => Progress(m, Without(ctl, "tag"), effect[Id])
        BY <1>t, <1>1, <1>4, TagProgress
    <2> HIDE DEF effect
    <2> QED
        BY <1>t, <1>5, <1>6, <2>1, <2>2, <2>3 DEF TagResource
<1>7. CASE UntagResource
    <2> DEFINE effect == AfterUntag(Id, TagsRemoved(ctl.latest.spec.tags, ctl.desired.spec.tags))
    <2>1. PICK fate \in Fates :
             /\ Effect(fate, MutateVerdict(Id), effect)
             /\ ctl' = AfterCall(ctl, Answer(fate, MutateVerdict(Id)), ctl.desired)
        BY <1>7 DEF UntagResource
    <2>2. Answer(fate, MutateVerdict(Id)) = "none" => aws' = effect
        BY <2>1 DEF Answer, Effect
    <2>3. ctl.caller = "sync" /\ Live(Id) => Progress(m, Without(ctl, "untag"), effect[Id])
        BY <1>t, <1>1, <1>4, UntagProgress
    <2> HIDE DEF effect
    <2> QED
        BY <1>t, <1>5, <1>7, <2>1, <2>2, <2>3 DEF UntagResource
<1>8. CASE SyncPolicy
    <2> DEFINE policy  == ctl.desired.spec.policy
               remove  == policy \in {Nil, EmptyPolicy}
               target  == IF remove THEN Nil ELSE policy
               verdict == IF remove THEN DeletePolicyVerdict(Id)
                                    ELSE PutPolicyVerdict(Id, policy)
    <2>1. PICK fate \in Fates :
             /\ Effect(fate, verdict, AfterPolicy(Id, target))
             /\ ctl' = AfterCall(ctl, IF remove /\ Answer(fate, verdict) = "notFound"
                                      THEN "none" ELSE Answer(fate, verdict), ctl.desired)
        BY <1>8 DEF SyncPolicy
    <2>2. PolicyMatches(policy, target)
        BY DEF PolicyMatches
    <2>3. AfterPolicy(Id, target)[Id] = [aws[Id] EXCEPT !.policy = target]
        BY <1>t, <1>1 DEF AfterPolicy, ServiceTypeOK
    <2>4. Answer(fate, verdict) = "none" => aws'[Id] = [aws[Id] EXCEPT !.policy = target]
        BY <2>1, <2>3 DEF Answer, Effect
    <2>5. remove /\ Answer(fate, verdict) = "notFound" /\ Live(Id) =>
             aws'[Id] = [aws[Id] EXCEPT !.policy = target]
        <3> SUFFICES ASSUME remove, Answer(fate, verdict) = "notFound", Live(Id)
                     PROVE  aws'[Id] = [aws[Id] EXCEPT !.policy = target]
            OBVIOUS
        <3>1. DeletePolicyVerdict(Id) = "notFound" /\ fate = "served"
            BY DEF Answer
        <3>2. aws[Id].policy = Nil
            BY <3>1 DEF DeletePolicyVerdict, MutateVerdict, Found, Live
        <3>3. aws' = aws
            BY <2>1, <3>1 DEF Effect
        <3> QED
            BY <1>3, <3>2, <3>3 DEF Cluster
    <2>6. ctl.caller = "sync" /\ Live(Id) =>
             Progress(m, Without(ctl, "policy"), [aws[Id] EXCEPT !.policy = target])
        BY <1>t, <1>3, <1>4, <2>2, PolicyProgress
    <2> HIDE DEF target, verdict, remove
    <2> QED
        BY <1>t, <1>5, <1>8, <2>1, <2>4, <2>5, <2>6 DEF SyncPolicy
<1>9. CASE UpdateCluster
    <2> DEFINE input   == NewUpdateRequestPayload(ctl.desired, ctl.latest)
               effect  == AfterUpdate(Id, input)
               updated == [ctl.desired EXCEPT !.status.status = effect[Id].status]
    <2>1. PICK fate \in Fates :
             /\ Effect(fate, UpdateVerdict(Id, input), effect)
             /\ ctl' = AfterCall(ctl, Answer(fate, UpdateVerdict(Id, input)), updated)
        BY <1>9 DEF UpdateCluster
    <2>2. Answer(fate, UpdateVerdict(Id, input)) = "none" => aws' = effect
        BY <2>1 DEF Answer, Effect
    <2>3. ctl.caller = "sync" /\ Live(Id) => Progress(m, Without(ctl, "cluster"), effect[Id])
        BY <1>t, <1>1, <1>4, UpdateProgress DEF NewUpdateRequestPayload
    <2>4. CASE Answer(fate, UpdateVerdict(Id, input)) # "none"
        <3>1. ctl' = AfterCall(ctl, Answer(fate, UpdateVerdict(Id, input)), ctl.desired)
            BY <2>1, <2>4 DEF AfterCall
        <3> QED
            BY <1>t, <1>5, <2>4, <3>1
    <2>5. CASE Answer(fate, UpdateVerdict(Id, input)) = "none"
        <3>1. aws[Id].status \in Statuses
            BY <1>t, <1>1, <2>5, ClusterType DEF Answer, UpdateVerdict, MutateVerdict
        <3>2. effect[Id].status \in Statuses
            BY <1>t, <1>1, <3>1 DEF AfterUpdate, Updated, ServiceTypeOK, Cluster, Statuses
        <3>3. updated \in Resource /\ updated.spec = ctl.desired.spec
            BY <1>t, <3>2 DEF Resource, ClusterStatus
        <3> HIDE DEF effect, input, updated
        <3> QED
            BY <1>5, <1>9, <2>1, <2>2, <2>3, <2>5, <3>3 DEF UpdateCluster
    <2> QED
        BY <2>4, <2>5
<1> QED
    BY <1>6, <1>7, <1>8, <1>9

\* What leaves the account and the identifiers alone.
LEMMA QuietApplied ==
    ASSUME NEW m, WorkerInv, WorkerInv', Applied(m),
           UNCHANGED vars \/ Start \/ Manage \/ PatchSpec \/ Resync \/ EditSpec
    PROVE  Applied(m)'
<1>t. /\ TypeOK /\ ctl \in Controller /\ CallerInv
      /\ ContractInv /\ Carries(ctl) /\ ctl.latest \in Resource
    BY SubjectType DEF WorkerInv, TypeOK, Applied
<1>1. /\ aws' = aws /\ cr'.deleting = cr.deleting /\ cr'.status = cr.status /\ Known' = Known
    BY <1>t, QuietKeep
<1>2. ContractInv' /\ \A id \in Ids : Live(id)' <=> Live(id)
    BY <1>t, <1>1, QuietSteps, SameLive
<1>3. CASE ctl' = ctl
    <2>1. AliveInv => AliveInv'
        BY <1>t, <1>1, <1>3, AliveKept, SameLive
    <2> QED
        BY <1>1, <1>2, <1>3, <2>1 DEF Applied
<1>4. CASE Start /\ ctl' # ctl
    <2>1. /\ ctl'.pc = "getCluster" /\ ctl'.caller \in {"sync", "delete"} /\ ctl'.result = "none"
          /\ ctl'.caller = "sync" => ~cr.deleting
          /\ Known = cr.status.identifier
        BY <1>t, <1>4 DEF Start, StartRead, IdleCtl, CallerInv, Known
    <2>2. AliveInv => AliveInv'
        BY <1>t, <1>1, <2>1, AliveKept, SameLive
    <2>3. \A cluster : Carries(ctl') /\ Agrees(m, ctl', cluster)
        BY <2>1, NothingHeld
    <2> QED
        BY <1>2, <2>2, <2>3 DEF Applied
<1>5. CASE Manage
    <2>1. /\ ctl'.pc \in {"create", "idle"} /\ ctl'.caller \in {"sync", "none"}
          /\ ctl'.result # "done" /\ ctl.caller = "sync"
        BY <1>t, <1>5, NotDone DEF Manage, IdleCtl, Controller, CallerInv
    <2>2. AliveInv => AliveInv'
        BY <1>t, <1>1, <2>1, AliveKept, SameLive
    <2>3. \A cluster : Carries(ctl') /\ Agrees(m, ctl', cluster)
        BY <2>1, NothingHeld
    <2> QED
        BY <1>2, <2>2, <2>3 DEF Applied
<1>6. CASE PatchSpec
    <2> DEFINE patched == [ctl EXCEPT !.desired = ctl.latest]
    <2>1. /\ ctl.pc = "patchSpec" /\ ctl.caller \in {"sync", "created", "lateInit"}
          /\ ctl.result # "done"
          /\ ctl' = IF ctl.caller = "lateInit"
                    THEN [patched EXCEPT !.pc = "publish", !.result = "done"]
                    ELSE StartRead(patched, "lateInit")
        BY <1>t, <1>6, NotDone DEF PatchSpec, CallerInv
    <2>2. /\ patched \in Controller /\ patched.desired = ctl.latest /\ patched.latest = ctl.latest
          /\ patched.caller = ctl.caller /\ patched.result = ctl.result
        BY <1>t DEF Controller
    <2> HIDE DEF patched
    <2>3. AliveInv => AliveInv'
        <3>1. Known' = Known /\ cr'.status.identifier = cr.status.identifier /\ cr'.deleting = cr.deleting
            BY <1>1
        <3> QED
            BY <1>t, <1>1, <2>1, <3>1, AliveKept, SameLive
    <2>4. \A id \in Ids : id = Known /\ Live(id) => Agrees(m, ctl, aws[id])
        BY DEF Applied
    <2>5. CASE ctl.caller = "lateInit"
        <3>1. /\ ctl'.pc = "publish" /\ ctl'.result = "done" /\ ctl'.caller = "lateInit"
              /\ ctl'.desired = ctl.latest /\ ctl'.latest = ctl.latest
            BY <2>1, <2>2, <2>5 DEF Controller
        <3>2. \A id \in Ids : id = Known /\ Live(id) => AppliedBut(m, ctl.latest.spec, aws[id])
            BY <2>1, <2>4, <2>5 DEF Agrees
        <3> QED
            BY <1>1, <1>2, <2>3, <3>1, <3>2 DEF Applied, Carries, Agrees
    <2>6. CASE ctl.caller # "lateInit"
        <3>1. ctl' = StartRead(patched, "lateInit")
            BY <2>1, <2>6
        <3>2. /\ ctl'.pc = "getCluster" /\ ctl'.caller = "lateInit"
              /\ ctl'.desired = ctl.latest /\ ctl'.latest = ctl.latest
            BY <2>2, <3>1, StartReadType
        <3>3. ctl'.result # "done"
            BY <2>1, <2>2, <3>1 DEF StartRead, Controller
        <3>4. \A id \in Ids : id = Known /\ Live(id) => Near(m, ctl.latest.spec, aws[id])
            BY <2>1, <2>4 DEF Agrees
        <3> QED
            BY <1>1, <1>2, <2>3, <3>2, <3>3, <3>4 DEF Applied, Carries, Agrees
    <2> QED
        BY <2>5, <2>6
<1>7. UNCHANGED vars \/ Resync \/ EditSpec => ctl' = ctl
    BY DEF vars, Resync, EditSpec
<1> QED
    BY <1>3, <1>4, <1>5, <1>6, <1>7

\* A new cluster is what it was asked to be; one whose answer is lost is not known.
LEMMA CreateApplied ==
    ASSUME NEW m, WorkerInv, WorkerInv', Applied(m), CreateCluster
    PROVE  Applied(m)'
<1>t. /\ TypeOK /\ ServiceTypeOK /\ ctl \in Controller /\ CallerInv /\ IdentifierInv
      /\ ContractInv /\ Carries(ctl) /\ ctl.desired \in Resource
    BY SubjectType DEF WorkerInv, TypeOK, Applied
<1> DEFINE spec    == ctl.desired.spec
           verdict == CreateVerdict(spec)
           new     == NewCluster(spec)
           created == Created(ctl.desired, NextId, new)
           made    == [ctl EXCEPT !.latest = OnSuccess(created)]
<1>1. PICK fate \in Fates :
         /\ Effect(fate, verdict, AfterCreate(spec))
         /\ ctl' = IF Answer(fate, verdict) = "none" THEN StartRead(made, "created")
                   ELSE [Fail(ctl, ctl.desired, Answer(fate, verdict)) EXCEPT !.pc = "unmanage"]
    BY DEF CreateCluster
<1>2. /\ cr' = cr /\ ctl.caller = "sync" /\ spec \in ClusterSpec /\ Known = cr.status.identifier
      /\ ctl.result # "done"
    BY <1>t, NotDone DEF CreateCluster, CallerInv, Resource, Known
<1>3. \/ aws' = aws
      \/ /\ verdict = "none" /\ NextId \in Ids /\ aws[NextId].status = "absent"
         /\ aws' = [aws EXCEPT ![NextId] = new]
    BY <1>1, NextIdType DEF Effect, AfterCreate
<1>4. /\ new \in Cluster /\ new.status = "CREATING"
    BY <1>2, NewClusterType
<1> HIDE DEF new
<1>5. \A id \in Ids : Live(id) => Live(id)'
    BY <1>t, <1>3, <1>4 DEF Live, Deleted, Gone, ServiceTypeOK
<1>6. CASE Answer(fate, verdict) # "none"
    <2> DEFINE failed == Fail(ctl, ctl.desired, Answer(fate, verdict))
    <2>1. failed \in Controller /\ failed.caller = "sync" /\ failed.result # "done"
        BY <1>t, <1>2, FailType, FailHeld
    <2>2. ctl' = [failed EXCEPT !.pc = "unmanage"]
        BY <1>1, <1>6
    <2> HIDE DEF failed
    <2>3. ctl'.pc = "unmanage" /\ ctl'.caller = "sync" /\ ctl'.result # "done"
        BY <2>1, <2>2 DEF Controller
    <2>4. Known' = Known
        BY <1>2, <2>3 DEF Known
    <2>5. ContractInv'
        BY <1>t, CreateIssues
    <2>6. AliveInv => AliveInv'
        BY <1>t, <1>2, <1>5, <2>3, <2>4, AliveKept
    <2>7. \A cluster : Carries(ctl') /\ Agrees(m, ctl', cluster)
        BY <2>3, NothingHeld
    <2> QED
        BY <2>5, <2>6, <2>7 DEF Applied
<1>7. CASE Answer(fate, verdict) = "none"
    <2>1. fate = "served" /\ verdict = "none" /\ NextId \in Ids
        BY <1>7, NextIdType DEF Answer
    <2>2. aws' = [aws EXCEPT ![NextId] = new]
        BY <1>1, <2>1 DEF Effect, AfterCreate, new
    <2>3. /\ aws'[NextId] = new /\ NextId # Nil
          /\ \A id \in Ids : id = NextId => Live(id)'
        BY <1>t, <1>4, <2>1, <2>2, ResourceAssumption DEF ServiceTypeOK, Live, Deleted, Gone, Ids
    <2>4. created \in Resource /\ created.status.identifier = NextId
        BY <1>t, <1>4, <2>1, CreatedType DEF Statuses
    <2>5. Near(m, created.spec, new)
        <3>1. /\ created.spec.deletionProtection = new.deletionProtection
              /\ created.spec.tags = spec.tags /\ created.spec.policy = spec.policy
            BY <1>t, <1>2 DEF Created, Resource, ClusterSpec
        <3>2. new.tags = spec.tags /\ PolicyMatches(spec.policy, new.policy)
            BY DEF new, NewCluster, PolicyMatches
        <3> QED
            BY <3>1, <3>2 DEF Near
    <2> HIDE DEF created
    <2>6. /\ OnSuccess(created) \in Resource /\ OnSuccess(created).spec = created.spec
          /\ OnSuccess(created).status.identifier = NextId
        BY <2>4, ConditionsType DEF OnSuccess, Resource
    <2>7. /\ made \in Controller /\ made.latest = OnSuccess(created) /\ made.result = ctl.result
        BY <1>t, <2>6 DEF Controller
    <2> HIDE DEF made
    <2>8. /\ ctl'.pc = "getCluster" /\ ctl'.caller = "created" /\ ctl'.result # "done"
          /\ ctl'.latest = OnSuccess(created)
        BY <1>1, <1>2, <1>7, <2>7 DEF StartRead, Controller
    <2>9. Known' = NextId
        BY <2>6, <2>8 DEF Known
    <2>10. ContractInv'
        BY <1>t, CreateIssues
    <2>11. AliveInv => AliveInv'
        BY <1>t, <1>2, <1>5, <2>3, <2>8, <2>9 DEF AliveInv
    <2>12. Carries(ctl')
        BY <2>8 DEF Carries
    <2>13. Agrees(m, ctl', aws'[NextId])
        BY <2>3, <2>5, <2>6, <2>8 DEF Agrees
    <2> QED
        BY <2>9, <2>10, <2>11, <2>12, <2>13 DEF Applied
<1> QED
    BY <1>6, <1>7

\* A deletion ends the cluster of a resource that is being deleted.
LEMMA DeleteApplied ==
    ASSUME NEW m, WorkerInv, WorkerInv', Applied(m), DeleteCluster
    PROVE  Applied(m)'
<1>t. /\ TypeOK /\ ServiceTypeOK /\ ctl \in Controller /\ CallerInv /\ IdentifierInv
      /\ ContractInv /\ Carries(ctl) /\ ctl.latest \in Resource /\ ctl.desired \in Resource
    BY SubjectType DEF WorkerInv, TypeOK, Applied
<1>1. PICK fate \in Fates :
         /\ Effect(fate, DeleteVerdict(Id), AfterDelete(Id))
         /\ ctl' = IF Answer(fate, DeleteVerdict(Id)) = "none"
                   THEN [ctl EXCEPT !.pc = "unmanage"]
                   ELSE Fail(ctl, ctl.latest, Answer(fate, DeleteVerdict(Id)))
    BY DEF DeleteCluster
<1>2. /\ cr' = cr /\ ctl.caller = "delete" /\ cr.deleting /\ ctl.result # "done"
      /\ Id \in Ids
    <2>1. ctl.pc = "delete" /\ cr' = cr
        BY DEF DeleteCluster
    <2>2. ctl.caller = "delete" /\ cr.deleting /\ Id # Nil
        BY <1>t, <2>1 DEF CallerInv, IdentifierInv, ContractInv, Id
    <2>3. ctl.result # "done"
        BY <1>t, <2>1, NotDone
    <2>4. Id \in Ids \cup {Nil}
        BY <1>t, StatusType DEF Id
    <2> QED
        BY <2>1, <2>2, <2>3, <2>4
<1>3. /\ ctl'.caller = "delete" /\ ctl'.pc \in {"unmanage", "publish"} /\ ctl'.result # "done"
    <2> DEFINE failed == Fail(ctl, ctl.latest, Answer(fate, DeleteVerdict(Id)))
    <2>1. failed.caller = "delete" /\ failed.pc = "publish" /\ failed.result # "done"
        BY <1>t, <1>2, FailType, FailHeld
    <2>2. ctl' = [ctl EXCEPT !.pc = "unmanage"] \/ ctl' = failed
        BY <1>1
    <2> HIDE DEF failed
    <2> QED
        BY <1>t, <1>2, <2>1, <2>2 DEF Controller
<1>4. ContractInv'
    BY <1>t, DeleteIssues
<1>5. AliveInv => AliveInv'
    BY <1>2, <1>3 DEF AliveInv
<1>6. \A cluster : Carries(ctl') /\ Agrees(m, ctl', cluster)
    BY <1>3, NothingHeld
<1> QED
    BY <1>4, <1>5, <1>6 DEF Applied

\* The resource goes: of itself, or once its finalizer is taken off.
LEMMA LeaveApplied ==
    ASSUME NEW m, WorkerInv, WorkerInv', Applied(m), DeleteCR \/ Unmanage
    PROVE  Applied(m)'
<1>t. /\ TypeOK /\ ctl \in Controller /\ cr \in CustomResource /\ CallerInv
      /\ ContractInv /\ Carries(ctl)
    BY DEF WorkerInv, TypeOK, Applied
<1>1. aws' = aws /\ cr'.status = cr.status /\ (cr.deleting => cr'.deleting)
    BY <1>t DEF DeleteCR, Unmanage, CustomResource
<1>2. CASE DeleteCR
    <2>1. ctl' = ctl /\ Known' = Known
        BY <1>1, <1>2 DEF DeleteCR, Known
    <2>2. ContractInv'
        BY <1>t, LeaveIssues
    <2>3. AliveInv => AliveInv'
        BY <1>t, <1>1, <2>1, AliveKept, SameLive
    <2> QED
        BY <1>1, <2>1, <2>2, <2>3, SameLive DEF Applied
<1>3. CASE Unmanage
    <2>1. /\ ctl.pc = "unmanage" /\ ctl.caller \in {"sync", "delete"} /\ ctl.result # "done"
          /\ ctl' = IF ctl.caller = "delete" THEN IdleCtl ELSE [ctl EXCEPT !.pc = "publish"]
        BY <1>t, <1>3, NotDone DEF Unmanage, CallerInv
    <2>2. /\ ctl'.caller \in {"none", "sync"} /\ ctl'.pc \in {"idle", "publish"}
          /\ ctl'.result # "done" /\ (ctl'.caller = "sync" => ctl.caller = "sync")
        BY <1>t, <2>1 DEF IdleCtl, Controller
    <2>3. Known' = Known
        BY <1>1, <2>1, <2>2 DEF Known
    <2>4. ContractInv'
        BY <1>t, LeaveIssues
    <2>5. AliveInv => AliveInv'
        BY <1>t, <1>1, <2>2, <2>3, AliveKept, SameLive
    <2>6. \A cluster : Carries(ctl') /\ Agrees(m, ctl', cluster)
        BY <2>2, NothingHeld
    <2> QED
        BY <2>4, <2>5, <2>6 DEF Applied
<1> QED
    BY <1>2, <1>3

\* A result that is published, or lost with the process, is no longer held.
LEMMA RestApplied ==
    ASSUME NEW m, WorkerInv, WorkerInv', Applied(m), Publish \/ Crash
    PROVE  Applied(m)'
<1>t. /\ TypeOK /\ ctl \in Controller /\ cr \in CustomResource /\ CallerInv /\ IdentifierInv
      /\ ContractInv /\ ctl.latest \in Resource
    BY SubjectType DEF WorkerInv, TypeOK, Applied
<1>1. /\ aws' = aws /\ ctl' = IdleCtl /\ ctl'.caller = "none" /\ ctl'.pc = "idle"
      /\ ctl'.result # "done"
    BY DEF Publish, Crash, IdleCtl
<1>2. /\ cr'.deleting = cr.deleting /\ Known' = cr'.status.identifier
      /\ \/ cr'.status.identifier = cr.status.identifier
         \/ ctl.caller # "none" /\ cr'.status.identifier = Known
    <2>1. CASE Crash
        BY <1>1, <2>1 DEF Crash, Known
    <2>2. CASE Publish
        <3> DEFINE status == [ctl.latest.status EXCEPT !.synced = ctl.result = "done"
                                                                /\ IsSynced(ctl.latest)]
        <3>1. /\ ctl.pc = "publish" /\ ctl.caller # "none"
              /\ cr' = IF cr.exists THEN [cr EXCEPT !.status = status] ELSE cr
            BY <1>t, <2>2 DEF Publish, CallerInv
        <3>2. Known = ctl.latest.status.identifier
            BY <1>t, <3>1 DEF Known, IdentifierInv, Controller
        <3>3. status.identifier = ctl.latest.status.identifier
            BY <1>t, StatusType DEF ClusterStatus
        <3> HIDE DEF status
        <3> QED
            BY <1>t, <1>1, <3>1, <3>2, <3>3 DEF CustomResource, Known
    <2> QED
        BY <2>1, <2>2
<1>3. ContractInv'
    BY <1>t, LeaveIssues
<1>4. ASSUME AliveInv
      PROVE  AliveInv'
    <2>1. ~cr.deleting => ctl.caller # "delete"
        BY <1>t DEF ContractInv
    <2>2. \A id \in Ids : Live(id)' <=> Live(id)
        BY <1>1 DEF Live
    <2>3. ~cr.deleting => \A id \in Ids : id = cr'.status.identifier => Live(id)
        BY <1>t, <1>2, <1>4, <2>1 DEF AliveInv, Controller
    <2> QED
        BY <1>1, <1>2, <2>2, <2>3 DEF AliveInv
<1>5. \A cluster : Carries(ctl') /\ Agrees(m, ctl', cluster)
    BY <1>1, NothingHeld
<1> QED
    BY <1>3, <1>4, <1>5 DEF Applied

-----------------------------------------------------------------------------
(* The account *)

\* What the worker agrees on is left when others change more.
LEMMA AgreesBut ==
    ASSUME NEW m, NEW n, m \subseteq n, NEW c, NEW before, NEW after, Agrees(m, c, before),
           "deletionProtection" \in n \/ after.deletionProtection = before.deletionProtection,
           "policy" \in n \/ after.policy = before.policy,
           "tags" \in n \/ after.tags = before.tags
    PROVE  Agrees(n, c, after)
    BY DEF Agrees, Shows, Near, AppliedBut, Progress

\* The service changes nothing of a live cluster but its status.
LEMMA ServiceKeepsContent ==
    ASSUME ServiceTypeOK, NEW id \in Ids, Settle(id) \/ Idle(id), NEW i \in Ids, Live(i)
    PROVE  SameContent(aws[i], aws'[i])
<1>1. ASSUME NEW s, MoveTo(id, s)
      PROVE  SameContent(aws[i], aws'[i])
    BY <1>1 DEF MoveTo, SameContent, ServiceTypeOK, Cluster
<1>2. CASE aws[id].status = "DELETED" /\ aws' = [aws EXCEPT ![id] = NoCluster("purged")]
    <2>1. i # id
        BY <1>2 DEF Live, Deleted
    <2> QED
        BY <1>2, <2>1 DEF SameContent, ServiceTypeOK
<1> QED
    BY <1>1, <1>2 DEF Settle, Idle

\* The service moves clusters through their states and keeps their content.
LEMMA ServiceApplied ==
    ASSUME NEW m, WorkerInv, Applied(m), NEW id \in Ids, ServiceSettles(id) \/ ServiceIdles(id)
    PROVE  Applied(m)'
<1>t. /\ ServiceTypeOK /\ ContractInv /\ Carries(ctl) /\ ctl \in Controller
      /\ CallerInv
    BY DEF WorkerInv, TypeOK, Applied
<1>1. /\ cr' = cr /\ ctl' = ctl /\ (Settle(id) \/ Idle(id))
    BY DEF ServiceSettles, ServiceIdles
<1>2. ContractInv'
    BY <1>t, ServiceUnseen
<1>3. Unmoved(aws, aws') /\ Known' = Known
    BY <1>t, <1>1, ServiceIsUnmoved DEF Known
<1>4. (AliveInv => AliveInv') /\ \A i \in Ids : Live(i)' <=> Live(i)
    BY <1>t, <1>1, <1>3, AliveKept, UnmovedLive
<1>5. ASSUME NEW i \in Ids, i = Known, Live(i)
      PROVE  Agrees(m, ctl, aws'[i])
    <2>1. Agrees(m, ctl, aws[i])
        BY <1>5 DEF Applied
    <2> QED
        BY <1>t, <1>1, <1>5, <2>1, ServiceKeepsContent, AgreesBut DEF SameContent
<1> QED
    BY <1>t, <1>1, <1>2, <1>3, <1>4, <1>5 DEF Applied

-----------------------------------------------------------------------------
(* What others change *)

\* Others bring no cluster back.
LEMMA DriftRevivesNone ==
    ASSUME ServiceTypeOK, NEW id \in Ids, Drift(id), NEW i \in Ids, Live(i)'
    PROVE  Live(i)
<1>1. ASSUME NEW k, NEW v, aws' = [aws EXCEPT ![id].tags[k] = v]
      PROVE  Live(i)
    <2> DEFINE new == [aws[id].tags EXCEPT ![k] = v]
    <2>1. aws' = [aws EXCEPT ![id].tags = new]
        BY <1>1
    <2> HIDE DEF new
    <2> QED
        BY <2>1 DEF Live, ServiceTypeOK, Cluster
<1>2. ASSUME NEW p, aws' = AfterUpdate(id, Protect(p))
      PROVE  Live(i)
    BY <1>2, ContentUnmoved, UnmovedLive
<1>3. CASE aws' = AfterPolicy(id, Nil)
    BY <1>3 DEF AfterPolicy, Live, ServiceTypeOK, Cluster
<1>4. CASE aws' = AfterDelete(id)
    BY <1>4 DEF AfterDelete, Live, Deleted, ServiceTypeOK, Cluster
<1> QED
    BY <1>1, <1>2, <1>3, <1>4 DEF Drift

\* What others change in a cluster the worker does not expect of it any more.
LEMMA DriftApplied ==
    ASSUME WorkerInv, WorkerInv', AppliedInv, Record, NEW id \in Ids, ServiceDrifts(id)
    PROVE  AppliedInv'
<1>t. /\ TypeOK /\ ServiceTypeOK /\ CallerInv /\ ContractInv /\ Carries(ctl)
      /\ ctl \in Controller
      /\ "deletion" \in met \/ AliveInv
    BY DEF WorkerInv, TypeOK, AppliedInv, Applied
<1>1. /\ cr' = cr /\ ctl' = ctl /\ Known' = Known /\ Drift(id)
    BY DEF ServiceDrifts, Known
<1>2. ContractInv'
    BY <1>t, IssuedStep DEF Next
<1>3. /\ met' \subseteq Marks
      /\ "deletion" \in met => "deletion" \in met'
      /\ "deletion" \in met' \/ \A i \in Ids : Live(i) => Live(i)'
    BY ChangeMet DEF AppliedInv
<1>4. "deletion" \in met' \/ AliveInv'
    BY <1>t, <1>1, <1>3, AliveKept
<1>5. ASSUME NEW i \in Ids, i = Known, Live(i)'
      PROVE  Agrees(met', ctl', aws'[i])
    <2>1. CASE ctl.pc = "idle"
        BY <1>t, <1>1, <2>1, NothingHeld DEF CallerInv, Carries
    <2>2. CASE ctl.pc # "idle"
        <3>1. Live(i)
            BY <1>t, <1>1, <1>5, DriftRevivesNone
        <3>2. Agrees(met, ctl, aws[i])
            BY <1>5, <3>1 DEF AppliedInv, Applied
        <3>3. /\ met \subseteq met'
              /\ \/ "deletionProtection" \in met'
                 \/ aws'[i].deletionProtection = aws[i].deletionProtection
              /\ "policy" \in met' \/ aws'[i].policy = aws[i].policy
              /\ "tags" \in met' \/ aws'[i].tags = aws[i].tags
            BY <1>1, <2>2, ChangeMet DEF AppliedInv
        <3>4. PICK m, n, c, before : m = met /\ n = met' /\ c = ctl /\ before = aws[i]
            OBVIOUS
        <3> QED
            BY <1>1, <3>2, <3>3, <3>4, AgreesBut
    <2> QED
        BY <2>1, <2>2
<1> QED
    BY <1>t, <1>1, <1>2, <1>3, <1>4, <1>5 DEF AppliedInv, Applied

-----------------------------------------------------------------------------
(* The invariant *)

\* Every step but those of others keeps what holds but for the fields in m.
LEMMA AppliedStep ==
    ASSUME NEW m, WorkerInv, WorkerInv', Applied(m), [Next]_vars,
           ~ \E id \in Ids : ServiceDrifts(id)
    PROVE  Applied(m)'
<1>1. CASE UNCHANGED vars \/ Start \/ Manage \/ PatchSpec \/ Resync \/ EditSpec
    BY <1>1, QuietApplied
<1>2. CASE GetCluster \/ GetClusterPolicy
    BY <1>2, ReadApplied
<1>3. CASE TagResource \/ UntagResource \/ SyncPolicy \/ UpdateCluster
    BY <1>3, UpdateApplied
<1>4. CASE CreateCluster
    BY <1>4, CreateApplied
<1>5. CASE DeleteCluster
    BY <1>5, DeleteApplied
<1>6. CASE DeleteCR \/ Unmanage
    BY <1>6, LeaveApplied
<1>7. CASE Publish \/ Crash
    BY <1>7, RestApplied
<1>8. ASSUME NEW id \in Ids, ServiceSettles(id) \/ ServiceIdles(id)
      PROVE  Applied(m)'
    BY <1>8, ServiceApplied
<1> QED
    BY <1>1, <1>2, <1>3, <1>4, <1>5, <1>6, <1>7, <1>8 DEF Next, Work

\* So does the end of an attempt, when what was changed in it is forgotten.
LEMMA AttemptStep ==
    ASSUME WorkerInv, WorkerInv', AppliedInv, [AttemptsNext]_attemptVars
    PROVE  AppliedInv'
<1>1. CASE \E id \in Ids : ServiceDrifts(id) /\ Record
    BY <1>1, DriftApplied
<1>2. CASE ~ \E id \in Ids : ServiceDrifts(id) /\ Record
    <2>1. /\ [Next]_vars /\ ~ \E id \in Ids : ServiceDrifts(id)
          /\ met' \subseteq Marks
          /\ "deletion" \in met' <=> "deletion" \in met
          /\ ctl'.pc # "idle" => met' = met
        BY <1>2, OwnStep DEF AppliedInv
    <2>2. PICK m : m = met
        OBVIOUS
    <2>3. Applied(m)'
        BY <2>1, <2>2, AppliedStep DEF AppliedInv, Applied
    <2>4. CASE ctl'.pc # "idle"
        BY <2>1, <2>2, <2>3, <2>4 DEF AppliedInv, Applied
    <2>5. CASE ctl'.pc = "idle"
        <3>1. ctl'.caller = "none" /\ ctl'.result # "done"
            BY <2>3, <2>5 DEF WorkerInv, CallerInv, Applied, Carries
        <3>2. \A n, cluster : Agrees(n, ctl', cluster)
            BY <2>5, <3>1, NothingHeld
        <3> QED
            BY <2>1, <2>2, <2>3, <3>2 DEF AppliedInv, Applied
    <2> QED
        BY <2>4, <2>5
<1> QED
    BY <1>1, <1>2

\* An idle worker of a resource without an identifier holds nothing.
LEMMA AppliedFirst == AttemptsInit => AppliedInv
<1> SUFFICES ASSUME AttemptsInit
             PROVE  AppliedInv
    OBVIOUS
<1>1. Init /\ met = {} /\ ContractInv
    BY ContractInit DEF AttemptsInit
<1>2. /\ cr.status.identifier = Nil /\ ctl.caller = "none" /\ ctl.pc = "idle"
      /\ ctl.result = "none"
    BY <1>1 DEF Init, BlankStatus, IdleCtl
<1>3. AliveInv
    BY <1>2, ResourceAssumption DEF AliveInv, Ids
<1>4. \A n, cluster : Carries(ctl) /\ Agrees(n, ctl, cluster)
    BY <1>2, NothingHeld
<1> QED
    BY <1>1, <1>3, <1>4 DEF AppliedInv, Applied

\* The invariant holds in every state, whatever is lost, whenever a process stops and
\* whatever others change.
LEMMA AppliedInvariant == AttemptsSpec => [](WorkerInv /\ AppliedInv)
<1>1. AttemptsSpec => []WorkerInv
    BY AttemptsAreReconciled, ContractInvariant, PTL
<1>2. WorkerInv /\ WorkerInv' /\ AppliedInv /\ [AttemptsNext]_attemptVars => AppliedInv'
    BY AttemptStep
<1> QED
    BY <1>1, <1>2, AppliedFirst, PTL DEF AttemptsSpec

\* A success is true: a reconciliation that reports success leaves the cluster with the
\* protection, tags and policy it had to apply, but for what others changed in its
\* course, whatever requests failed, answers were lost and processes stopped before;
\* and the cluster is there, unless others have deleted one.
THEOREM SuccessIsTrue == AttemptsSpec => []SuccessIsApplied
<1>1. WorkerInv /\ AppliedInv => SuccessIsApplied
    <2> SUFFICES ASSUME WorkerInv, AppliedInv, ctl.result = "done"
                 PROVE  /\ Live(Id) \/ "deletion" \in met
                        /\ Live(Id) => AppliedBut(met, ctl.desired.spec, aws[Id])
        BY DEF SuccessIsApplied
    <2>1. /\ ctl \in Controller /\ ctl.desired \in Resource /\ Carries(ctl) /\ ResultNamed
          /\ "deletion" \in met \/ AliveInv
        BY SubjectType DEF WorkerInv, TypeOK, AppliedInv, Applied, ContractInv
    <2>2. Id = Known /\ Id # Nil /\ ctl.caller = "lateInit"
        BY <2>1 DEF Carries, ResultNamed, Known, Id
    <2>3. Id \in Ids
        BY <2>1, <2>2, StatusType DEF Id
    <2> QED
        BY <2>1, <2>2, <2>3 DEF AppliedInv, Applied, Agrees, AliveInv
<1> QED
    BY <1>1, AppliedInvariant, PTL
=============================================================================
