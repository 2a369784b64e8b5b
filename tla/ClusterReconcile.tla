--------------------------- MODULE ClusterReconcile ---------------------------
(***************************************************************************)
(* One Cluster custom resource, the worker that reconciles it and the DSQL *)
(* account it is reconciled against.                                       *)
(*                                                                         *)
(* The worker is a program counter over the calls of the resource manager. *)
(* Every request to AWS or to the Kubernetes API is a step of its own, so  *)
(* that the user, the service and other writers act between two of them:   *)
(*                                                                         *)
(*   sync    getCluster, getPolicy -> manage, create -> (read) -> patchSpec *)
(*                                 -> mutate*                 -> patchSpec *)
(*           ... -> (late initialization: read) -> patchSpec -> publish    *)
(*   delete  getCluster, getPolicy -> mutate* -> delete -> unmanage        *)
(*                                                                         *)
(* The order of those calls belongs to the ACK runtime, which is not part  *)
(* of the repository; what each of them does is the repository's code.     *)
(***************************************************************************)
EXTENDS DSQLService, FiniteSets

CONSTANTS
    InitialSpecs,   \* specs the user creates the resource with
    EditedSpecs,    \* specs the user may later replace it with
    LostReplies,    \* may AWS serve a call whose answer never arrives?
    MaxEdits, MaxFaults, MaxCrashes, MaxDrifts   \* how often each may happen

ASSUME ReconcileAssumption ==
    /\ InitialSpecs \subseteq ClusterSpec
    /\ EditedSpecs \subseteq ClusterSpec
    /\ LostReplies \in BOOLEAN
    /\ {MaxEdits, MaxFaults, MaxCrashes, MaxDrifts} \subseteq Nat

VARIABLES
    cr,      \* the custom resource in the Kubernetes API server
    queued,  \* is its key in the work queue?
    ctl,     \* the worker
    spent    \* how many edits, faults, crashes and drifts have happened

vars == <<aws, cr, queued, ctl, spent>>

BlankSpec == [deletionProtection |-> Nil, kmsKey |-> Nil, multiRegion |-> Nil,
              policy |-> Nil, tags |-> [k \in TagKeys |-> NoTag]]

BlankStatus == [identifier |-> Nil, status |-> Nil,
                terminal |-> FALSE, recoverable |-> FALSE, synced |-> FALSE]

Blank == [spec |-> BlankSpec, status |-> BlankStatus]

\* desired is the resource the runtime last read or patched, latest what the
\* manager made of it and observed the answer of a read in progress; todo holds
\* the calls an update has left.
IdleCtl == [pc |-> "idle", caller |-> "none", desired |-> Blank, latest |-> Blank,
            observed |-> Blank, todo |-> {}, result |-> "none"]

CustomResource == [exists : BOOLEAN, deleting : BOOLEAN, finalizer : BOOLEAN,
                   spec : ClusterSpec, status : ClusterStatus]

Calls == {"tag", "untag", "policy", "cluster"}

Controller ==
    [pc       : {"idle", "getCluster", "getPolicy", "manage", "create", "patchSpec",
                 "mutate", "delete", "unmanage", "publish"},
     caller   : {"none", "sync", "created", "lateInit", "delete"},
     desired  : Resource,
     latest   : Resource,
     observed : Resource,
     todo     : SUBSET Calls,
     result   : {"none", "done", "retry", "terminal"}]

\* Every variable has its type; the counters stay within their bounds.
TypeOK ==
    /\ ServiceTypeOK
    /\ cr \in CustomResource
    /\ queued \in BOOLEAN
    /\ ctl \in Controller
    /\ spent \in [edits : 0 .. MaxEdits, faults : 0 .. MaxFaults,
                  crashes : 0 .. MaxCrashes, drifts : 0 .. MaxDrifts]

Init ==
    /\ ServiceInit
    /\ \E s \in InitialSpecs :
          cr = [exists |-> TRUE, deleting |-> FALSE, finalizer |-> FALSE,
                spec |-> s, status |-> BlankStatus]
    /\ queued = TRUE
    /\ ctl = IdleCtl
    /\ spent = [edits |-> 0, faults |-> 0, crashes |-> 0, drifts |-> 0]

-----------------------------------------------------------------------------
(* Calls that can fail on the way *)

Fates ==
    {f \in {"served", "dropped", "lost"} :
        f # "served" => spent.faults < MaxFaults /\ (f = "lost" => LostReplies)}

ReadFates == Fates \ {"lost"}

Spend(fate) ==
    spent' = IF fate = "served" THEN spent ELSE [spent EXCEPT !.faults = @ + 1]

Answer(fate, verdict) == IF fate = "served" THEN verdict ELSE "transport"

\* The account after a call: effect when the call arrives and is not refused.
Effect(fate, verdict, effect) ==
    aws' = IF fate # "dropped" /\ verdict = "none" THEN effect ELSE aws

-----------------------------------------------------------------------------
(* What the manager and the runtime do between two calls *)

\* The reconciliation ends in err with r as the resource to publish.
Fail(c, r, err) ==
    [c EXCEPT !.pc     = "publish",
              !.latest = OnError(r, err),
              !.result = IF TerminalAWSError(err) THEN "terminal" ELSE "retry"]

\* A sync and a delete read what they were given, the later reads their result.
Subject(c) == IF c.caller \in {"sync", "delete"} THEN c.desired ELSE c.latest

StartRead(c, caller) == [c EXCEPT !.pc = "getCluster", !.caller = caller]

\* Every failed read is taken for a cluster that does not exist ...
ReadFailed_AlwaysNotFound(c, err) ==
    CASE c.caller = "sync"   -> [c EXCEPT !.pc = "manage"]
      [] c.caller = "delete" -> [c EXCEPT !.pc = "unmanage"]
      [] OTHER -> [c EXCEPT !.pc = "publish", !.result = "retry"]

\* ... or no such cluster is an error like any other to a delete.
ReadFailed_DeleteRetries(c, err) ==
    CASE c.caller = "sync" /\ err = "notFound" -> [c EXCEPT !.pc = "manage"]
      [] c.caller \in {"sync", "delete"}       -> Fail(c, c.desired, err)
      [] OTHER -> [c EXCEPT !.pc = "publish", !.result = "retry"]

\* What a ReadOne that fails leads to: to Create or to the removal of the
\* finalizer when there is no cluster, else to another attempt.  After a Create
\* its result is published all the same.
ReadFailed(c, err) ==
    CASE c.caller = "sync" /\ err = "notFound"    -> [c EXCEPT !.pc = "manage"]
      [] c.caller = "delete" /\ err = "notFound"  -> [c EXCEPT !.pc = "unmanage"]
      [] c.caller \in {"sync", "delete"} /\ err # "notFound" -> Fail(c, c.desired, err)
      [] OTHER -> [c EXCEPT !.pc = "publish", !.result = "retry"]

\* Update: requeue in a transitional state, else the calls for the delta.
BeginUpdate(c, delta) ==
    IF RequeueIfTransitional(c.latest)
    THEN Fail(c, c.latest, "requeue")
    ELSE [c EXCEPT !.pc = "mutate", !.todo = CallsFor(delta, c.desired, c.latest)]

AfterLateInit(c, r) ==
    IF r = c.latest THEN [c EXCEPT !.pc = "publish", !.result = "done"]
    ELSE [c EXCEPT !.pc = "patchSpec", !.latest = r]

AfterSyncRead(c, observed) ==
    LET read  == [c EXCEPT !.desired = MirrorAWSTags(@, observed), !.latest = observed]
        delta == NewResourceDelta(read.desired, read.latest)
    IN IF delta = {} THEN StartRead(read, "lateInit") ELSE BeginUpdate(read, delta)

AfterDeleteRead(c, observed) ==
    LET current == MirrorAWSTags(c.desired, observed)
        delta   == NewResourceDeltaForPreDelete(current, observed)
        read    == [c EXCEPT !.desired = PreDeleteMerge(current, observed),
                             !.latest  = observed]
    IN IF delta = {} THEN [read EXCEPT !.pc = "delete"] ELSE BeginUpdate(read, delta)

\* A ReadOne that succeeds; observed comes with its conditions cleared.
ReadDone(c, observed) ==
    CASE c.caller = "sync"    -> AfterSyncRead(c, observed)
      [] c.caller = "delete"  -> AfterDeleteRead(c, observed)
      [] c.caller = "created" ->
            [c EXCEPT !.pc     = "patchSpec",
                      !.latest = [MirrorAWSTags(@, observed)
                                    EXCEPT !.status = observed.status]]
      [] OTHER ->
            AfterLateInit(c, LateInitialize(MirrorAWSTags(c.latest, observed), observed))

UpdateDone_ReturnsLatest(c, updated) ==
    [c EXCEPT !.pc     = IF c.caller = "delete" THEN "delete" ELSE "patchSpec",
              !.latest = OnSuccess(@)]

\* Update has made its last call: go on to late initialization or deletion.
UpdateDone(c, updated) ==
    [c EXCEPT !.pc     = IF c.caller = "delete" THEN "delete" ELSE "patchSpec",
              !.latest = OnSuccess(updated)]

Order == [tag |-> 1, untag |-> 2, policy |-> 3, cluster |-> 4]

NextCall(c) == CHOOSE x \in c.todo : \A y \in c.todo : Order[x] <= Order[y]

\* One call of an update has been answered.  An error abandons the others.  With
\* only tags or the policy changed, Update returns the desired resource as it was.
AfterCall(c, err, updated) ==
    LET left == c.todo \ {NextCall(c)}
    IN IF err # "none" THEN Fail([c EXCEPT !.todo = {}], c.latest, err)
       ELSE IF left # {} THEN [c EXCEPT !.todo = left]
       ELSE UpdateDone([c EXCEPT !.todo = {}], updated)

-----------------------------------------------------------------------------
(* The worker *)

Id == ctl.desired.status.identifier

\* The runtime takes the key from the queue and reads the resource past its
\* cache.  A sync forgets the old conditions and adds the controller's tags.
Start ==
    /\ ctl.pc = "idle"
    /\ queued
    /\ queued' = FALSE
    /\ ctl' =
          IF ~cr.exists THEN ctl
          ELSE IF cr.deleting
               THEN StartRead([IdleCtl EXCEPT !.desired =
                       [spec |-> cr.spec, status |-> cr.status]], "delete")
               ELSE StartRead([IdleCtl EXCEPT !.desired = EnsureTags(
                       [spec   |-> cr.spec,
                        status |-> [cr.status EXCEPT !.terminal    = FALSE,
                                                     !.recoverable = FALSE,
                                                     !.synced      = FALSE]])], "sync")
    /\ UNCHANGED <<aws, cr, spent>>

\* sdkFind, up to GetCluster: without an identifier nothing is asked of AWS.
GetCluster ==
    /\ ctl.pc = "getCluster"
    /\ LET r  == Subject(ctl)
           id == r.status.identifier
       IN \/ /\ id = Nil
             /\ ctl' = ReadFailed(ctl, "notFound")
             /\ UNCHANGED spent
          \/ /\ id # Nil
             /\ \E fate \in ReadFates :
                   LET err == Answer(fate, GetVerdict(id))
                   IN /\ Spend(fate)
                      /\ ctl' = IF err = "none"
                                THEN [ctl EXCEPT !.pc       = "getPolicy",
                                                 !.observed = Observe(r, aws[id])]
                                ELSE ReadFailed(ctl, err)
    /\ UNCHANGED <<aws, cr, queued>>

\* sdkFind, from setResourcePolicy on, and the rest of ReadOne: no policy, or
\* no cluster any more, reads as a policy of nil.
GetClusterPolicy ==
    /\ ctl.pc = "getPolicy"
    /\ LET id == ctl.observed.status.identifier
       IN \E fate \in ReadFates :
             LET err    == Answer(fate, GetPolicyVerdict(id))
                 policy == IF err = "none" THEN aws[id].policy ELSE Nil
             IN /\ Spend(fate)
                /\ ctl' = IF err \in {"none", "notFound"}
                          THEN ReadDone(ctl, OnSuccess(
                                  [ctl.observed EXCEPT !.spec.policy = policy]))
                          ELSE ReadFailed(ctl, err)
    /\ UNCHANGED <<aws, cr, queued>>

\* The finalizer is patched in before Create; that fails if the user has
\* deleted the resource by now.
Manage ==
    /\ ctl.pc = "manage"
    /\ cr' = [cr EXCEPT !.finalizer = cr.exists]
    /\ ctl' = IF cr.exists THEN [ctl EXCEPT !.pc = "create"] ELSE IdleCtl
    /\ UNCHANGED <<aws, queued, spent>>

\* A Create that fails takes the finalizer off again.
CreateCluster ==
    /\ ctl.pc = "create"
    /\ LET spec    == ctl.desired.spec
           verdict == CreateVerdict(spec)
       IN \E fate \in Fates :
             LET err == Answer(fate, verdict)
             IN /\ Spend(fate)
                /\ Effect(fate, verdict, AfterCreate(spec))
                /\ ctl' = IF err = "none"
                          THEN StartRead([ctl EXCEPT !.latest = OnSuccess(
                                  Created(ctl.desired, NextId, NewCluster(spec)))],
                                  "created")
                          ELSE [Fail(ctl, ctl.desired, err) EXCEPT !.pc = "unmanage"]
    /\ UNCHANGED <<cr, queued>>

TagResource ==
    /\ ctl.pc = "mutate"
    /\ NextCall(ctl) = "tag"
    /\ LET to    == ctl.desired.spec.tags
           added == TagsAdded(ctl.latest.spec.tags, to)
       IN \E fate \in Fates :
             /\ Spend(fate)
             /\ Effect(fate, MutateVerdict(Id), AfterTag(Id, added, to))
             /\ ctl' = AfterCall(ctl, Answer(fate, MutateVerdict(Id)), ctl.desired)
    /\ UNCHANGED <<cr, queued>>

UntagResource ==
    /\ ctl.pc = "mutate"
    /\ NextCall(ctl) = "untag"
    /\ LET removed == TagsRemoved(ctl.latest.spec.tags, ctl.desired.spec.tags)
       IN \E fate \in Fates :
             /\ Spend(fate)
             /\ Effect(fate, MutateVerdict(Id), AfterUntag(Id, removed))
             /\ ctl' = AfterCall(ctl, Answer(fate, MutateVerdict(Id)), ctl.desired)
    /\ UNCHANGED <<cr, queued>>

\* syncPolicy puts a policy, or deletes it if the desired one is nil or "".
\* Deleting a policy that is not there is a success.
SyncPolicy ==
    /\ ctl.pc = "mutate"
    /\ NextCall(ctl) = "policy"
    /\ LET policy  == ctl.desired.spec.policy
           remove  == policy \in {Nil, EmptyPolicy}
           verdict == IF remove THEN DeletePolicyVerdict(Id)
                                ELSE PutPolicyVerdict(Id, policy)
       IN \E fate \in Fates :
             LET err == Answer(fate, verdict)
             IN /\ Spend(fate)
                /\ Effect(fate, verdict, AfterPolicy(Id, IF remove THEN Nil ELSE policy))
                /\ ctl' = AfterCall(ctl,
                             IF remove /\ err = "notFound" THEN "none" ELSE err,
                             ctl.desired)
    /\ UNCHANGED <<cr, queued>>

UpdateCluster ==
    /\ ctl.pc = "mutate"
    /\ NextCall(ctl) = "cluster"
    /\ LET input   == NewUpdateRequestPayload(ctl.desired, ctl.latest)
           verdict == UpdateVerdict(Id, input)
       IN \E fate \in Fates :
             /\ Spend(fate)
             /\ Effect(fate, verdict, AfterUpdate(Id, input))
             /\ ctl' = AfterCall(ctl, Answer(fate, verdict),
                          [ctl.desired EXCEPT !.status.status =
                              AfterUpdate(Id, input)[Id].status])
    /\ UNCHANGED <<cr, queued>>

\* A DeleteCluster that succeeds releases the custom resource at once.
DeleteCluster ==
    /\ ctl.pc = "delete"
    /\ \E fate \in Fates :
          LET err == Answer(fate, DeleteVerdict(Id))
          IN /\ Spend(fate)
             /\ Effect(fate, DeleteVerdict(Id), AfterDelete(Id))
             /\ ctl' = IF err = "none" THEN [ctl EXCEPT !.pc = "unmanage"]
                                       ELSE Fail(ctl, ctl.latest, err)
    /\ UNCHANGED <<cr, queued>>

\* Without its finalizer a resource that is being deleted is gone.
Unmanage ==
    /\ ctl.pc = "unmanage"
    /\ cr' = [cr EXCEPT !.finalizer = FALSE, !.exists = @ /\ ~cr.deleting]
    /\ ctl' = IF ctl.caller = "delete" THEN IdleCtl ELSE [ctl EXCEPT !.pc = "publish"]
    /\ UNCHANGED <<aws, queued, spent>>

Merge(value, from, to) == IF from # to THEN to ELSE value

\* A merge patch touches only what differs between from and to.
MergePatch(spec, from, to) ==
    [deletionProtection |->
        Merge(spec.deletionProtection, from.deletionProtection, to.deletionProtection),
     kmsKey      |-> Merge(spec.kmsKey, from.kmsKey, to.kmsKey),
     multiRegion |-> Merge(spec.multiRegion, from.multiRegion, to.multiRegion),
     policy      |-> Merge(spec.policy, from.policy, to.policy),
     tags        |-> [k \in TagKeys |-> Merge(spec.tags[k], from.tags[k], to.tags[k])]]

\* The spec that came back is patched into the custom resource, without the
\* tags the system owns.  A patch that changes the spec queues the key.
PatchSpec ==
    /\ ctl.pc = "patchSpec"
    /\ LET filtered == FilterSystemTags(ctl.latest)
           patched  == MergePatch(cr.spec, ctl.desired.spec, filtered.spec)
       IN /\ cr' = [cr EXCEPT !.spec = patched]
          /\ queued' = (queued \/ patched # cr.spec)
    /\ LET patched == [ctl EXCEPT !.desired = ctl.latest]
       IN ctl' = IF ctl.caller = "lateInit"
                 THEN [patched EXCEPT !.pc = "publish", !.result = "done"]
                 ELSE StartRead(patched, "lateInit")
    /\ UNCHANGED <<aws, spent>>

\* The status is patched and the result decides about the next attempt: an
\* error, and a resource that is not synced, are retried; a terminal error is not.
Publish ==
    /\ ctl.pc = "publish"
    /\ LET synced == ctl.result = "done" /\ IsSynced(ctl.latest)
       IN /\ cr' = IF cr.exists
                   THEN [cr EXCEPT !.status = [ctl.latest.status EXCEPT !.synced = synced]]
                   ELSE cr
          /\ queued' = (queued \/ (ctl.result # "terminal" /\ ~synced))
    /\ ctl' = IdleCtl
    /\ UNCHANGED <<aws, spent>>

\* A synced resource is looked at again after the resync period.
Resync ==
    /\ ctl.pc = "idle"
    /\ cr.exists /\ cr.status.synced /\ ~queued
    /\ queued' = TRUE
    /\ UNCHANGED <<aws, cr, ctl, spent>>

-----------------------------------------------------------------------------
(* The user, the process and the account *)

EditSpec ==
    /\ cr.exists
    /\ spent.edits < MaxEdits
    /\ \E s \in EditedSpecs \ {cr.spec} : cr' = [cr EXCEPT !.spec = s]
    /\ spent' = [spent EXCEPT !.edits = @ + 1]
    /\ queued' = TRUE
    /\ UNCHANGED <<aws, ctl>>

DeleteCR ==
    /\ cr.exists
    /\ ~cr.deleting
    /\ cr' = [cr EXCEPT !.deleting = TRUE, !.exists = cr.finalizer]
    /\ queued' = TRUE
    /\ UNCHANGED <<aws, ctl, spent>>

\* The process stops, between two calls or at rest, or a status patch is refused:
\* what the worker knew is lost, and the next process lists every resource.
Crash ==
    /\ spent.crashes < MaxCrashes
    /\ spent' = [spent EXCEPT !.crashes = @ + 1]
    /\ ctl' = IdleCtl
    /\ queued' = TRUE
    /\ UNCHANGED <<aws, cr>>

ServiceSettles(id) == Settle(id) /\ UNCHANGED <<cr, queued, ctl, spent>>

ServiceIdles(id) == Idle(id) /\ UNCHANGED <<cr, queued, ctl, spent>>

ServiceDrifts(id) ==
    /\ spent.drifts < MaxDrifts
    /\ Drift(id)
    /\ spent' = [spent EXCEPT !.drifts = @ + 1]
    /\ UNCHANGED <<cr, queued, ctl>>

Work ==
    \/ GetCluster \/ GetClusterPolicy \/ Manage \/ CreateCluster
    \/ TagResource \/ UntagResource \/ SyncPolicy \/ UpdateCluster
    \/ DeleteCluster \/ Unmanage \/ PatchSpec \/ Publish

Next ==
    \/ Start \/ Work \/ Resync
    \/ EditSpec \/ DeleteCR \/ Crash
    \/ \E id \in Ids : ServiceSettles(id) \/ ServiceIdles(id) \/ ServiceDrifts(id)

Spec == Init /\ [][Next]_vars

\* The worker takes every step it can, both timers expire and the service
\* finishes what it began.  Users, faults, crashes and drift owe nothing.
FairSpec ==
    /\ Spec
    /\ WF_vars(Start) /\ WF_vars(Work) /\ WF_vars(Resync)
    /\ \A id \in Ids : WF_vars(ServiceSettles(id))

-----------------------------------------------------------------------------
(* Safety *)

Remembers(id) ==
    /\ ctl.caller \in {"created", "lateInit"}
    /\ ctl.latest.status.identifier = id

\* Create, Publish and the finalizer: a cluster the controller created and nobody
\* asked to delete is always reachable from a custom resource that cannot go
\* away, through its status or through the worker about to publish it.
NoOrphan ==
    \A id \in Ids : Live(id) =>
        /\ cr.exists /\ cr.finalizer
        /\ cr.status.identifier = id \/ Remembers(id)

\* The read before Create: one custom resource never owns two live clusters,
\* however often a reconciliation fails and is retried.
NoSecondCluster ==
    \A i, j \in Ids : Live(i) /\ Live(j) => i = j

\* ReadOne, Create and Publish together: a request that fails or loses its answer, or
\* a process that stops, costs at most one cluster that no custom resource leads to
\* any more, and nothing else does; retries never make it more.  (A request that never
\* arrived costs none, but is counted here with those whose answer is lost.)
OrphansAccounted ==
    LET reachable == {id \in Ids : /\ cr.exists /\ cr.finalizer
                                   /\ cr.status.identifier = id \/ Remembers(id)}
    IN Cardinality({id \in Ids : Live(id)} \ reachable) <= spent.faults + spent.crashes

\* Clusters, identifiers and the resource as ClusterContract sees them: with answers
\* that arrive and a process that does not stop, every step of the reconciliation
\* is a step of the contract or invisible to it.
Contract == INSTANCE ClusterContract WITH
    Clusters <- Ids,
    None     <- Nil,
    object   <- IF ~cr.exists THEN "gone" ELSE IF cr.deleting THEN "leaving" ELSE "present",
    live     <- {id \in Ids : Live(id)},
    unused   <- Unused,
    reported <- cr.status.identifier,
    outside  <- spent.drifts

ImplementsContract == Contract!Spec

PolicyMatches(wanted, attached) ==
    attached = IF wanted = EmptyPolicy THEN Nil ELSE wanted

AppliedTo(spec, cluster) ==
    /\ spec.deletionProtection = cluster.deletionProtection
    /\ spec.tags = cluster.tags
    /\ PolicyMatches(spec.policy, cluster.policy)

\* mirrorAWSTags: no update tags or untags a key AWS owns, for any of them AWS may
\* have added to or removed from the cluster before the read.
AWSTagsLeftAlone ==
    ctl.pc = "mutate" =>
        (TagsAdded(ctl.latest.spec.tags, ctl.desired.spec.tags)
            \cup TagsRemoved(ctl.latest.spec.tags, ctl.desired.spec.tags))
        \cap AwsTagKeys = {}

\* FilterSystemTags: the tags of AWS and of the controller, which every read and
\* EnsureTags put into the resource in memory, never reach the stored spec.
SystemTagsStayOut ==
    \A k \in SystemTagKeys \cup AwsTagKeys : cr.spec.tags[k] = NoTag

\* Update and LateInitialize: what the user stated in the spec the worker read is
\* not rewritten by what AWS holds, changed by others or not; only fields left open
\* are filled in, and tags of AWS or the controller never.
StatedFieldsKept ==
    [][ctl.pc = "patchSpec" /\ ctl' # ctl =>
         /\ \A f \in DOMAIN cr.spec \ {"tags"} :
               ctl.desired.spec[f] # Nil => cr'.spec[f] = cr.spec[f]
         /\ cr'.spec.tags = cr.spec.tags]_vars

-----------------------------------------------------------------------------
(* Liveness *)

\* What the user can expect of a resource that is not being deleted: it says why
\* it cannot be reconciled, or waits for peers nobody has named, or it is synced
\* and its cluster is as specified.
Settled ==
    \/ ~cr.exists \/ cr.deleting
    \/ cr.status.terminal
    \/ cr.status.status = "FAILED"
    \/ cr.status.status = "PENDING_SETUP" /\ cr.spec.multiRegion \notin PeeredMultiRegions
    \/ /\ cr.status.synced
       /\ Live(cr.status.identifier)
       /\ LET cluster == aws[cr.status.identifier]
              ofUser  == [k \in TagKeys |-> IF k \in UserTagKeys THEN cluster.tags[k] ELSE NoTag]
          IN AppliedTo(cr.spec, [cluster EXCEPT !.tags = ofUser])

\* The work queue, the requeues and the resync: once edits, faults, crashes and
\* drift have stopped, the resource settles and stays settled.
Converges == <>[]Settled

\* The delete path: a resource being deleted goes away or reports a terminal
\* condition, in whatever state its cluster was.
DeletionCompletes == cr.deleting ~> (~cr.exists \/ cr.status.terminal)

\* multiRegionProperties in PENDING_SETUP: a cluster waiting for its peers gets
\* them once the spec names them, and so leaves that state.
PendingSetupResolves ==
    \A id \in Ids :
        []<>~(/\ cr.exists /\ ~cr.deleting /\ ~cr.status.terminal
              /\ cr.status.identifier = id
              /\ cr.spec.multiRegion \in PeeredMultiRegions
              /\ aws[id].status = "PENDING_SETUP")

-----------------------------------------------------------------------------
(* What comments and tests of the repository say and the code does not do *)

\* spec.kmsEncryptionKey: a reported success means that AWS uses the key the spec
\* names.  sdkFind never reads the key back, so a changed key makes no delta.
KMSKeyIsApplied ==
    ctl.pc = "publish" /\ ctl.result = "done" /\ ctl.desired.spec.kmsKey # Nil
        => ctl.desired.spec.kmsKey = aws[Id].kmsKey

\* sdkUpdate: the resource it returns has the fields updated.  After a change of
\* tags or policy alone it returns the desired one, with the status of before.
UpdateReturnsCurrentStatus ==
    ctl.pc = "patchSpec" /\ ctl.caller = "sync" /\ aws[Id].status # "CREATING"
        => ctl.latest.status.status # "CREATING"

\* MarkManaged: the custom resource is kept until its AWS resources are gone.
\* MarkUnmanaged follows the answer of DeleteCluster, which only begins it.
ReleasedOnlyWhenGone ==
    ~cr.exists => \A id \in Ids : ~Found(id)
=============================================================================
