# TLA+ model of the ACK controller for Aurora DSQL

The controller keeps one Kubernetes custom resource, `Cluster`, and one cluster in
Amazon Aurora DSQL in step. This directory models the code that does so, checks the
model with TLC and proves its safety properties with TLAPS.

## The system

| Part | State it keeps | Operations | Code |
|---|---|---|---|
| Resource manager | none between calls; an AWS client | `ReadOne`, `Create`, `Update`, `Delete`, `LateInitialize`, `IsSynced`, `EnsureTags`, `FilterSystemTags` | `pkg/resource/cluster/manager.go`, `sdk.go`, `hooks.go`, `delta.go` |
| Tag synchronisation | none | `Tags`: `TagResource`, `UntagResource` | `pkg/sync/tags.go`, `pkg/resource/cluster/tags.go` |
| Descriptor | the finalizer and annotations of the resource | `Delta`, `DeltaForPreDelete`, `MarkManaged`, `MarkUnmanaged`, `MarkAdopted` | `descriptor.go`, `resource.go` |
| Manager factory | a map of managers under a read-write lock | `ManagerFor` | `manager_factory.go` |
| References | none | `ResolveReferences`, `ClearResolvedReferences` | `references.go` |
| Adoption, identifiers | status.identifier | `SetIdentifiers`, `PopulateResourceFromAnnotation` | `resource.go`, `identifiers.go` |
| Process | flags, leader lease | `main` | `cmd/controller/main.go`, `pkg/resource/registry.go` |
| Test sweep | none | deletion of leftover clusters | `test/e2e/service_cleanup.py` |

How they interact: the ACK runtime (a library, not in the repository) takes the key of a
custom resource from a work queue, asks the factory for a manager and calls the manager's
operations; each operation makes one to five requests to DSQL, which acts on its own in
between; the runtime patches what comes back into the custom resource and queues the key
again. Before a create or an update the manager resolves a reference to a `Key`, a resource
of another controller. Nothing is persisted except in the custom resource and in AWS.

What is hard about it:

- *Interleaving.* The user edits or deletes the resource, DSQL moves the cluster through
  its life cycle, others change the cluster, and the KMS controller changes the `Key`,
  between any two requests.
- *Partial failure.* An update is up to four requests. Any of them may fail, or be served
  and its answer lost, and the next attempt starts from what a new read shows.
- *Restart and handover.* The process may stop between any two requests; what it held is
  gone, and another replica may go on.
- *Staleness.* Decisions are made on what was read some requests ago, and what is patched
  into the spec is merged into one the user may have edited since.
- *Liveness.* Requeues, resync and DSQL's own progress must add up to a settled resource.
- *Concurrency.* Goroutines share the factory's map.

What makes the parts correct: no cluster is lost or made twice; nothing is deleted against
its protection; a success that is reported is true; updates keep away from a cluster that is
being created or updated, as far as the one read of an attempt can tell; tags of AWS are neither changed nor stored, and nothing the user stated is
overwritten; the resource settles, a deletion ends, a multi-region cluster is not stuck; a
cluster is not made with another key than the one it refers to; two replicas act as one; the
factory's map is used safely and hands out fitting managers.

## The modules

| Module | Models | Composes |
|---|---|---|
| `ClusterResource` | the pure functions: statuses, tags, deltas, conditions, payloads | |
| `DSQLService` | DSQL, as the code relies on it (external) | extends `ClusterResource` |
| `ClusterReconcile` | one custom resource, its worker, the user, faults and crashes | extends `DSQLService`, an instance of `ClusterContract` |
| `ClusterContract` | what the controller promises, without requests or memory | |
| `Replicas` | two controller processes and the lease of the leader election | extends `ClusterReconcile`, two instances of it |
| `References` | the resolution of a reference to a `Key` that changes meanwhile | |
| `ManagerFactory` | `ManagerFor` under concurrent calls | |
| `Attempts` | a history variable: what others change in the course of an attempt | extends `ClusterReconcile` |
| `MCReconcile`, `MCAttempts`, `MCReplicas`, `MCReferences` | instances for TLC: the specs a user writes | extend the modules above |
| `ReconcileProofs` | proofs: types, no orphan, one cluster | extends `ClusterReconcile` |
| `UpdateProofs` | proofs: calls of an update, tags, what is patched | extends `ReconcileProofs`, `Attempts` |
| `ContractProofs` | proofs: the contract | extends `ReconcileProofs` |
| `AppliedProofs`, `ProtectionProofs` | proofs: reported successes, deletions | extend `ContractProofs` and `UpdateProofs`, `AppliedProofs` |
| `ReplicasProofs` | proofs: two replicas are one process | extends `Replicas`, an instance of `ReconcileProofs` |
| `ReferencesProofs`, `ManagerFactoryProofs` | proofs | extend `References`, `ManagerFactory` |

A name with an underscore (`IsSynced_ActiveOnly`) is not the code. It is a mistake one
could make in the definition after it, and each checked property has one that breaks it.

### State and actions of ClusterReconcile

`cr` is the object in the API server, `queued` its key in the work queue, `aws` the account,
`spent` counts edits, faults, crashes and drifts. `ctl` is the worker: `pc` names the request
it makes next, `caller` on whose behalf it reads, `desired`, `latest` and `observed` are the
resources the runtime and the manager hold, `todo` the calls an update has left.

| `pc` | action | code |
|---|---|---|
| `idle` | `Start` | the runtime's fresh read, `EnsureTags` |
| `getCluster` | `GetCluster` | `sdkFind` up to the request |
| `getPolicy` | `GetClusterPolicy` | `setResourcePolicy`, the rest of `ReadOne`, then the runtime's decision |
| `manage`, `create` | `Manage`, `CreateCluster` | `MarkManaged`, `Create` |
| `mutate` | `TagResource`, `UntagResource`, `SyncPolicy`, `UpdateCluster` | `Update`: `customUpdate`, `sync.Tags`, `syncPolicy`, `sdkUpdate` |
| `patchSpec` | `PatchSpec` | the runtime's merge patch of what `FilterSystemTags` leaves |
| `delete`, `unmanage` | `DeleteCluster`, `Unmanage` | `Delete`, `MarkUnmanaged` |
| `publish` | `Publish` | the status patch, `IsSynced`, requeue |

Each request is a step, so anything can happen between two. The code between two requests
belongs to the step that ends with it. A request has a fate: *served*; *dropped* on the way
there; or *lost*, served without an answer. `Crash` stops the worker anywhere, at rest too;
it also stands for a status patch the API server refuses, which has the same effect.

What is taken from outside the repository, and from where: the order of the manager's calls,
the finalizer being added before `Create` and taken off when it fails, a read after `Create`,
late initialization at the end of a sync, the pre-delete update, a requeue when the resource
is not synced or in error and none after a terminal error are the ACK runtime's. DSQL
rejects mutations in `CREATING` and `UPDATING` and accepts them in `PENDING_SETUP`
(`hooks.go:34-37`), refuses the deletion of a protected cluster with a ValidationException
(`test_cluster.py:452-460`), answers ResourceNotFound for a policy that is not there
(`hooks.go:65-66`). The model adds: an update that changes nothing does not go to
`UPDATING`, one that changes something does, whoever asks for it (others switch the
protection in no other way, so `Drift` takes the cluster to `UPDATING` like a call of the
controller), clusters being deleted refuse mutations too, identifiers are not used twice.

Data is abstracted to what the properties tell apart: identifiers are numbers, policies,
keys and multi-region properties are model values, a tag map is a function on a small set of
keys split by owner, and two documents are equal or not (`IAMPolicyDocumentEqual`).

### ClusterContract

The abstract specification: a resource is present, leaving or gone, and of its clusters only
the live ones count, those nobody has asked to delete. `ClusterReconcile` maps the resource's
`exists` and `deleting` to the first, `aws` to the second and the status to what is reported.

| ClusterContract | ClusterReconcile |
|---|---|
| `Provision`: a cluster is made where there is none | a served `CreateCluster` |
| `Report`: another identifier is shown, never instead of a live one | `Publish` |
| `Retire`: the cluster of a leaving resource is given up | a served `DeleteCluster` |
| `Intervene`: others change the account | `ServiceDrifts` |
| `Leave`, `Vanish` | `DeleteCR`, `Unmanage` |
| a stutter | everything else |

### Attempts

A worker reads the cluster once and acts on that for several requests. What others change
in between it cannot know, so a promise about an attempt has to leave that out, and nothing
else. `met` is the set of fields (protection, policy, tags, status) that others have changed
since the attempt began; it is emptied when the worker comes to rest. The mark `"deletion"`,
that others have ever deleted a cluster, stays in it for good: a cluster they deleted may be
read, and reported on, as long as DSQL still has it. `AttemptsSpec` is `Spec` with it; the variable is read by no step,
so every behaviour of `Spec` is one of `AttemptsSpec` and the other way round
(`AttemptsAreReconciled` proves the part the proofs use).

### Replicas

Replica A is the worker and the queue of `ClusterReconcile`; replica B is an instance of it
on `ctlB` and `queuedB`. `leader` holds the lease. `Elect` gives out a free one; `StopA` and
`StopB` are the exit of `main` when the lease is lost or the process is told to stop, with
what the worker held, in one step: that the old leader has exited before another one works
rests on the times of controller-runtime's lease (15 seconds to expire, 10 for a leader that
cannot renew it to give up), which is the library's affair and is assumed; `StepOfA` and `StepOfB` let a replica work while `Works` allows it. With
`--enable-leader-election` that is while it leads. The flag is off by default
(`main.go:145`), and then both replicas work: the mutant `Works_Always` is that default, and
`ActsAsOneProcess` fails under it. What the run shows is thus that this flag is what keeps
the workers apart, and that a handover between any two requests leaves nothing worse than a
restart does.

### References

`cr` and `ctl` are as above, cut down to the key, the reference and whether there is a
cluster. `keys` are the `Key` resources, with their conditions and their ARN: `KeyApplied`,
`KeySynced`, `KeyFails` and `KeyDeleted` change them at any moment, and a condition that no
longer holds stays in the list with status False. `Resolve` is `ResolveReferences` with its
lookup, `CreateCluster` sends the key that is in memory, `Publish` patches the status and
retries what failed.

### ManagerFactory

`ManagerFor` is nine steps of a goroutine: read lock, lookup, unlock, and on a miss write
lock, store, unlock. The lock is Go's `sync.RWMutex`, in which a waiting writer keeps new
readers out; hence `Announce` and `Lock` are two steps. `newResourceManager` never fails.

## What the runs check

`Lifecycle` and `Content` are runs of `MCAttempts`, `Replicas` of `MCReplicas`, `References` of
`MCReferences`, `Factory` and `FactoryRace` of `ManagerFactory`, all others of `MCReconcile`.
Those of `MCReconcile` and `MCAttempts` and `Replicas` set `CHECK_DEADLOCK FALSE`, for a custom
resource that is gone leaves nothing to do.

| Run | Bounds | Properties |
|---|---|---|
| `Lifecycle` | 2 clusters, 2 edits of the protection, 2 dropped requests, 1 switch of the protection or deletion by others | `TypeOK`, `NoOrphan`, `NoSecondCluster`, `ProtectionHonoured`, `ImplementsContract` |
| `Content` | 1 cluster, 1 edit of tags, policy and protection together, 1 fault, also a lost answer, 1 crash, 1 change of any field or deletion by others | `SuccessIsApplied`, `MutatesOnlySettled` |
| `Tags` | one key of each owner, 1 edit, 1 crash, 2 changes of tags or protection by others | `AWSTagsLeftAlone`, `SystemTagsStayOut`, `StatedFieldsKept` |
| `Settles` | 3 clusters, 1 edit, 1 fault, also a lost answer, 1 change or deletion by others | `OrphansAccounted`, `Converges`, `DeletionCompletes` |
| `Replicas` | 2 clusters, 1 edit, 1 handover, 1 change by others | `HandoverCostsOneAtMost`, `ActsAsOneProcess`, `SettlesUnderEitherLeader` |
| `MultiRegion` | 2 clusters, a property without and one with peers, 2 edits, 1 fault, also a lost answer | `PendingSetupResolves`, `Converges` |
| `References` | 1 `Key` with 2 possible ARNs, 2 edits, 4 changes of the `Key`, 1 fault, 1 crash | `TypeOK`, `NeverMadeWithoutItsKey`, `ConflictCreatesNothing`, `UsableReferenceResolves` |
| `Factory` | 3 goroutines, 2 accounts | `MapNeverRaces`, `ManagerFits`, `EveryCallReturns` |

Why the bounds are enough. Two clusters are what a second creation needs, and a third lets it
follow both a lost answer and a deletion by others. Two edits let the user change his mind
during an attempt and again during its retry. One fault or crash hits every request of every
attempt, and two hit an attempt and the next one; three or more only repeat a retry from a
state already seen, for the worker starts each attempt from the custom resource alone. One
handover has both replicas lead. Four changes let a `Key` be applied, synced, fail and recover,
or be deleted and come back. Two tag values tell a changed tag from a new one. Three
goroutines are one reader and two writers at the same time.

`Lifecycle` has no answers lost and no crash, and `ImplementsContract`, `NoOrphan` and
`NoSecondCluster` fail with either: `CreateCluster` carries no token that would survive the
reconciliation, so the next attempt makes another cluster. That is a limit of the code.
What holds instead is `OrphansAccounted`: one cluster at most is out of reach for each call
that fails or loses its answer and for each stop. (A request that never arrived costs none,
but the bound counts faults of both kinds together.) It is checked by `Settles`, where the resource
gets in step all the same, and by `Replicas`, and proved for every value of the constants.

`ProtectionHonoured`, `SuccessIsApplied` and `MutatesOnlySettled` hold but for what others
change in the course of the attempt, and not without that exception: others who switch the
protection off after the worker's read have a cluster deleted that the resource it read still
protected, a tag they change after the read is not seen before the next resync, and an update
of theirs after the read has the worker call into `UPDATING`, where DSQL rejects the call and
the attempt is retried (`Settles` has that case, and the resource gets in step).
`MutatesOnlySettled` is about the states `requeueIfTransitional` looks for; it does not look
for those of a deletion. `SuccessIsApplied` is about protection, tags and policy: of the key
and the peers the code reports a success without applying them (`KMSEdit`, and below). `Content` has one edit, one
change by others, one fault and one crash, in any order; that more of them add nothing is
what the theorems say.

Four runs show the code doing other than what the repository says:

- `KMSEdit`: an edit of `kmsEncryptionKey` alone is reported as applied and never sent;
  the read leaves the desired key in place, so the comparison sees no difference.
- `StaleStatus`: after an update of tags or policy alone `sdkUpdate` returns the desired
  resource with the status of an earlier reconciliation.
- `EarlyRelease`: the custom resource may go while its cluster is still being deleted.
- `FactoryRace`: two concurrent misses make two managers for the same account.

`Settles` leaves out the policy `""`. `syncPolicy` takes it for no policy, and the read gives
nil for no policy; whether the delta tells the two apart is up to `HasNilDifference`, which
is the runtime's. The model says it does, as the comment in `hooks.go:84-85`; then every
attempt finds a difference and returns the old status, and a resource given this policy while
its cluster is `CREATING` never becomes synced.

## Fairness

`FairSpec` of `ClusterReconcile` has weak fairness of `Start` (the work queue hands out its
keys), of `Work` (a request returns or times out, and the goroutine goes on), of `Resync`
(the runtime's timer: `RequeueOnSuccessSeconds` is 0 here, which leaves the default period)
and of `ServiceSettles` (DSQL ends what it has begun). Edits, faults, crashes and drift have
none; their number is bounded, so liveness is about what follows the last of them.
`FairReplicas` has the same of both replicas, and of `Elect`: a lease nobody renews expires,
and the one who waits for it takes it. `References` has weak fairness of `Start`, `Work` and
`Resync`; nothing is assumed of the `Key`, so `UsableReferenceResolves` is about one that
stays usable. `FairSpec` of `ManagerFactory` has weak fairness of each goroutine inside
`ManagerFor`.

## Proofs

All theorems hold for any specs, keys, policies and tags, and any number of clusters, edits,
faults, crashes and drifts, unless a hypothesis says otherwise.

| Theorem | Hypothesis | Statement |
|---|---|---|
| `ReconcileProofs!TypeCorrect` | | `Spec => []TypeOK` |
| `ReconcileProofs!NothingOrphaned`, `OneClusterAtMost` | no lost answers, no crashes | `Spec => []NoOrphan`, `Spec => []NoSecondCluster` |
| `ReconcileProofs!LossesAccounted` | | `Spec => []OrphansAccounted` |
| `ContractProofs!ContractKept` | no lost answers, no crashes | `Spec => ImplementsContract` |
| `UpdateProofs!UpdatesMeetSettled` | | `AttemptsSpec => []MutatesOnlySettled` |
| `UpdateProofs!TagCallsSuffice` | nothing happens between the two calls | a key that is as it was read has the desired value after `TagResource` and `UntagResource`, and no key is in both |
| `UpdateProofs!AWSTagsUntouched` | users write only tags of their own, the controller none of AWS | `Spec => []AWSTagsLeftAlone` |
| `UpdateProofs!TagsStayOut` | users write only tags of their own | `Spec => []SystemTagsStayOut` |
| `UpdateProofs!StatedFieldsStay` | users write only tags of their own | `Spec => StatedFieldsKept` |
| `AppliedProofs!SuccessIsTrue` | | `AttemptsSpec => []SuccessIsApplied` |
| `ProtectionProofs!DeletesUnprotected` | | `AttemptsSpec => ProtectionHonoured` |
| `ReplicasProofs!LeaseMakesOneProcess` | leader election is on | `ReplicasSpec => ActsAsOneProcess` |
| `ReplicasProofs!HandoversAccounted` | leader election is on | `ReplicasSpec => []HandoverCostsOneAtMost` |
| `ReferencesProofs!TypeCorrect`, `MadeWithItsKey`, `ConflictMakesNothing` | | the three safety properties of `References` |
| `ManagerFactoryProofs!MapIsSafe`, `ManagersFit` | | the two invariants of `ManagerFactory` |

Along which arguments:

- *Types* are not inductive alone: the worker reads `aws[id]` for an `id` it holds and must
  know is not nil. `WorkerInv` adds which requests belong to which part of a reconciliation
  (`CallerInv`) and that until the worker has a result of its own all it holds carries the
  recorded identifier (`IdentifierInv`). Every other proof of `ClusterReconcile` uses it.
- *No orphan, one cluster.* `LiveInv` is `Held({})`, and `Held(lost)` says that, but for the
  clusters in `lost`, every live one is the one the controller goes by and a finalizer holds
  its resource, and there is none where the controller creates one or takes the finalizer off.
  A read that finds nothing shows that the known cluster is not
  live, hence none is; no request and no step of the service brings a cluster back (`Tamer`);
  `CreateCluster` makes the only one and remembers it until it is published.
- *Losses.* `LossInv`: `Held(lost)` for some `lost` no larger than the number of faults and
  stops. `HeldStep` shows that every step but a stop keeps `Held(lost)`, or is a creation whose
  answer is lost; that one, and a stop (`CrashLoses`), add one cluster to `lost` and one to the
  count. `NothingOrphaned` is the case in which nothing is ever added.
- *The contract.* `ContractInv` adds that identifiers which are shown or held were handed out,
  and that the worker deletes only for a resource that is being deleted. It is an invariant
  without any hypothesis (`ContractInvariant`). With `LiveInv` each action is then shown to be
  one of the steps in the table above or to leave them all alone.
- *Calls in transition.* `StatusInv`: what was read as settled is settled still. Every step
  but those of others keeps it (`StatusStep`): the service takes no cluster from rest into
  `UPDATING` (`Steady`), the controller only by `UpdateCluster`, and that is the last call of
  an update (`ClusterIsLast`). An update by others breaks it, and puts the status into `met`
  (`ChangeMet`), where it stays until the worker is at rest (`NothingMet`): hence `SettledInv`,
  which is `StatusInv` unless the status was met, and is an invariant of `AttemptsSpec`
  (`SettledStep`).
- *Tags of AWS.* `MirrorInv`: `desired` and `latest` agree on the keys of AWS from the read to
  the last call. It starts from the stored spec having none, which is `SystemTagsStayOut`.
- *Stated fields.* `Kept`: from the moment a result is to be patched, or late-initialized
  first, it has every field that was desired, and the tags of the user. Each source of such a
  result is shown to have it: a cluster just created, an update, a read without difference.
- *Reported successes.* `Applied(m)` is about a fixed set `m` of fields: outside `m`, what no
  call of the update is left for, the cluster has already (`Progress`). So a step of an update
  that fails leaves nothing to be believed, and one that succeeds takes its call off the list
  and its difference off the cluster. If nobody ever deleted one, the cluster the worker goes
  on with is live, as only a deletion ends it (`AliveInv`). Every step but those of others
  keeps `Applied(m)` whatever `m` is (`AppliedStep`). `AppliedInv` puts `met` in its place:
  others make `met` larger by what they change, which asks less of the cluster (`AgreesBut`),
  and `met` is emptied only when the worker comes to rest and holds nothing (`NothingHeld`).
- *Deletions.* `ProtectionInv`, in the same way: a live cluster that is about to be deleted
  has the protection of the resource that was read, so DSQL refuses what the user protects,
  unless others have switched it in this attempt.
- *Replicas.* `LeaseInv`: a replica without the lease has done nothing since it started, so its
  worker is idle and its queue full, as after a restart. Hence the account, the resource and
  the worker and queue of the one that leads are the state of a single process (`Acting`,
  `ActingQueue`); a step of the leader is a step of it, an election does not change it, and the
  loss of the lease or the stop of the leader is its `Crash`. `LossesAccounted` of `ReconcileProofs`, taken
  through the same substitution, gives the bound on handovers.
- *References.* `LookupInv`: at the creation the worker holds the ARN of a key, if it read a
  reference to one, and did not read both.
- *The factory.* Invariants on who holds the lock (`LockInv`) and on what the map and the
  goroutines hold (`FitInv`).

The assumptions are the named ones of the modules: `Nil` is no identifier and no setting of
the protection, `NoTag` no value, the controller's tag value is a value, bounds are naturals,
the specs of the user are specs.

Only model-checked is what is about liveness (`Converges`, `DeletionCompletes`,
`PendingSetupResolves`, `SettlesUnderEitherLeader`, `UsableReferenceResolves`,
`EveryCallReturns`): the prover has no rule for fairness here. Every other property of a
passing run is stated by a theorem.

## What is not modelled

- *Adoption.* The repository has setters only (`SetIdentifiers`,
  `PopulateResourceFromAnnotation`, `MarkAdopted`); when a resource is adopted, and what
  becomes of it, the runtime decides.
- *A user who writes a tag key of the controller* into the spec. `FilterSystemTags` would drop
  that tag from the spec; the specs of the runs have none, and the theorems that need it say so.
- *Aliasing in `ResolveReferences`*: it says it returns a copy and writes the key into the
  resource it was given (`references.go:59-74`). The model takes its result alone; what the
  runtime does with its argument is not in the repository.
- *Whether a `Key` is still the one that was looked up.* The lookup and the use are on one
  fetched object, so `NeverMadeWithoutItsKey` asks that the key is the ARN of a `Key`; one that
  is replaced later leaves the cluster with the key it was made with.
- *`ClearResolvedReferences`*, which cleans both sides of every patch alike, so that no patch
  touches the key or the reference. References and the rest of a reconciliation are two
  models: the key is decided before the first request of `ClusterReconcile`.
- *The start of the process*: flags other than the leader election, logging, health checks and
  the registration of the factory keep no state.
- *The test sweep*, a script of the test job. To the model it is one of the others who delete
  clusters.
- A `multiRegionProperties` edit outside `PENDING_SETUP` is dropped and reported as a
  success (`sdk.go:357-361`); `SuccessIsApplied` leaves the field out for that reason.
- A resource whose cluster is `FAILED` or has a terminal condition counts as settled.
- A field that was open when the worker read it and that the user sets before the patch is
  overwritten, since the runtime's merge patch has no version check; `StatedFieldsKept` is
  about fields that were stated.
- ARN, endpoint, creation time and encryption details, which no decision depends on.
- Metrics, logging, generated code and packaging.

## Plan

Done: the modules, runs and proofs above.

Left, in this order:

1. An abstract specification of `ManagerFor` (a call returns a manager that fits, whoever
   stores it), and `ManagerFactory` proved to implement it.
2. References inside `ClusterReconcile`, once the runtime's handling of the resolved resource
   can be read beside this code.
