----------------------------- MODULE References -----------------------------
(***************************************************************************)
(* spec.kmsEncryptionKeyRef: a Cluster may name a Key resource of the KMS  *)
(* controller in place of a KMS key.  Before each reconciliation           *)
(* ResolveReferences looks the Key up and puts its ARN into the resource   *)
(* in memory; what happens next depends on what the Key looked like then.  *)
(*                                                                         *)
(* This module has the custom resource with these two fields only, the Key *)
(* resources and the KMS controller that changes them at any moment, and a *)
(* worker from the lookup to the CreateCluster that uses its result.  The  *)
(* patches of the runtime are left out: they compare two copies that       *)
(* ClearResolvedReferences has cleaned alike, and touch neither field.     *)
(***************************************************************************)
EXTENDS Naturals

CONSTANTS
    Nil,
    Keys,           \* names of Key resources
    Arns,           \* ARNs of KMS keys the Key resources stand for
    UserKeys,       \* KMS keys a user may name directly
    InvalidRef,     \* a reference without a name, or into a forbidden namespace
    EmptyRef,       \* a reference without "from"
    EditedSpecs,    \* specs the user creates the resource with and edits it to
    MaxEdits, MaxKeyChanges, MaxFaults, MaxCrashes

Refs == Keys \cup {InvalidRef, EmptyRef, Nil}

KMSSpec == [key : Arns \cup UserKeys \cup {Nil}, ref : Refs]

ASSUME ReferencesAssumption ==
    /\ Nil \notin Arns \cup UserKeys \cup Keys \cup {InvalidRef, EmptyRef}
    /\ {InvalidRef, EmptyRef} \cap Keys = {}
    /\ Arns \cap UserKeys = {}
    /\ EditedSpecs \subseteq [key : UserKeys \cup {Nil}, ref : Refs]
    /\ {MaxEdits, MaxKeyChanges, MaxFaults, MaxCrashes} \subseteq Nat

VARIABLES
    cr,       \* the two fields, and what the status shows of them
    keys,     \* the Key resources
    cluster,  \* the cluster in AWS: was it made, and with which key?
    ctl,      \* the worker: its step, the resource in memory and the result
    queued,   \* is the resource in the work queue?
    spent     \* how many edits, key changes, faults and crashes have happened

vars == <<cr, keys, cluster, ctl, queued, spent>>

Presence == {"none", "False", "True"}

\* A Key resource: terminal and synced are its conditions, "none" one it lacks.
KeyResource == [exists : BOOLEAN, terminal : Presence, synced : Presence,
                arn : Arns \cup {Nil}]

NoKey == [exists |-> FALSE, terminal |-> "none", synced |-> "none", arn |-> Nil]

Errors == {"none", "conflict", "invalidRef", "keyNotFound", "keyTerminal",
           "keyNotSynced", "keyWithoutArn", "transport"}

Idle == [pc |-> "idle", read |-> [key |-> Nil, ref |-> Nil],
         desired |-> [key |-> Nil, ref |-> Nil], err |-> "none"]

TypeOK ==
    /\ cr \in [spec : KMSSpec, created : BOOLEAN, resolved : BOOLEAN]
    /\ keys \in [Keys -> KeyResource]
    /\ cluster \in [made : BOOLEAN, key : Arns \cup UserKeys \cup {Nil}]
    /\ ctl \in [pc : {"idle", "resolve", "create", "publish"},
                read : KMSSpec, desired : KMSSpec, err : Errors]
    /\ queued \in BOOLEAN
    /\ spent \in [edits : 0 .. MaxEdits, keyChanges : 0 .. MaxKeyChanges,
                  faults : 0 .. MaxFaults, crashes : 0 .. MaxCrashes]

Init ==
    /\ \E s \in EditedSpecs : cr = [spec |-> s, created |-> FALSE, resolved |-> FALSE]
    /\ keys = [k \in Keys |-> NoKey]
    /\ cluster = [made |-> FALSE, key |-> Nil]
    /\ ctl = Idle
    /\ queued = TRUE
    /\ spent = [edits |-> 0, keyChanges |-> 0, faults |-> 0, crashes |-> 0]

-----------------------------------------------------------------------------
(* references.go *)

KeyTerminal_AnyStatus(key) == key.terminal # "none"
KeyTerminal(key) == key.terminal = "True"

GetReferencedResourceState_NoArnCheck(key) ==
    CASE ~key.exists          -> "keyNotFound"
      [] KeyTerminal(key)     -> "keyTerminal"
      [] key.synced # "True"  -> "keyNotSynced"
      [] OTHER                -> "none"

\* A Key can be used when it exists, is not terminal, is synced and has an ARN.
GetReferencedResourceState(key) ==
    CASE ~key.exists          -> "keyNotFound"
      [] KeyTerminal(key)     -> "keyTerminal"
      [] key.synced # "True"  -> "keyNotSynced"
      [] key.arn = Nil        -> "keyWithoutArn"
      [] OTHER                -> "none"

ValidateReferenceFields(spec) ==
    IF spec.ref # Nil /\ spec.key # Nil THEN "conflict" ELSE "none"

\* The error of the lookup; a reference without "from" looks nothing up.
LookupError(spec) ==
    CASE spec.ref \in Keys      -> GetReferencedResourceState(keys[spec.ref])
      [] spec.ref = InvalidRef  -> "invalidRef"
      [] OTHER                  -> "none"

ResolveReferenceForKMSEncryptionKey_Name(spec) ==
    IF spec.ref \in Keys /\ LookupError(spec) = "none"
    THEN [spec EXCEPT !.key = spec.ref] ELSE spec

\* A lookup that succeeds puts the ARN of the Key into the resource in memory.
ResolveReferenceForKMSEncryptionKey(spec) ==
    IF spec.ref \in Keys /\ LookupError(spec) = "none"
    THEN [spec EXCEPT !.key = keys[spec.ref].arn] ELSE spec

ResolveReferences_LosesConflict(spec) ==
    [spec |-> ResolveReferenceForKMSEncryptionKey(spec), err |-> LookupError(spec)]

\* A key and a reference that are both set do not keep the reference from being
\* resolved; their conflict is reported unless the lookup fails as well.
ResolveReferences(spec) ==
    [spec |-> ResolveReferenceForKMSEncryptionKey(spec),
     err  |-> IF LookupError(spec) # "none" THEN LookupError(spec)
              ELSE ValidateReferenceFields(spec)]

-----------------------------------------------------------------------------
(* The worker *)

Start ==
    /\ ctl.pc = "idle"
    /\ queued
    /\ queued' = FALSE
    /\ ctl' = [Idle EXCEPT !.pc = "resolve", !.read = cr.spec, !.desired = cr.spec]
    /\ UNCHANGED <<cr, keys, cluster, spent>>

\* The lookup asks the API server, past the cache.  An error ends the attempt; a
\* cluster that was created before is not given another key (delta.go never sees
\* the difference).
Resolve ==
    /\ ctl.pc = "resolve"
    /\ \/ LET answer == ResolveReferences(ctl.desired)
          IN /\ ctl' = [ctl EXCEPT !.desired = answer.spec,
                                   !.err     = answer.err,
                                   !.pc      = IF answer.err = "none" /\ ~cr.created
                                               THEN "create" ELSE "publish"]
             /\ UNCHANGED spent
       \/ /\ ctl.desired.ref \in Keys
          /\ spent.faults < MaxFaults
          /\ spent' = [spent EXCEPT !.faults = @ + 1]
          /\ ctl' = [ctl EXCEPT !.err = "transport", !.pc = "publish"]
    /\ UNCHANGED <<cr, keys, cluster, queued>>

\* newCreateRequestPayload sends the key in memory; none leaves the choice to AWS.
CreateCluster ==
    /\ ctl.pc = "create"
    /\ \/ /\ cluster' = [made |-> TRUE, key |-> ctl.desired.key]
          /\ ctl' = [ctl EXCEPT !.pc = "publish"]
          /\ UNCHANGED spent
       \/ /\ spent.faults < MaxFaults
          /\ spent' = [spent EXCEPT !.faults = @ + 1]
          /\ ctl' = [ctl EXCEPT !.pc = "publish", !.err = "transport"]
          /\ UNCHANGED cluster
    /\ UNCHANGED <<cr, keys, queued>>

\* The status is patched; an attempt that failed is made again.
Publish ==
    /\ ctl.pc = "publish"
    /\ cr' = [cr EXCEPT !.created  = @ \/ ctl.err = "none",
                        !.resolved = ctl.err = "none"]
    /\ queued' = (queued \/ ctl.err # "none")
    /\ ctl' = Idle
    /\ UNCHANGED <<keys, cluster, spent>>

Resync ==
    /\ ctl.pc = "idle"
    /\ ~queued
    /\ queued' = TRUE
    /\ UNCHANGED <<cr, keys, cluster, ctl, spent>>

-----------------------------------------------------------------------------
(* The user, the process and the KMS controller *)

EditSpec ==
    /\ spent.edits < MaxEdits
    /\ \E s \in EditedSpecs \ {cr.spec} : cr' = [cr EXCEPT !.spec = s]
    /\ spent' = [spent EXCEPT !.edits = @ + 1]
    /\ queued' = TRUE
    /\ UNCHANGED <<keys, cluster, ctl>>

\* Not between CreateCluster and the status patch, whose loss makes a second
\* cluster: ClusterReconcile has that.
Crash ==
    /\ ctl.pc \in {"resolve", "create"}
    /\ spent.crashes < MaxCrashes
    /\ spent' = [spent EXCEPT !.crashes = @ + 1]
    /\ ctl' = Idle
    /\ queued' = TRUE
    /\ UNCHANGED <<cr, keys, cluster>>

Change(k, key) ==
    /\ spent.keyChanges < MaxKeyChanges
    /\ spent' = [spent EXCEPT !.keyChanges = @ + 1]
    /\ keys' = [keys EXCEPT ![k] = key]
    /\ UNCHANGED <<cr, cluster, ctl, queued>>

KeyApplied(k) ==
    /\ ~keys[k].exists
    /\ Change(k, [NoKey EXCEPT !.exists = TRUE])

\* A condition that no longer holds stays in the list with status False.
Withdrawn(condition) == IF condition = "none" THEN "none" ELSE "False"

KeySynced(k) ==
    /\ keys[k].exists
    /\ \E arn \in IF keys[k].arn = Nil THEN Arns \cup {Nil} ELSE {keys[k].arn} :
          Change(k, [keys[k] EXCEPT !.terminal = Withdrawn(@), !.synced = "True",
                                    !.arn = arn])

KeyFails(k) ==
    /\ keys[k].exists
    /\ Change(k, [keys[k] EXCEPT !.terminal = "True", !.synced = "False"])

KeyDeleted(k) == keys[k].exists /\ Change(k, NoKey)

Work == Resolve \/ CreateCluster \/ Publish

Next ==
    \/ Start \/ Work \/ Resync \/ EditSpec \/ Crash
    \/ \E k \in Keys : KeyApplied(k) \/ KeySynced(k) \/ KeyFails(k) \/ KeyDeleted(k)

\* The worker and its timers go on; users, faults, crashes and the KMS controller
\* owe nothing.
Spec == Init /\ [][Next]_vars /\ WF_vars(Start) /\ WF_vars(Work) /\ WF_vars(Resync)

-----------------------------------------------------------------------------
(* Properties *)

\* getReferencedResourceState_Key: a cluster whose resource refers to a Key is
\* never made with a key of AWS's choosing because the Key was missing, failing or
\* unfinished when it was looked up; the choice could not be corrected later.
NeverMadeWithoutItsKey ==
    [][cluster.made' /\ ~cluster.made /\ ctl.read.ref \in Keys
         => cluster'.key \in Arns]_vars

\* validateReferenceFields: with both a key and a reference in the spec that was
\* read nothing is created, whatever the lookup of the reference says.
ConflictCreatesNothing ==
    [][cluster.made' /\ ~cluster.made
         => (ctl.read.key = Nil \/ ctl.read.ref = Nil)]_vars

Usable(spec) ==
    IF spec.ref \in Keys
    THEN /\ spec.key = Nil
         /\ keys[spec.ref].exists /\ keys[spec.ref].synced = "True"
         /\ keys[spec.ref].terminal # "True" /\ keys[spec.ref].arn # Nil
    ELSE spec.ref = Nil

\* ResolveReferences and its retries: while a spec can be resolved the resource
\* gets its cluster and shows its references resolved, whatever was wrong before.
UsableReferenceResolves ==
    []<>(~Usable(cr.spec) \/ (cr.created /\ cr.resolved))
=============================================================================
