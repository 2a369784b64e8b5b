-------------------------- MODULE ReferencesProofs --------------------------
(***************************************************************************)
(* Proofs about References: no cluster is made without the Key its         *)
(* resource refers to, and none of a spec that contradicts itself.         *)
(***************************************************************************)
EXTENDS References, TLAPS

-----------------------------------------------------------------------------
(* Types *)

Worker == [pc : {"idle", "resolve", "create", "publish"},
           read : KMSSpec, desired : KMSSpec, err : Errors]

Counters == [edits : 0 .. MaxEdits, keyChanges : 0 .. MaxKeyChanges,
             faults : 0 .. MaxFaults, crashes : 0 .. MaxCrashes]

\* The idle worker is a worker, and a missing Key a Key resource.
LEMMA RestType == Idle \in Worker /\ NoKey \in KeyResource
    BY DEF Idle, Worker, KMSSpec, Refs, Errors, NoKey, KeyResource, Presence

\* ResolveReferences gives a spec of the same reference and an error.
LEMMA ResolveType ==
    ASSUME TypeOK, NEW s \in KMSSpec
    PROVE  /\ ResolveReferences(s).spec \in KMSSpec
           /\ ResolveReferences(s).err \in Errors
           /\ ResolveReferences(s).spec.ref = s.ref
<1>1. s.ref \in Keys => keys[s.ref] \in KeyResource
    BY DEF TypeOK
<1>2. LookupError(s) \in Errors /\ ValidateReferenceFields(s) \in Errors
    BY DEF LookupError, ValidateReferenceFields, GetReferencedResourceState, Errors
<1>3. /\ ResolveReferenceForKMSEncryptionKey(s) \in KMSSpec
      /\ ResolveReferenceForKMSEncryptionKey(s).ref = s.ref
    BY <1>1 DEF ResolveReferenceForKMSEncryptionKey, KMSSpec, KeyResource
<1> QED
    BY <1>2, <1>3 DEF ResolveReferences

\* A lookup without an error gives the ARN of the Key, to a spec without a key.
LEMMA ResolvedKey ==
    ASSUME TypeOK, NEW s \in KMSSpec, ResolveReferences(s).err = "none"
    PROVE  /\ s.ref \in Keys => ResolveReferences(s).spec.key \in Arns
           /\ s.key = Nil \/ s.ref = Nil
<1>1. LookupError(s) = "none" /\ ValidateReferenceFields(s) = "none"
    BY DEF ResolveReferences
<1>2. s.key = Nil \/ s.ref = Nil
    BY <1>1 DEF ValidateReferenceFields
<1>3. ASSUME s.ref \in Keys
      PROVE  ResolveReferences(s).spec.key \in Arns
    <2>1. keys[s.ref] \in KeyResource /\ GetReferencedResourceState(keys[s.ref]) = "none"
        BY <1>1, <1>3 DEF TypeOK, LookupError
    <2>2. keys[s.ref].arn \in Arns
        BY <2>1 DEF GetReferencedResourceState, KeyResource
    <2>3. ResolveReferences(s).spec = [s EXCEPT !.key = keys[s.ref].arn]
        BY <1>1, <1>3 DEF ResolveReferences, ResolveReferenceForKMSEncryptionKey
    <2> QED
        BY <2>2, <2>3 DEF KMSSpec
<1> QED
    BY <1>2, <1>3

-----------------------------------------------------------------------------
(* The inductive invariant *)

\* What the worker is about to look up is what it has read, and what it is about
\* to create a cluster with is what a lookup without an error has made of it.
LookupInv ==
    /\ ctl.pc = "resolve" => ctl.desired = ctl.read
    /\ ctl.pc = "create" => /\ ctl.read.ref \in Keys => ctl.desired.key \in Arns
                            /\ ctl.read.key = Nil \/ ctl.read.ref = Nil

IInv == TypeOK /\ LookupInv

\* The invariant holds at the start.
LEMMA InvInit == Init => IInv
<1> SUFFICES ASSUME Init
             PROVE  IInv
    OBVIOUS
<1>1. \A s \in EditedSpecs : s \in KMSSpec
    BY ReferencesAssumption DEF KMSSpec
<1>2. keys \in [Keys -> KeyResource] /\ ctl \in Worker
    BY RestType DEF Init
<1>3. spent \in Counters
    BY ReferencesAssumption DEF Init, Counters
<1> QED
    BY <1>1, <1>2, <1>3 DEF Init, IInv, TypeOK, LookupInv, Idle, Worker, Counters

\* The KMS controller changes one Key and touches nothing else.
LEMMA ChangeStep ==
    ASSUME IInv, NEW k \in Keys, NEW key \in KeyResource, Change(k, key)
    PROVE  IInv'
<1>1. keys' \in [Keys -> KeyResource] /\ spent' \in Counters
    BY ReferencesAssumption DEF Change, IInv, TypeOK, Counters
<1> QED
    BY <1>1 DEF Change, IInv, TypeOK, LookupInv, Counters

\* Every step keeps the invariant.
LEMMA InvStep == IInv /\ [Next]_vars => IInv'
<1> SUFFICES ASSUME IInv, [Next]_vars
             PROVE  IInv'
    OBVIOUS
<1>t. /\ TypeOK /\ LookupInv /\ ctl \in Worker /\ spent \in Counters
      /\ cr.spec \in KMSSpec /\ ctl.read \in KMSSpec /\ ctl.desired \in KMSSpec
      /\ cr \in [spec : KMSSpec, created : BOOLEAN, resolved : BOOLEAN]
      /\ {MaxEdits, MaxKeyChanges, MaxFaults, MaxCrashes} \subseteq Nat
    BY ReferencesAssumption DEF IInv, TypeOK, Worker, Counters
<1>f. /\ spent.faults < MaxFaults => [spent EXCEPT !.faults = @ + 1] \in Counters
      /\ spent.crashes < MaxCrashes => [spent EXCEPT !.crashes = @ + 1] \in Counters
      /\ spent.edits < MaxEdits => [spent EXCEPT !.edits = @ + 1] \in Counters
    BY <1>t DEF Counters
<1>1. CASE UNCHANGED vars
    BY <1>1, <1>t DEF vars, IInv, TypeOK, LookupInv
<1>2. CASE Start
    <2>1. ctl' = [pc |-> "resolve", read |-> cr.spec, desired |-> cr.spec, err |-> "none"]
        BY <1>2 DEF Start, Idle
    <2>2. ctl' \in Worker
        BY <1>t, <2>1 DEF Worker, Errors
    <2> QED
        BY <1>2, <1>t, <2>1, <2>2 DEF Start, IInv, TypeOK, LookupInv, Worker
<1>3. CASE Resolve
    <2> DEFINE answer == ResolveReferences(ctl.desired)
    <2>1. /\ ctl.pc = "resolve" /\ ctl.desired = ctl.read
          /\ UNCHANGED <<cr, keys, cluster, queued>>
        BY <1>3, <1>t DEF Resolve, LookupInv
    <2>2. answer.spec \in KMSSpec /\ answer.err \in Errors
        BY <1>t, ResolveType
    <2>3. answer.err = "none" =>
              /\ ctl.read.ref \in Keys => answer.spec.key \in Arns
              /\ ctl.read.key = Nil \/ ctl.read.ref = Nil
        BY <1>t, <2>1, ResolvedKey
    <2>4. \/ /\ ctl' = [ctl EXCEPT !.desired = answer.spec,
                                   !.err     = answer.err,
                                   !.pc      = IF answer.err = "none" /\ ~cr.created
                                               THEN "create" ELSE "publish"]
             /\ UNCHANGED spent
          \/ /\ spent.faults < MaxFaults
             /\ spent' = [spent EXCEPT !.faults = @ + 1]
             /\ ctl' = [ctl EXCEPT !.err = "transport", !.pc = "publish"]
        BY <1>3 DEF Resolve
    <2> HIDE DEF answer
    <2>5. ctl' \in Worker /\ LookupInv'
        BY <1>t, <2>2, <2>3, <2>4 DEF Worker, Errors, LookupInv
    <2>6. spent' \in Counters
        BY <1>t, <2>4 DEF Counters
    <2> QED
        BY <1>t, <2>1, <2>5, <2>6 DEF IInv, TypeOK, Worker, Counters
<1>4. CASE CreateCluster
    <2>1. UNCHANGED <<cr, keys, queued>> /\ spent' \in Counters
        BY <1>4, <1>t, <1>f DEF CreateCluster
    <2>2. ctl'.pc = "publish" /\ ctl' \in Worker
        BY <1>4, <1>t DEF CreateCluster, Worker, Errors
    <2>3. ctl.desired.key \in Arns \cup UserKeys \cup {Nil}
        BY <1>t DEF KMSSpec
    <2>4. cluster' \in [made : BOOLEAN, key : Arns \cup UserKeys \cup {Nil}]
        <3>1. CASE cluster' = [made |-> TRUE, key |-> ctl.desired.key]
            BY <2>3, <3>1
        <3>2. CASE cluster' = cluster
            BY <1>t, <3>2 DEF TypeOK
        <3> QED
            BY <1>4, <3>1, <3>2 DEF CreateCluster
    <2> QED
        BY <1>t, <2>1, <2>2, <2>4 DEF IInv, TypeOK, LookupInv, Worker, Counters
<1>5. CASE Publish \/ Crash
    <2>1. /\ ctl' = Idle /\ UNCHANGED <<keys, cluster>>
          /\ spent' \in Counters
        BY <1>5, <1>t, <1>f DEF Publish, Crash
    <2>2. queued' \in BOOLEAN
        <3>1. queued \in BOOLEAN /\ (queued' = TRUE \/ queued' = (queued \/ ctl.err # "none"))
            BY <1>5, <1>t DEF Publish, Crash, TypeOK
        <3> QED
            BY <3>1
    <2>3. cr' \in [spec : KMSSpec, created : BOOLEAN, resolved : BOOLEAN]
        <3>1. CASE Publish
            <4>1. cr' = [cr EXCEPT !.created  = cr.created \/ ctl.err = "none",
                                   !.resolved = ctl.err = "none"]
                BY <3>1 DEF Publish
            <4> QED
                BY <1>t, <4>1
        <3>2. CASE Crash
            BY <1>t, <3>2 DEF Crash
        <3> QED
            BY <1>5, <3>1, <3>2
    <2>4. ctl' \in Worker /\ ctl'.pc = "idle"
        BY <2>1, RestType DEF Idle
    <2> QED
        BY <1>t, <2>1, <2>2, <2>3, <2>4 DEF IInv, TypeOK, LookupInv, Worker, Counters
<1>6. CASE Resync
    BY <1>6, <1>t DEF Resync, IInv, TypeOK, LookupInv
<1>7. CASE EditSpec
    <2>1. \A s \in EditedSpecs : s \in KMSSpec
        BY ReferencesAssumption DEF KMSSpec
    <2>2. /\ cr' \in [spec : KMSSpec, created : BOOLEAN, resolved : BOOLEAN]
          /\ spent' \in Counters /\ queued' \in BOOLEAN
        BY <1>7, <1>t, <2>1 DEF EditSpec, TypeOK, Counters
    <2> QED
        BY <1>7, <1>t, <2>2 DEF EditSpec, IInv, TypeOK, LookupInv, Counters
<1>8. ASSUME NEW k \in Keys, KeyApplied(k) \/ KeySynced(k) \/ KeyFails(k) \/ KeyDeleted(k)
      PROVE  IInv'
    <2>1. keys[k] \in KeyResource
        BY <1>t DEF TypeOK
    <2>2. CASE KeyApplied(k)
        <3>1. [NoKey EXCEPT !.exists = TRUE] \in KeyResource
            BY RestType DEF KeyResource
        <3> QED
            BY <2>2, <3>1, ChangeStep DEF KeyApplied
    <2>3. CASE KeySynced(k)
        <3>1. PICK arn \in IF keys[k].arn = Nil THEN Arns \cup {Nil} ELSE {keys[k].arn} :
                 Change(k, [keys[k] EXCEPT !.terminal = Withdrawn(@), !.synced = "True",
                                           !.arn = arn])
            BY <2>3 DEF KeySynced
        <3>2. [keys[k] EXCEPT !.terminal = Withdrawn(@), !.synced = "True", !.arn = arn]
                  \in KeyResource
            BY <2>1 DEF KeyResource, Presence, Withdrawn
        <3> QED
            BY <3>1, <3>2, ChangeStep
    <2>4. CASE KeyFails(k)
        <3>1. [keys[k] EXCEPT !.terminal = "True", !.synced = "False"] \in KeyResource
            BY <2>1 DEF KeyResource, Presence
        <3> QED
            BY <2>4, <3>1, ChangeStep DEF KeyFails
    <2>5. CASE KeyDeleted(k)
        BY <2>5, RestType, ChangeStep DEF KeyDeleted
    <2> QED
        BY <1>8, <2>2, <2>3, <2>4, <2>5
<1> QED
    BY <1>1, <1>2, <1>3, <1>4, <1>5, <1>6, <1>7, <1>8 DEF Next, Work

\* The invariant holds of every behaviour.
LEMMA Invariant == Spec => []IInv
    BY InvInit, InvStep, PTL DEF Spec

-----------------------------------------------------------------------------
(* What follows *)

\* Every reachable state has its type.
THEOREM TypeCorrect == Spec => []TypeOK
<1>1. IInv => TypeOK
    BY DEF IInv
<1> QED
    BY <1>1, Invariant, PTL

\* Only CreateCluster makes a cluster, with the key the worker holds.
LEMMA OnlyCreateMakes ==
    ASSUME [Next]_vars, cluster' # cluster
    PROVE  ctl.pc = "create" /\ cluster'.key = ctl.desired.key
<1>1. ~(UNCHANGED vars \/ Start \/ Publish \/ Resync \/ EditSpec \/ Crash)
    BY DEF vars, Start, Publish, Resync, EditSpec, Crash
<1>2. ~Resolve
    BY DEF Resolve
<1>3. \A k \in Keys : ~(KeyApplied(k) \/ KeySynced(k) \/ KeyFails(k) \/ KeyDeleted(k))
    BY DEF KeyApplied, KeySynced, KeyFails, KeyDeleted, Change
<1>4. CreateCluster
    BY <1>1, <1>2, <1>3 DEF Next, Work
<1> QED
    BY <1>4 DEF CreateCluster

\* getReferencedResourceState_Key: however the Key comes, fails, recovers and goes, a
\* cluster whose resource refers to it is made with an ARN or not at all.
THEOREM MadeWithItsKey == Spec => NeverMadeWithoutItsKey
<1>1. IInv /\ [Next]_vars =>
          [cluster.made' /\ ~cluster.made /\ ctl.read.ref \in Keys => cluster'.key \in Arns]_vars
    <2> SUFFICES ASSUME IInv, [Next]_vars, cluster.made', ~cluster.made, ctl.read.ref \in Keys
                 PROVE  cluster'.key \in Arns
        OBVIOUS
    <2>1. cluster' # cluster
        OBVIOUS
    <2>2. ctl.pc = "create" /\ cluster'.key = ctl.desired.key
        BY <2>1, OnlyCreateMakes
    <2> QED
        BY <2>2 DEF IInv, LookupInv
<1> QED
    BY <1>1, Invariant, PTL DEF Spec, NeverMadeWithoutItsKey

\* validateReferenceFields: a spec with both a key and a reference makes no cluster,
\* whatever the lookup of the reference answers.
THEOREM ConflictMakesNothing == Spec => ConflictCreatesNothing
<1>1. IInv /\ [Next]_vars =>
          [cluster.made' /\ ~cluster.made => (ctl.read.key = Nil \/ ctl.read.ref = Nil)]_vars
    <2> SUFFICES ASSUME IInv, [Next]_vars, cluster.made', ~cluster.made
                 PROVE  ctl.read.key = Nil \/ ctl.read.ref = Nil
        OBVIOUS
    <2>1. cluster' # cluster
        OBVIOUS
    <2>2. ctl.pc = "create"
        BY <2>1, OnlyCreateMakes
    <2> QED
        BY <2>2 DEF IInv, LookupInv
<1> QED
    BY <1>1, Invariant, PTL DEF Spec, ConflictCreatesNothing
=============================================================================
