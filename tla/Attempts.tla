------------------------------- MODULE Attempts -------------------------------
(***************************************************************************)
(* ClusterReconcile with a history variable: what others than the          *)
(* controller have changed in the account in the course of an attempt.     *)
(*                                                                         *)
(* An attempt to reconcile reads the cluster once and acts on what it read *)
(* for several requests, while others change tags, policy and protection,  *)
(* which takes the cluster to UPDATING, or delete it.  What it then says   *)
(* and does cannot take account of a change it has met on its way; of      *)
(* everything else it has to be right.  The variable only records and      *)
(* constrains no step.                                                     *)
(***************************************************************************)
EXTENDS ClusterReconcile

\* The fields of a cluster that others have changed since the attempt began, and
\* "deletion" if they have deleted one, then or before.
VARIABLE met

attemptVars == <<vars, met>>

Fields == {"deletionProtection", "policy", "tags", "status"}

Marks == Fields \cup {"deletion"}

\* What this step changes, if it is one of others.
ChangedByOthers ==
    IF spent'.drifts = spent.drifts THEN {}
    ELSE {f \in Fields : \E id \in Ids : aws'[id][f] # aws[id][f]}
            \cup {d \in {"deletion"} : \E id \in Ids : Live(id) /\ ~Live(id)'}

\* Between two attempts there is nothing to be met, but a cluster stays deleted.
Record ==
    met' = (met \cup ChangedByOthers) \cap (IF ctl'.pc = "idle" THEN {"deletion"} ELSE Marks)

AttemptsInit == Init /\ met = {}

AttemptsNext == Next /\ Record

AttemptsSpec == AttemptsInit /\ [][AttemptsNext]_attemptVars

-----------------------------------------------------------------------------
(* Properties *)

\* AppliedTo, for the fields that are not in changed.
AppliedBut(changed, spec, cluster) ==
    /\ \/ spec.deletionProtection = cluster.deletionProtection
       \/ "deletionProtection" \in changed
    /\ spec.tags = cluster.tags \/ "tags" \in changed
    /\ PolicyMatches(spec.policy, cluster.policy) \/ "policy" \in changed

\* Update and its four calls: when a reconciliation reports success, AWS has the
\* protection, the tags and the policy of the resource it reports on, also after
\* earlier attempts stopped half-way, but for the fields others have changed since
\* this one began; and the cluster is there, unless others have ever deleted one.
\* (Of the KMS key and the peers the code reports what AWS may not have.)
SuccessIsApplied ==
    ctl.pc = "publish" /\ ctl.result = "done" =>
        /\ Live(Id) \/ "deletion" \in met
        /\ Live(Id) => AppliedBut(met, ctl.desired.spec, aws[Id])

\* requeueIfTransitional: no call of an update is made on a cluster in one of the
\* transitional states, CREATING and UPDATING, in which DSQL rejects it, unless others
\* have changed its status since the attempt began: the one read of the attempt keeps
\* the update away from what the service, an earlier attempt or others before it were
\* still doing.  (The code does not look for the states of a deletion.)
MutatesOnlySettled ==
    ctl.pc = "mutate" /\ aws[Id].status \in {"CREATING", "UPDATING"} => "status" \in met

\* The pre-delete comparison and Delete: the controller never gets a cluster deleted
\* while the resource it read asks for deletion protection, unless others have
\* switched the protection since this attempt began.
ProtectionHonoured ==
    [][ctl.pc = "delete" /\ aws' # aws /\ ctl' # ctl
         => \/ ctl.desired.spec.deletionProtection # "on"
            \/ "deletionProtection" \in met]_attemptVars
=============================================================================
