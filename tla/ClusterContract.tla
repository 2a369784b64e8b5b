--------------------------- MODULE ClusterContract ---------------------------
(***************************************************************************)
(* What the controller promises about one custom resource and the clusters *)
(* made for it, without its requests, its memory or its conditions:        *)
(*                                                                         *)
(*   - there is never more than one live cluster, and none once the        *)
(*     custom resource is gone;                                            *)
(*   - the controller retires a cluster only for a resource that is being  *)
(*     deleted; any other loss is an intervention from outside;            *)
(*   - the identifier a user sees names a cluster that was made, and does  *)
(*     not change while that cluster is live.                              *)
(*                                                                         *)
(* ClusterReconcile implements it as long as answers arrive and the        *)
(* process does not stop half-way.                                         *)
(***************************************************************************)
EXTENDS Naturals

CONSTANTS
    Clusters,   \* the identifiers the account can hand out
    None        \* no identifier

VARIABLES
    object,     \* the custom resource: "present", "leaving" or "gone"
    live,       \* the clusters nobody has asked to delete
    unused,     \* the identifiers not handed out yet
    reported,   \* the identifier in the status of the custom resource
    outside     \* how often others have changed the account

vars == <<object, live, unused, reported, outside>>

Init ==
    /\ object = "present"
    /\ live = {}
    /\ unused = Clusters
    /\ reported = None
    /\ outside = 0

\* The resource is given a cluster, if it has none.
Provision ==
    /\ object # "gone"
    /\ live = {}
    /\ \E id \in unused : live' = {id} /\ unused' = unused \ {id}
    /\ UNCHANGED <<object, reported, outside>>

\* The user sees another identifier, never instead of a live one.
Report ==
    /\ object # "gone"
    /\ reported \notin live
    /\ reported' \in Clusters \ unused
    /\ UNCHANGED <<object, live, unused, outside>>

\* The controller deletes what it made, when it was asked to.
Retire ==
    /\ object = "leaving"
    /\ live # {}
    /\ live' = {}
    /\ UNCHANGED <<object, unused, reported, outside>>

\* Others change the account; they may delete the cluster.
Intervene ==
    /\ live' \in {live, {}}
    /\ outside' = outside + 1
    /\ UNCHANGED <<object, unused, reported>>

Leave ==
    /\ object = "present"
    /\ object' = "leaving"
    /\ UNCHANGED <<live, unused, reported, outside>>

\* The resource goes away, and leaves no cluster behind.
Vanish ==
    /\ object # "gone"
    /\ live = {}
    /\ object' = "gone"
    /\ UNCHANGED <<live, unused, reported, outside>>

Next == Provision \/ Report \/ Retire \/ Intervene \/ Leave \/ Vanish

Spec == Init /\ [][Next]_vars
=============================================================================
