------------------------------ MODULE Replicas ------------------------------
(***************************************************************************)
(* Two processes of the controller over one custom resource: a Deployment  *)
(* with two replicas, or with one while it is rolled over to a new version. *)
(*                                                                         *)
(* Each process is a whole worker with a queue of its own.  Replica A is   *)
(* the ctl and queued of ClusterReconcile, replica B an instance of it on  *)
(* its own variables; they share the custom resource and the AWS account.  *)
(* With LeaderElection the manager of main.go runs its workers only while  *)
(* it holds the lease, and the process exits when it loses it.             *)
(*                                                                         *)
(* That the old holder is gone before another replica takes over is        *)
(* assumed: a lease lasts longer than a holder that cannot renew it waits  *)
(* to exit (15 and 10 seconds), which is the library's doing, and clocks   *)
(* are not modelled.  What is checked is what the repository decides: that *)
(* the flag gates the workers, and what a replica that takes over in the   *)
(* middle of another one's work makes of the resource and the account.     *)
(***************************************************************************)
EXTENDS ClusterReconcile

CONSTANT LeaderElection     \* the flag --enable-leader-election

ASSUME ReplicasAssumption == LeaderElection \in BOOLEAN

VARIABLES ctlB, queuedB,    \* the worker and the queue of replica B
          leader            \* who holds the lease: "A", "B" or "none"

replicaVars == <<aws, cr, queued, ctl, spent, ctlB, queuedB, leader>>

B == INSTANCE ClusterReconcile WITH ctl <- ctlB, queued <- queuedB

\* A process starts by listing every resource.  One that does not lead has done
\* nothing since, so its queue still holds the key when it takes over.
ReplicasInit ==
    /\ Init
    /\ ctlB = IdleCtl
    /\ queuedB = TRUE
    /\ leader = "none"

-----------------------------------------------------------------------------

Works_Always(r) == TRUE

\* ctrlrt.Options.LeaderElection: the workers wait for the lease, if told to.
Works(r) == LeaderElection => leader = r

Elect ==
    /\ LeaderElection
    /\ leader = "none"
    /\ leader' \in {"A", "B"}
    /\ UNCHANGED <<aws, cr, queued, ctl, spent, ctlB, queuedB>>

\* Both processes watch the resource: a changed spec is put into both queues.
SpecChanged == cr'.spec # cr.spec

StepOfA(Step) ==
    /\ Works("A")
    /\ Step
    /\ queuedB' = (queuedB \/ SpecChanged)
    /\ UNCHANGED <<ctlB, leader>>

StepOfB(Step) ==
    /\ Works("B")
    /\ Step
    /\ queued' = (queued \/ SpecChanged)
    /\ UNCHANGED <<ctl, leader>>

\* mgr.Start returns, when the lease is lost or the process told to stop, and main
\* exits, with what the worker held: one step, by the assumption above.
StopA ==
    /\ leader = "A"
    /\ Crash
    /\ leader' = "none"
    /\ UNCHANGED <<ctlB, queuedB>>

StopB ==
    /\ leader = "B"
    /\ B!Crash
    /\ leader' = "none"
    /\ UNCHANGED <<ctl, queued>>

UserActs ==
    /\ EditSpec \/ DeleteCR
    /\ queuedB' = TRUE
    /\ UNCHANGED <<ctlB, leader>>

ServiceActs(Step) == Step /\ UNCHANGED <<ctlB, queuedB, leader>>

ReplicasNext ==
    \/ StepOfA(Start) \/ StepOfA(Work) \/ StepOfA(Resync)
    \/ StepOfB(B!Start) \/ StepOfB(B!Work) \/ StepOfB(B!Resync)
    \/ Elect \/ StopA \/ StopB \/ UserActs
    \/ \E id \in Ids :
          \/ ServiceActs(ServiceSettles(id))
          \/ ServiceActs(ServiceIdles(id))
          \/ ServiceActs(ServiceDrifts(id))

ReplicasSpec == ReplicasInit /\ [][ReplicasNext]_replicaVars

\* A free lease is taken, for it expires; the rest is fair as for one process.
FairReplicas ==
    /\ ReplicasSpec
    /\ WF_replicaVars(Elect)
    /\ WF_replicaVars(StepOfA(Start)) /\ WF_replicaVars(StepOfA(Work))
    /\ WF_replicaVars(StepOfA(Resync))
    /\ WF_replicaVars(StepOfB(B!Start)) /\ WF_replicaVars(StepOfB(B!Work))
    /\ WF_replicaVars(StepOfB(B!Resync))
    /\ \A id \in Ids : WF_replicaVars(ServiceActs(ServiceSettles(id)))

-----------------------------------------------------------------------------
(* What the lease is for *)

\* The two replicas seen as one process: the holder of the lease, or a process
\* that has just started and done nothing.
Acting == CASE leader = "A" -> ctl [] leader = "B" -> ctlB [] OTHER -> IdleCtl

ActingQueue == CASE leader = "A" -> queued [] leader = "B" -> queuedB [] OTHER -> TRUE

Single == INSTANCE ClusterReconcile WITH ctl <- Acting, queued <- ActingQueue

\* LeaderElection: what two replicas do to the resource and the account, one
\* process that is restarted now and then could have done; with the flag on they
\* never create or change anything beside each other.
ActsAsOneProcess == Single!Spec

\* A handover in the middle of a Create costs one cluster at most, as a restart does.
HandoverCostsOneAtMost == Single!OrphansAccounted

\* After the last handover the resource settles, whoever leads.
SettlesUnderEitherLeader == <>[]Settled
=============================================================================
