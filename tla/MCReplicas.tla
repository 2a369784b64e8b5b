----------------------------- MODULE MCReplicas -----------------------------
(***************************************************************************)
(* Instances of Replicas for TLC, with the specs of MCReconcile.           *)
(***************************************************************************)
EXTENDS MCReconcile, Replicas
=============================================================================
