------------------------------ MODULE MCAttempts ------------------------------
(***************************************************************************)
(* Instances of Attempts for TLC, with the specs of MCReconcile.           *)
(***************************************************************************)
EXTENDS MCReconcile, Attempts
=============================================================================
