---------------------------- MODULE MCReferences ----------------------------
(***************************************************************************)
(* An instance of References for TLC.                                      *)
(***************************************************************************)
EXTENDS References

\* Every combination of a key or none with a reference or none.
ReferenceSpecs == [key : UserKeys \cup {Nil}, ref : Refs]
=============================================================================
