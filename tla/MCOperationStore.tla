-------------------------- MODULE MCOperationStore --------------------------
(* Small instances of OperationStore for TLC. *)
EXTENDS OperationStore

OneBlock == {"machine"}

MCBuild == {"v1", "v2"}
=============================================================================
