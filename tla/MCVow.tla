------------------------------- MODULE MCVow -------------------------------
(***************************************************************************)
(* VowCore, its properties, its refinement and the documented claims, for  *)
(* model checking.                                                         *)
(***************************************************************************)
EXTENDS VowLifecycle, VowDocClaims, MCInstances
=============================================================================
