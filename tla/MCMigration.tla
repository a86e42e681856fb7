---------------------------- MODULE MCMigration ----------------------------
(***************************************************************************)
(* VowMigration for model checking.                                        *)
(***************************************************************************)
EXTENDS VowMigration, MCInstances, TLC

KeySymmetry == Permutations(Wallets) \cup Permutations(Admins)
=============================================================================
