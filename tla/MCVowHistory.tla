---------------------------- MODULE MCVowHistory ----------------------------
(***************************************************************************)
(* VowHistory for model checking.                                          *)
(***************************************************************************)
EXTENDS VowHistory, MCInstances
=============================================================================
