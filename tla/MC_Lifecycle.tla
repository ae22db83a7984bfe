---------------------------- MODULE MC_Lifecycle ----------------------------
(***************************************************************************)
(* A timeout of three naps against a sleep of three: the code's ratio.     *)
(***************************************************************************)
EXTENDS Lifecycle
=============================================================================
