----------------------------- MODULE MC_MsrPack -----------------------------
(***************************************************************************)
(* Blocks of three samples, trimmed or padded by one, in two channels; the *)
(* sequence number wraps after 3.                                          *)
(***************************************************************************)
EXTENDS MsrPack

MCCorrections == -1 .. 1
=============================================================================
