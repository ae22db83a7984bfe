---------------------------- MODULE MC_DataLink ----------------------------
(***************************************************************************)
(* Up to five records over one connection, which may close at any time.    *)
(***************************************************************************)
EXTENDS DataLink
=============================================================================
