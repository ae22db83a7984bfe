-------------------------- MODULE MC_SampleQueue --------------------------
(* SampleQueue on a small heap: one thread more than the program has       *)
(* inserts, and addresses are used again.                                  *)
EXTENDS SampleQueue
=============================================================================
