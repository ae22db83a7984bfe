------------------------- MODULE MC_TimeCorrection -------------------------
(***************************************************************************)
(* Blocks of four samples at 200 Hz around a full second.  Markers may     *)
(* come early or late by the board's drift and the line's delay, a marker  *)
(* may be lost (two blocks), and the clock may be set back, behind the     *)
(* start of the open record or not.                                        *)
(***************************************************************************)
EXTENDS TimeCorrection

MCFirst == {986500, 990000, 997499}
MCAdvances == {-7000, -1000, 0, 5000, 13600, 17000, 20000, 22499, 26001, 40000}

(* The removal and padding loops are followed this far when they never end. *)
LoopBound == numsamples \in -4 .. 3 * NumSamples
=============================================================================
