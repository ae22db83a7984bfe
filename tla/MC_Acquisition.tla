-------------------------- MODULE MC_Acquisition --------------------------
(* Acquisition with blocks of two samples: one that misses a sample and    *)
(* one that is shifted by one differ from a whole block.  The program may  *)
(* find the board sampling already, one sample into a block.               *)
EXTENDS Acquisition

MidBlock == 1 .. N - 1
=============================================================================
