--------------------------- MODULE MC_SerialLine ---------------------------
(* SerialLine with two-digit numbers and readings at the edges of 24 bits. *)
EXTENDS SerialLine

Edges == {0, 1, 4194304, 8388606, 8388607, 8388608, 8388609, 16777214, 16777215}
=============================================================================
