--------------------------- MODULE MC_SaveWindow ---------------------------
(***************************************************************************)
(* Blocks of about a second, and long ones that stand for the rest of an   *)
(* hour: of one full of blocks, or of one the board was silent in.         *)
(***************************************************************************)
EXTENDS SaveWindow

(* Near the end of the first hour, and a second before midnight. *)
MCFirst == {PerHour - 401, 24 * PerHour - 200}

MCLengths == {199, 200, 202, PerHour, 23 * PerHour + 1}

MCOff == {4 * PerSecond}
=============================================================================
