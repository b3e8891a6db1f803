----------------------------- MODULE MCTimeTravel ----------------------------
(* Two modes, one byte, two values, and a history that drops entries.        *)
EXTENDS TimeTravel
=============================================================================
