----------------------------- MODULE MCLcdTiming -----------------------------
(* Eight visible lines and a vertical blank of five, of four ticks each.     *)
(* Swaps come at any time, or not for many frames.                           *)
EXTENDS LcdTiming
=============================================================================
