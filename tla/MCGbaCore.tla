------------------------------ MODULE MCGbaCore ------------------------------
(* A frame of 4 lines of 2 ticks; as in the program the cooldown (8) is longer *)
(* than a frame less a line and every kind has the same one.                   *)
EXTENDS GbaCore

MCInterrupts == {Vblank, SerialCom}
MCMinFireCooldown == [i \in MCInterrupts |-> GeneralCooldown]
=============================================================================
