----------------------------- MODULE MCIrqLatency ----------------------------
(* The two kinds the emulator knows, with cooldowns of a few ticks, and a     *)
(* caller that asks at least every other tick.                                *)
EXTENDS IrqLatency

CONSTANTS Vblank, SerialCom

MCInterrupts == {Vblank, SerialCom}
MCMinFireCooldown == [i \in MCInterrupts |-> IF i = Vblank THEN 2 ELSE 3]
=============================================================================
