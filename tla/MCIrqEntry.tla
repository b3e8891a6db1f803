----------------------------- MODULE MCIrqEntry ------------------------------
(* Two modes of the program, a handler of three instructions of at most two    *)
(* ticks, and a cooldown that is just as long.                                 *)
EXTENDS IrqEntry

CONSTANTS Supervisor, System

MCProgramModes == {Supervisor, System}

ASSUME HandlersAreShort
=============================================================================
