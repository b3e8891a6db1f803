-------------------------- MODULE MCShifterOperand ---------------------------
(* Words of three bits and two registers.  Every operation, with an operand of *)
(* every kind: immediates with and without rotation, a register, and registers *)
(* shifted by no bit, one bit and a register.                                  *)
EXTENDS ShifterOperand

CONSTANTS R0, R1

MCRegisters == {R0, R1}

MCOperands ==
  [kind : {"Immediate"}, value : {{0}, {Sign}}, rotated : BOOLEAN]
    \cup [kind : {"Register"}, register : {R1}]
    \cup [kind : {"RegisterImmediate"}, register : {R1}, shift : Shifts, by : {0, 1}]
    \cup [kind : {"RegisterRegister"}, register : {R1}, shift : {"RotateRight"}, by : {R0}]

\* The comparing operations always update the flags.
MCInstructions ==
  [op : (Logical \ Comparing) \cup
          {"Add", "AddWithCarry", "Subtract", "ReverseSubtract", "Multiplicate"},
   base : {R0}, destination : MCRegisters, operand : MCOperands, updates : BOOLEAN]
  \cup
  [op : Comparing, base : {R0}, destination : {R0}, operand : MCOperands,
   updates : {TRUE}]
=============================================================================
