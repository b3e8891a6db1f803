SPECIFICATION OperandSpec
CONSTANTS
  Width = 3
  R0 = R0
  R1 = R1
  Registers <- MCRegisters
  Instructions <- MCInstructions
INVARIANTS
  OperandTypeOK
  SignedConditionsTell
  ShiftsAreArithmetic
  SumsCarryOver
