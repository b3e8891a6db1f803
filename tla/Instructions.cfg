SPECIFICATION Spec
CONSTANTS
  ThumbCodes <- MCThumbCodes
  ArmWords <- MCArmWords
  LongestInstruction = 21
INVARIANTS
  TypeOK
  IpWritesStick
  InstructionsTakeTicks
  ThumbIsArm
