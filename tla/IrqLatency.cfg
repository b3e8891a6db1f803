SPECIFICATION LatencySpec
CONSTANTS
  Vblank = Vblank
  SerialCom = SerialCom
  Interrupts <- MCInterrupts
  None = None
  GeneralCooldown = 2
  MinFireCooldown <- MCMinFireCooldown
  MaxTick = 12
  AgeCap = 4
  MaxGap = 2
  LongCooldown = 3
INVARIANTS
  NoDuplicates
  FiringsApart
  BoundedLatency
PROPERTIES
  NoRequestLost
  LineSpec
