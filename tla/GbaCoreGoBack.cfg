SPECIFICATION CoreSpec
CONSTANTS
  Vblank = Vblank
  SerialCom = SerialCom
  Interrupts <- MCInterrupts
  None = None
  GeneralCooldown = 8
  MinFireCooldown <- MCMinFireCooldown
  AgeCap = 9
  VisibleLines = 2
  LastLine = 3
  TicksPerLine = 2
  Durations = {1, 3}
  Commands = {"continue", "step", "back"}
  BreakOnIrq = {SerialCom}
  HistoryCapacity = 2
  Forever = Forever
PROPERTIES
  GoingBackStaysPaused
