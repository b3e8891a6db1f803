SPECIFICATION FairSpec
CONSTANTS
  Supervisor = Supervisor
  System = System
  Irq = Irq
  NoMode = NoMode
  Start = Supervisor
  ProgramModes <- MCProgramModes
  Space = 5
  Vector = 1
  HandlerLength = 3
  Durations = {1, 2}
  MaxDuration = 2
  GeneralCooldown = 9
INVARIANTS
  TypeOK
PROPERTIES
  ProgramSpec
  ProgramRuns
