SPECIFICATION Spec
CONSTANTS
  Options <- MCOptions
  Batch = 2
INVARIANTS
  CleanExit
  NoCircularWait
PROPERTIES
  ProgramEnds
  WindowsKeepUp
