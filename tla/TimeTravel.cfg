SPECIFICATION Spec
CONSTANTS
  Modes = {Irq, Supervisor}
  Irq = Irq
  Values = {0, 1}
  Start = 0
  Addresses = {a}
  HistoryCapacity = 3
INVARIANTS
  TypeOK
PROPERTIES
  SpsrComesBack
  LrComesBackInMode
