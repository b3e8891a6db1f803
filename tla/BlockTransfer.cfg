SPECIFICATION Spec
CONSTANTS
  Saved = {4, 5}
  Values = {0, 1}
  CallSites <- MCCallSites
  Entry = 0
  StackStart = 16
  Capacity = 5
  MaxCalls = 2
  AddressSpace = 128
INVARIANTS
  TypeOK
  TransfersAreAnnounced
PROPERTIES
  StackSpec
  CallsReturn
