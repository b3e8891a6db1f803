SPECIFICATION Spec
CONSTANTS
  Accesses <- MCAccesses
  Words <- MCWords
  BiosByte = 234
  RomByte = 46
  RomLength = 64
  MaxStores = 2
  MaxLogged = 1
INVARIANT
  TypeOK
PROPERTY
  FlatSpec
