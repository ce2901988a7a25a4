SPECIFICATION Spec
CONSTANTS
  kMaxDataSize = 6
  kMaxCipData = 16
  kMaxSymbolicName = 4
  SizeMod = 64
  CountMod = 16
  Types = {"Int", "String", "Unknown"}
  NoType = none
  BodyLens = {8, 12, 18, 32}
  ItemLens = {0, 4, 6, 9, 13, 63}
  MaxItems = 2
  NameLens = {1, 4, 5}
  Lengths = {0, 1, 63}
  Offsets = {0, 5, 6, 63}
  Counts = {0, 1, 3, 4, 32, 33}
INVARIANTS TypeOK InBounds DataIsCurrent StringIsCurrent RequestIsConsistent
