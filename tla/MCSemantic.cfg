CONSTANTS
  x = x
  y = y
  char = char
  ptr = ptr
  incomplete = incomplete
  Names <- MCNames
  Types <- MCTypes
  Incomplete <- MCIncomplete
  Size <- MCSize
  IntType = char
  MaxTops = 2
  MaxDecls = 2
  MaxRefs = 2
  MaxStrs = 2
  MaxJumps = 1
SYMMETRY Symmetry
SPECIFICATION Spec
INVARIANTS
  TypeOK
  SlotsDisjoint
  FrameHolds
  RefsResolve
  StringsOnce
CHECK_DEADLOCK FALSE
