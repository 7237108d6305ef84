CONSTANTS
  Texts <- NestedElses
  Entry <- MCEntry
  Names <- MCNames
  Types <- MCTypes
  Literals <- MCLiterals
  Numbers <- MCLiterals
  Consts <- MCConsts
  MaxDepth = 60
SPECIFICATION Spec
INVARIANT
  NamesKept
CHECK_DEADLOCK FALSE
