CONSTANTS
  Texts <- SizeofPointers
  Entry <- MCEntry
  Names <- MCNames
  Types <- MCTypes
  Literals <- MCLiterals
  Numbers <- MCLiterals
  Consts <- MCConsts
  MaxDepth = 60
SPECIFICATION Spec
INVARIANT
  SizeofAsInC
CHECK_DEADLOCK FALSE
