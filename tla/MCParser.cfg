CONSTANTS
  Texts <- ParserTexts
  Entry <- MCEntry
  Names <- MCNames
  Types <- MCTypes
  Literals <- MCLiterals
  Numbers <- MCLiterals
  Consts <- MCConsts
  MaxDepth = 60
SPECIFICATION FairSpec
INVARIANTS
  TypeOK
  RecursionConsumes
  ExpressionsAsInC
  ProgramsAsInC
  NamesKept
PROPERTY
  Terminates
CHECK_DEADLOCK FALSE
