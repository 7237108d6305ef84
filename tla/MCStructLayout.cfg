CONSTANTS
  Base <- MCBase
  Lengths = {0, 3}
  MaxStructs = 2
  MaxFields = 3
SPECIFICATION Spec
INVARIANTS
  TypeOK
  FieldsApart
  DivisorPositive
  SizeRounded
  NoStraddle
  AgreesWithAbi
CHECK_DEADLOCK FALSE
