CONSTANTS
  MaxNodes = 7
  MaxTops = 2
  MaxStrs = 1
  StrNodes = 3
SPECIFICATION Spec
INVARIANTS
  TypeOK
  LabelsUnique
  JumpsResolved
  BreakInnermost
  JumpsStayInFunction
CHECK_DEADLOCK FALSE
