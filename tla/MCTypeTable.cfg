CONSTANTS
  tag1 = tag1
  tag2 = tag2
  name1 = name1
  name2 = name2
  None = None
  Tags <- MCTags
  Aliases <- MCAliases
  MaxTops = 5
  MaxFields = 2
  Names = {n1, n2, n3, n4}
  Values = {v1, v2}
  Null = Null
  Uninit = Uninit
  InitCap = 1
  MaxLen = 4
SPECIFICATION TablesSpec
INVARIANTS
  TypeOK
  GivenIsComplete
  FieldsShared
  MapTypeOK
PROPERTIES
  TagKeepsNode
  IsNameTable
CHECK_DEADLOCK FALSE
