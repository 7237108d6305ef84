CONSTANTS
  Byte = 4
  Memory = 320
  Externals <- MCExternals
  SizeOf <- typesize
  Sources <- MCSources
  Trees <- MCTrees
SPECIFICATION FairSpec
INVARIANTS
  TypeOK
  StoresInVariables
  PopsOperands
  ResultAsInC
  StopsJustified
PROPERTIES
  ReturnsToCaller
  Terminates
CHECK_DEADLOCK FALSE
