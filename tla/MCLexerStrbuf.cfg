CONSTANTS
  Chars <- MCChars
  Sources <- LiteralTexts
  Files <- Headers
  Letters <- MCLetters
  Code <- MCCode
  NameBuf = 5
  StrBuf = 3
  MaxOpen = 3
SPECIFICATION Spec
INVARIANT
  LiteralsFit
CHECK_DEADLOCK FALSE
