CONSTANTS
  Chars <- MCChars
  Sources <- LexerTexts
  Files <- Headers
  Letters <- MCLetters
  Code <- MCCode
  NameBuf = 5
  StrBuf = 4
  MaxOpen = 3
SPECIFICATION FairSpec
INVARIANTS
  TypeOK
  TokensAsInC
  ErrorsJustified
  InputRestored
PROPERTY
  Terminates
CHECK_DEADLOCK FALSE
