SPECIFICATION FairLexerSpec

CONSTANTS
  InputBytesLimit = 8
  TokenCountLimit = 3
  NestingDepthLimit = 1
  TokenBytesLimit = 4
  UnitsPerString = 2
  Inputs <- MCInputs
  Strings <- MCStrings

INVARIANTS
  HeapSound

PROPERTIES
  ImplementsLexerService
  TokenizeAnswers
