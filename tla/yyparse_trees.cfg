SPECIFICATION Spec
CONSTANTS
  InputBytesLimit = 4096
  TokenCountLimit = 5
  NestingDepthLimit = 2
  TokenBytesLimit = 6
  InitDepth = 3
  MaxDepth = 9
  TokenKinds = {3, 4, 7, 10, 11, 13, 14, 15, 16}
  LexemeBytes = {5}
  Gaps = {0}
INVARIANTS
  StackIsPath
  ValuesMatchSymbols
  SignParity
  AcceptedTreeIsDerived
  ArenaWithinTokens
PROPERTIES
  LexemeCopiedInTime
