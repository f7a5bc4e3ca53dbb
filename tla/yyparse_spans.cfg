SPECIFICATION Spec
CONSTANTS
  InputBytesLimit = 4096
  TokenCountLimit = 4
  NestingDepthLimit = 1
  TokenBytesLimit = 6
  InitDepth = 3
  MaxDepth = 7
  TokenKinds = {3, 4, 11, 13, 14, 15, 16}
  LexemeBytes = {5, 7}
  Gaps = {0, 1}
INVARIANTS
  TypeOK
  StackInInputOrder
  SpansNest
