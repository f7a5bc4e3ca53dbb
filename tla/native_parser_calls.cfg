SPECIFICATION FairCallSpec
CONSTANTS
  InputBytesLimit = 6
  TokenCountLimit = 3
  NestingDepthLimit = 1
  TokenBytesLimit = 2
  InitDepth = 2
  MaxDepth = 6
  TokenKinds = {3, 5, 8, 11, 13, 14, 15}
  LexemeBytes = {1, 3}
  Gaps = {0, 1}
  InputLengths = {0, 1, 2, 3, 4, 5, 6, 7}
INVARIANTS
  ResourcesHeld
  ErrorsNeverMixed
PROPERTIES
  ImplementsService
  EveryCallAnswers
