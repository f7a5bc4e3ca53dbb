SPECIFICATION Spec
CONSTANTS
  InputBytesLimit = 4096
  TokenCountLimit = 4
  NestingDepthLimit = 2
  TokenBytesLimit = 6
  InitDepth = 3
  MaxDepth = 7
  TokenKinds = {3, 4, 5, 6, 7, 8, 9, 10, 11, 12, 13, 14, 15, 16, 17}
  LexemeBytes = {5}
  Gaps = {0}
INVARIANTS
  NestingAgrees
  ErrorNamesLastToken
  StackNeverExhausted
PROPERTIES
  RefinesRecognizer
  LookaheadCommitment
