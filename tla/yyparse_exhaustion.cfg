SPECIFICATION FairSpec
CONSTANTS
  InputBytesLimit = 4096
  TokenCountLimit = 5
  NestingDepthLimit = 2
  TokenBytesLimit = 6
  InitDepth = 2
  MaxDepth = 5
  TokenKinds = {3, 5, 9, 11, 14, 15}
  LexemeBytes = {5, 7}
  Gaps = {0}
INVARIANTS
  OutcomeExplained
  StackWithinTokens
PROPERTIES
  Terminates
