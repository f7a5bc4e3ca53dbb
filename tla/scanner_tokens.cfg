CONSTANTS
  InputBytesLimit = 12
  TokenCountLimit = 3
  NestingDepthLimit = 1
  TokenBytesLimit = 5
  UnitsPerInput = 3
  NumeralUnits = 4
  Inputs <- MCInputs
SPECIFICATION ScannerSpec
INVARIANTS
  BufferIsInput
  OffsetIsCursor
  NeverFatal
  NumeralsApart
PROPERTY ImplementsTokenStream
