SPECIFICATION CheckSpec
CONSTANTS
  InputBytesLimit = 6
  TailBytes = 4
  Inputs <- EdgeInputs
INVARIANTS
  DecidesUtf8
  DecodedIsWellFormed
