SPECIFICATION ScriptsSpec

CONSTANTS
  LastCodePoint = 11
  Surrogates <- SmallGap
  Patterns <- AllPatterns
  Qualification = "012"
  OtherTests = {"001", "002"}
  MaxLines = 4

INVARIANTS
  TableIsExact
  TableIsMinimal
  SuccessIsEarned
