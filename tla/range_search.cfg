SPECIFICATION SearchSpec
CONSTANTS
  Tables <- UnicodeTables
  CodePoints <- EdgeCodePoints
INVARIANTS
  SearchDecides
