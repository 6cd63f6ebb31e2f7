SPECIFICATION RestoringSpec
CONSTANTS
  MaxTurns = 2
  KeepRecent = 2
  Window = 12
  OffloadAt = 8
  SummaryAt = 8
  MaxCalls = 2
  MaxChats = 3
  BatchesFail = TRUE
  DisksFail = TRUE
  Weight <- MCWeight
  Outputs <- MCOutputs
INVARIANTS
  ReferencesReadBack
