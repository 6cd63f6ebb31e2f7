SPECIFICATION FairSpec
CONSTANTS
  MaxTurns = 2
  KeepRecent = 2
  Window = 12
  OffloadAt = 8
  SummaryAt = 8
  MaxCalls = 2
  MaxChats = 2
  BatchesFail = TRUE
  DisksFail = TRUE
  Weight <- MCWeight
  Outputs <- MCOutputs
INVARIANTS
  SummaryTakesReferences
  RepliesFollow
  ReferencesReadBack
PROPERTIES
  ReferencesStay
  ChatReturns
