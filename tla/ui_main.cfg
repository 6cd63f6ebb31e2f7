SPECIFICATION FairSpec
CONSTANTS
  QueueSize = 7
  MaxSlots = 2
  MaxBatch = 3
  MaxTurns = 2
  MaxGuests = 2
INVARIANTS
  NeverOversleeps
  FrameKept
PROPERTIES
  MainReturns
