SPECIFICATION FairSpec
CONSTANTS
  main = main
  sub = sub
  read_file = read_file
  bash = bash
  mystery = mystery
  NoOne = NoOne
  Agents <- TwoAgents
  Silent <- SubOnly
  Tool <- Tools3
  Registered <- Tools2
  ReadOnly <- Readers
  Watched <- Tools2
  MaxCalls = 2
  MaxBatches = 1
  MaxObs = 3
  MaxSlots = 1
INVARIANTS TypeOK WritesRunAlone ObservedOnce
PROPERTIES ImplementsToolBatch BatchReturns
