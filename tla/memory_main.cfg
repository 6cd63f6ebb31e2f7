SPECIFICATION Spec
CONSTANTS
  main = main
  sub = sub
  one = one
  two = two
  both = both
  NTypes = 2
  Content <- Contents
  Lines <- LinesOf
  Legacy <- OneLegacy
  Answers <- SomeAnswers
  MaxAnswer = 1
  Agents <- OneAgent
  Main = main
  MaxObs = 2
  MaxOps = 3
  MaxSeen = 3
  MaxStarts = 2
  DiskFails = TRUE
  Crashes = TRUE
INVARIANTS RecallNamesEntries
PROPERTIES EntryLeavesByName NoSecondCopy ObservationsKept
