SPECIFICATION Spec
CONSTANTS
  NetRetries = 2
INVARIANTS
  TypeOK
  AnswerIsLast
  NothingLeft
PROPERTIES
  NotAskedTwice
