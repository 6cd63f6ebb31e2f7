SPECIFICATION Spec
CONSTANTS
  CheckpointEvery = 4
  KeepRecent = 2
  Growth = {2}
  MaxIds = 2
  MaxMsgs = 8
  Long = {4}
  Switches = TRUE
  Crashes = TRUE
  MaxFails = 1
  Summarises = TRUE
INVARIANTS
  LoggedKept
  LogBounded
PROPERTIES
  KeptUntilDeleted
  FirstSessionLogged
