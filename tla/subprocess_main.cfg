SPECIFICATION ProcSpec
CONSTANTS
  Calls = {c1, c2}
  Agent = agent
  MaxShort = 1
  PipeSize = 1
  Cap = 1
  MaxOut = 3
INVARIANTS
  OutputWhole
PROPERTIES
  CallReturns
