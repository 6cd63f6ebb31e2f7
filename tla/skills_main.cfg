SPECIFICATION Spec
CONSTANTS
  x = x
  y = y
  a = a
  b = b
  Agents = {a, b}
  Main = a
  Names = {x, y}
  NoName = NoName
  HasHome = TRUE
  MaxTime = 1
  MaxCalls = 2
  Sources <- MCSources
  Overrides <- MCOverrides
  Already <- MCAlready
INVARIANTS
  InstalledWhole
PROPERTIES
  KeptUnlessForced
  ListedLoads
CHECK_DEADLOCK FALSE
