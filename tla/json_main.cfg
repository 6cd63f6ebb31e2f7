SPECIFICATION Spec
CONSTANTS
  Items = {i1, i2, i3, i4}
  Kinds = {"object", "number"}
  Null = Null
  NoKey = NoKey
  Keys <- MCKeys
  Lower <- MCLower
  CircularLimit = 1
  TextItems <- MCItems
  NestingLimit = 2
  IntMax = 40
  Tokens <- MCTokens
  MaxTyped = 4
  Seeds <- MCSeeds
  MaxEdits = 1
SYMMETRY Symmetric
INVARIANTS
  ParsesJson
  PrintsBack
PROPERTY ImplementsForest
CHECK_DEADLOCK FALSE
