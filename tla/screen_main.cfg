\* Replies of up to eight blocks and spans with two pieces of text, in a table of
\* two rows and one column; menus of up to six sessions, in a window of three to six.
SPECIFICATION ScreenSpec
CONSTANTS
  MaxLists = 2
  MaxRows = 2
  MaxCols = 1
  CellMax = 2
  CodeMax = 3
  AltMax = 1
  CodeWidths <- MCWidths
  TableLeast = 1
  ColLeast = 1
  ColFloor = 1
  Columns = 8
  MaxEnters = 8
  MaxTexts = 2
  MaxSessions = 6
  NModels = 3
  Heights = {0, 7, 8, 9}
INVARIANTS
  NothingLost
  ItemsCounted
  SelectionShown
