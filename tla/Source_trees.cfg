CONSTANTS
  MaxTurns = 1
  MaxSize = 3
  MaxDepth = 2
  Themes = {"expressions", "statements"}
SPECIFICATION Spec
CHECK_DEADLOCK FALSE
INVARIANTS
  ReadsWhatIsWritten
  LayoutIsFree
  FormatKeepsTheTree
