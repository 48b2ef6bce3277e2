CONSTANTS
  MaxTurns = 2
  MaxSize = 4
  MaxDepth = 3
  Themes = {"handle", "optional", "retype", "const"}
SPECIFICATION Spec
CHECK_DEADLOCK FALSE
INVARIANTS
  MovedIsNotRead
  NarrowedIsThere
  ConstIsBound
  ReturnsAreCertain
  BlocksKeepTheirValues
