SPECIFICATION MainSpec
CONSTANTS
  Room = 3
  MaxLen = 9
INVARIANTS LinesDelivered BlankLines
CHECK_DEADLOCK FALSE
