SPECIFICATION Spec
CONSTANTS
  MaxLen = 5
INVARIANTS TypeOK InBounds Progress WordsOfLine Forwarded
PROPERTY Terminates
CHECK_DEADLOCK FALSE
