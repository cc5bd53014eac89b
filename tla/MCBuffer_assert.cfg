SPECIFICATION Spec
CONSTANTS
  DefaultSize = 8
  HeadSize = 2
  Base = 4
  Space = 20
  Lengths <- Overlong
  Reads <- Packets
INVARIANTS Asserted
