SPECIFICATION Spec
CONSTANTS
  DefaultSize = 8
  HeadSize = 2
  Base = 4
  Space = 20
  Lengths <- AllFitting
  Reads <- Packets
INVARIANTS InBounds FrameIntact
