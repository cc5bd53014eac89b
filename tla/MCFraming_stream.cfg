SPECIFICATION Spec
CONSTANTS
  Bodies <- Four
  HeadSize = 2
  Cap = 5
  MaxPackets = 3
PROPERTIES Implements PacketsArrive
