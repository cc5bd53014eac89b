SPECIFICATION CSSpec
CONSTANTS
  MaxFd = 2
  Proc <- CSProc
  Data <- CSData
  Null = Null
  Peer = {p1, p2}
  Listener = Listener
  Size = 3
  Cap = 1
  Unit = 2
  Request <- Works
  MaxRequests = 1
  Pipelining = FALSE
  MayDie = TRUE
  Local <- Regular
PROPERTIES Implements CommandReturns UploadsKept Reclaimed
