SPECIFICATION Spec
CONSTANTS
  MaxFd = 2
  Proc <- MCProc
  Data <- MCData
  Null = Null
  Peer = {p1, p2}
  Listener = Listener
  Size = 3
  Cap = 1
  Unit = 1
  Request <- Errors
  MaxRequests = 2
  Pipelining = TRUE
  MayDie = TRUE
SYMMETRY Interchangeable
INVARIANTS TypeOK NoDangling EventsAreFresh
CHECK_DEADLOCK FALSE
