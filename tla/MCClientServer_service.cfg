SPECIFICATION CSSpec
CONSTANTS
  MaxFd = 1
  Proc <- CSProc
  Data <- CSData
  Null = Null
  Peer = {p1, p2}
  Listener = Listener
  Size = 2
  Cap = 1
  Unit = 1
  Request <- Typed
  MaxRequests = 2
  Pipelining = FALSE
  MayDie = TRUE
  Local <- AnyFile
SYMMETRY Clients
INVARIANTS NoDangling
PROPERTIES Implements
