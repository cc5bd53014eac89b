SPECIFICATION Spec
CONSTANTS
  MaxFd = 2
  Proc <- MCProc
  Data <- MCData
  Null = Null
  Peer = {p1, p2}
  Listener = Listener
  Size = 3
  Cap = 1
  Unit = 2
  Request <- Conforming
  MaxRequests = 2
  Pipelining = FALSE
  MayDie = FALSE
SYMMETRY Interchangeable
INVARIANTS ReplyCorrect FilesComplete WriteInterest StallsForItsPeer
PROPERTIES NeverDropped
