SPECIFICATION FairSpec
CONSTANTS
  MaxFd = 2
  Proc = {h1}
  Data = {d1}
  Null = Null
  Sizes = {2, 3}
INVARIANTS TypeOK MaxFdInv EpollInv HandlerInv
PROPERTIES StopHonoured
CHECK_DEADLOCK FALSE
