SPECIFICATION Spec
CONSTANTS
  MaxFd = 2
  MaxAddrs = 3
INVARIANTS TypeOK NothingLost OwnsSocket
PROPERTIES ReturnsWhatItSays TriesEverything
