CONSTANTS
  Fd = {f1, f2, f3}
  NoFd = NoFd
  NULL = NULL
  max = 1
  maxfds = 1
  Room = 1
  MaxAccept = 2
  MaxBytes = 4
  MaxPkt = 3
SPECIFICATION Spec
INVARIANT ReleasesAll
