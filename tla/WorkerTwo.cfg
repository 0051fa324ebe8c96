CONSTANTS
  Fd = {f1, f2, f3, f4}
  NoFd = NoFd
  NULL = NULL
  max = 2
  maxfds = 2
  Room = 2
  MaxAccept = 3
  MaxBytes = 1
  MaxPkt = 1
SPECIFICATION Spec
INVARIANTS
  Registered
  RightFd
  NoDoubleFree
PROPERTY ImplementsConnTable
