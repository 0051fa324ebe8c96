CONSTANTS
  Fd = {f1, f2, f3}
  NoFd = NoFd
  NULL = NULL
  max = 1
  maxfds = 2
  Room = 1
  MaxAccept = 2
  MaxBytes = 4
  MaxPkt = 3
SPECIFICATION FairSpec
INVARIANTS
  NoMissedWakeup
  NoStranded
  PacketAccounting
  StreamIntact
PROPERTY WaitResolves
CHECK_DEADLOCK FALSE
