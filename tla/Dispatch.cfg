CONSTANTS
  MaxClient = 7
  nwork = 2
  MAX_CUR_WORK = 2
  max = 4
  Room = 2
  WORD = 8
SPECIFICATION FairSpec
CHECK_DEADLOCK FALSE
INVARIANTS
  OnePlace
  LiveAccounting
  Balanced
PROPERTY Settles
