CONSTANTS
  max = 4
  Conn = {s1, s2, s3, s4, s5}
  NULL = NULL
SPECIFICATION MCSpec
INVARIANTS
  FreeCount
  OneEntry
PROPERTY RoundRobin
