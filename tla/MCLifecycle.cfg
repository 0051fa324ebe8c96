SPECIFICATION ProcessSpec
CONSTANTS
  MAX_CUR_WORK = 2
  Files <- MCFiles
CHECK_DEADLOCK FALSE
INVARIANT FreedLast
PROPERTY Stops
