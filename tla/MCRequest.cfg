SPECIFICATION Spec
CONSTANTS
  MAX_STR = 64
  MAX_OUT = 64
  CACHE = 24
  MAX_LABEL = 16
  MAX_TYPE = 16
  MAX_ARGS = 3
  MAX_FILES = 3
  HTTP_FILE_MAX_LEN = 12
  BEHIND <- MCBehind
  Messages <- MCMessages
  MaxPackets = 3
CHECK_DEADLOCK FALSE
INVARIANTS
  HeadEnd
  HeadParsed
  RequestArgs
  ChunkEnd
  FormParts
