SPECIFICATION Spec
CONSTANTS
  Byte <- MCByte
  ALPHABET_SIZE = 99
  Keyword <- MCKeyword
  MaxKeywords = 3
  MaxText = 4
INVARIANTS
  FailIsLongestSuffix
  AllOccurrences
CHECK_DEADLOCK FALSE
