SPECIFICATION Spec
CONSTANTS
  Keyword <- MCKeyword
  Rule <- MCRule
  Text <- MCText
  HitMax = 2
  MaxRules = 3
  NoRule = NoRule
  NoPart = NoPart
INVARIANTS
  ChainsComplete
  RefusedForCause
  NoneMissed
CHECK_DEADLOCK FALSE
