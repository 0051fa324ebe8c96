CONSTANTS
  Cache = {c1, c2, c3}
  IncSize = 2
  NULL = NULL
  HEAD = HEAD
SPECIFICATION Spec
INVARIANTS
  DoublyLinked
PROPERTY ImplementsMempool
