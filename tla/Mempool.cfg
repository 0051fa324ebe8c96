CONSTANTS
  Cache = {c1, c2, c3, c4}
  IncSize = 2
SPECIFICATION Spec
INVARIANTS
  Accounting
  BoundedIdle
PROPERTIES
  NoThrash
  ImplementsObjPool
