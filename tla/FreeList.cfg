CONSTANTS
  MaxBlocks = 4
  Null = Null
SPECIFICATION Spec
INVARIANTS FreeCountTrusted IInv
PROPERTY IsPool
