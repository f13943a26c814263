CONSTANTS
  k1 = k1  k2 = k2  v1 = v1  v2 = v2
  NoValue = NoValue  Null = Null  Root = Root
  Threads  = {t1, t2}
  ByteKeys = {k1, k2}
  Values   = {v1, v2}
  Capacity = 1
  MaxDepth = 5
  Window = 2
  PutBatches <- MCPutBatches
  Branches <- MCBranches
  H1       <- MCH1
  H2       <- MCH2
  Route    <- MCRoute
SPECIFICATION PutBatchSpec
INVARIANT BatchIsItsPuts
PROPERTY MapsCallersKeys
SYMMETRY MCSymmetry
