CONSTANTS
  k1 = k1  k2 = k2  k3 = k3
  NoValue = NoValue  Null = Null  Root = Root
  Miss     = "ERR_INVALID"
  Threads  = {t1}
  Keys     = {k1, k2, k3}
  Values   = {v1, v2}
  Capacity = 3
  MaxDepth = 5
  Branches <- MCBranches
  Route    <- MCRoute
  Lanes    = 2
  Batches  <- MCBatches
SPECIFICATION ReadersSpec
INVARIANTS ReportedOnce SnapshotReported OldOrNew BatchAnswersFit
SYMMETRY MCSymmetry
