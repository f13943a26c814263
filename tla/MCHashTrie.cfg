CONSTANTS
  k1 = k1  k2 = k2  k3 = k3
  NoValue = NoValue  Null = Null  Root = Root
  Miss = "ERR_INVALID"
  Threads  = {t1, t2}
  Keys     = {k1, k2, k3}
  Values   = {v1}
  Capacity = 2
  MaxDepth = 5
  Branches <- MCBranches
  Route    <- MCRoute
SPECIFICATION FairSpec
INVARIANTS UniqueKeys LeakBound IInv
PROPERTIES Linearizable PublishedStays CallsReturn
