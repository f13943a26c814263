CONSTANTS
  k1 = k1  k2 = k2  k3 = k3  k4 = k4
  NoValue = NoValue  Null = Null
  Keys     = {k1, k2, k3, k4}
  Capacity = 5
  Reach    = 4
  Budget   = 2
  Line     = 2
  IndexAlign = 2
  Values   <- MCValues
  Roots    <- MCRoots
  Branches <- MCBranches
  Route    <- MCRoute
SPECIFICATION Spec
INVARIANT SaveReopens
