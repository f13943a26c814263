CONSTANTS
  k1 = k1
  k2 = k2
  k3 = k3
  Threads = {t1, t2, t3}
  Keys = {k1, k2, k3}
  BlockCount = 2
  BlockBits = 8
  WordBits = 4
  HashCount = 3
  Hash <- MCHash
SYMMETRY MCSymmetry
SPECIFICATION Spec
INVARIANTS NoFalseNegative PresentIsWitnessed AddLeavesAllBits
