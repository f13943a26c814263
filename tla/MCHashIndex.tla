----------------------------- MODULE MCHashIndex -----------------------------
(***************************************************************************)
(* HashIndex with 4-bit digests and a 2-bit top index.  k1 and k2 have the *)
(* same first digest; their reseeds fork on the second branch.  A batch    *)
(* puts k1 twice, in two windows.                                          *)
(***************************************************************************)
EXTENDS IndexBatch, TLC

CONSTANTS k1, k2, v1, v2

D == INSTANCE HashDescent WITH WordBits <- 4, TopBits <- 2

MCH1 == [k \in ByteKeys |-> 6]
MCH2 == [k \in ByteKeys |-> IF k = k2 THEN 7 ELSE 5]

\* rgm_hash_reseed_h: a mix of both digests and the round.
Reseed(p, r) == ((p[1] + p[2] + r) % 15) + 1
MCRoute == [p \in Pairs |->
              D!Path([r \in 0..8 |-> IF r = 0 THEN p[1] ELSE Reseed(p, r)])]
MCBranches == 0..3
Item(k, v) == [key |-> k, val |-> v]
MCPutBatches == {<<Item(k1, v1), Item(k2, v1), Item(k1, v2)>>}
MCSymmetry == Permutations(Threads)
==============================================================================
