---------------------------- MODULE MCTrieReaders ----------------------------
(***************************************************************************)
(* TrieReaders over one writer with three keys, two of them on a path of   *)
(* three nodes, the digests of which collide.  The batch asks for more     *)
(* keys than there are lanes, one of them twice.                           *)
(***************************************************************************)
EXTENDS TrieReaders, TLC

CONSTANTS k1, k2, k3

D == INSTANCE HashDescent WITH WordBits <- 4, TopBits <- 2

MCDigest(k) == CASE k = k1 -> [r \in 0..8 |-> IF r = 0 THEN 6 ELSE 5]
                 [] k = k2 -> [r \in 0..8 |-> IF r = 0 THEN 6 ELSE 7]
                 [] k = k3 -> [r \in 0..8 |-> IF r = 0 THEN 7 ELSE 9]

MCRoute    == [k \in Keys |-> D!Path(MCDigest(k))]
MCBranches == 1..3      \* no digest here takes branch 0
MCBatches  == {<<k2, k1, k2>>, << >>}
MCSymmetry == Permutations(Values)
==============================================================================
