------------------------------ MODULE MCHashTrie ------------------------------
(***************************************************************************)
(* HashTrie on small instances.  The routes come from the descent of       *)
(* HashDescent on 4-bit digests with a 2-bit top index: the root slot, one *)
(* level of the digest, then reseeds, so that short walks reseed too.      *)
(***************************************************************************)
EXTENDS HashTrie

CONSTANTS k1, k2, k3

D == INSTANCE HashDescent WITH WordBits <- 4, TopBits <- 2

\* k1 and k2 collide on the full digest and fork on the second branch of the
\* first reseed; k3 shares their root slot and forks below it.
MCDigest(k) == CASE k = k1 -> [r \in 0..8 |-> IF r = 0 THEN 6 ELSE 5]
                 [] k = k2 -> [r \in 0..8 |-> IF r = 0 THEN 6 ELSE 7]
                 [] k = k3 -> [r \in 0..8 |-> IF r = 0 THEN 4 ELSE 9]

MCRoute    == [k \in Keys |-> D!Path(MCDigest(k))]
MCBranches == 0..3
==============================================================================
