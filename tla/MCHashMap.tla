------------------------------ MODULE MCHashMap ------------------------------
(***************************************************************************)
(* HashMap on small instances: two roots, two branches.  k1, k2 and k4     *)
(* share a root entry, and k2 and k4 the branch below, so that later ones  *)
(* hang below earlier ones; k3 has its own root entry.                     *)
(***************************************************************************)
EXTENDS HashMap

CONSTANTS k1, k2, k3, k4

MCRoots    == {0, 1}
MCBranches == {0, 1}
MCValues   == {0, 1}
MCRoute    == [k \in Keys |-> [d \in 0..Capacity |->
                CASE k = k1 -> 0
                  [] k = k2 -> IF d = 0 THEN 0 ELSE 1
                  [] k = k3 -> 1
                  [] k = k4 -> IF d = 1 THEN 1 ELSE 0]]
=============================================================================
