---------------------------- MODULE MCBloomFilter ----------------------------
(***************************************************************************)
(* BloomFilter with two blocks of two four-bit words.  k1 and k2 share two *)
(* of their three bits, in both words of block 0; k3 is alone in block 1.  *)
(***************************************************************************)
EXTENDS BloomFilter, TLC

CONSTANTS k1, k2, k3

MCHash == [k \in Keys |-> CASE k = k1 -> [h1 |-> 0, lo |-> 1, hi |-> 2]
                            [] k = k2 -> [h1 |-> 2, lo |-> 4, hi |-> 3]
                            [] k = k3 -> [h1 |-> 1, lo |-> 0, hi |-> 8]]

MCSymmetry == Permutations(Threads)
=============================================================================
