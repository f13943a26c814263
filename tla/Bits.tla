--------------------------------- MODULE Bits ---------------------------------
(***************************************************************************)
(* Powers of two and the bitwise operators of C, for words of any width w. *)
(* A word is looked at as the set of the positions of its 1 bits, and      *)
(* recursion is on the width: this is the form the proofs can expand.      *)
(***************************************************************************)
EXTENDS Integers

Pow2[n \in Nat] == IF n = 0 THEN 1 ELSE 2 * Pow2[n - 1]

\* The positions of the 1 bits of x.
BitsOf(x, w) == {n \in 0..(w - 1) : (x \div Pow2[n]) % 2 = 1}

\* The word with the 1 bits B, read from the most significant bit down.
Number(B, w) ==
  LET top[n \in 0..w] ==
        IF n = 0 THEN 0 ELSE 2 * top[n - 1] + (IF w - n \in B THEN 1 ELSE 0)
  IN  top[w]

Or(x, y, w)  == Number(BitsOf(x, w) \cup BitsOf(y, w), w)
Xor(x, y, w) == Number((BitsOf(x, w) \cup BitsOf(y, w)) \ (BitsOf(x, w) \cap BitsOf(y, w)), w)
==============================================================================
