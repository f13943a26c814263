----------------------------- MODULE HashDescent -----------------------------
(***************************************************************************)
(* The descent register shared by HashMap, HashTrie and HashIndex: how a   *)
(* digest and its reseeds become the branches a key takes, at a word width *)
(* small enough to enumerate.  The walk is the same text in every Put, Get *)
(* and batch function of the three tries.                                  *)
(***************************************************************************)
EXTENDS Integers, Bits

CONSTANTS WordBits,     \* 64 in the code
          TopBits,      \* RG_HASH_TOP_BITS, 12 in the code; 0 without the index
          MaxDepth      \* bound on the number of levels followed

ASSUME DescentAssumption ==
  /\ WordBits \in Nat /\ TopBits \in Nat /\ MaxDepth \in Nat
  /\ WordBits % 2 = 0 /\ TopBits % 2 = 0 /\ TopBits < WordBits

Word == 0..(Pow2[WordBits] - 1)

\* RGM_HASH_TRIE_ROOT: index of the root slot, the top bits of the digest.
RootIndex(h) == h \div Pow2[WordBits - TopBits]

\* Mutant: two bits too many are taken for consumed.
StartRegisterOvershoot(h) == (h * Pow2[TopBits + 2]) % Pow2[WordBits]

\* RGM_HASH_TRIE_DESCEND: the register a walk starts with.
StartRegister(h) == (h * Pow2[TopBits]) % Pow2[WordBits]

\* h >> 62
Branch(h) == h \div Pow2[WordBits - 2]

\* h <<= 2
Shift(h) == (h * 4) % Pow2[WordBits]

\* Mutant: a register is found spent only when it is used again.
AdvanceLate(reg, digest) ==
  IF reg.h = 0
  THEN [h |-> digest[reg.round + 1], round |-> reg.round + 1]
  ELSE [h |-> Shift(reg.h), round |-> reg.round]

\* One level down for a key whose digest under round r is digest[r].
Advance(reg, digest) ==
  LET h == Shift(reg.h)
  IN  IF h = 0
      THEN [h |-> digest[reg.round + 1], round |-> reg.round + 1]
      ELSE [h |-> h, round |-> reg.round]

\* The branches of such a key, from its root slot down to level MaxDepth.
Path(digest) ==
  LET reg[d \in 0..MaxDepth] ==
        IF d = 0 THEN [h |-> StartRegister(digest[0]), round |-> 0]
                 ELSE Advance(reg[d - 1], digest)
  IN  [d \in 0..MaxDepth |->
         IF d = 0 THEN RootIndex(digest[0]) ELSE Branch(reg[d - 1].h)]
==============================================================================
