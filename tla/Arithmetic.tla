------------------------------ MODULE Arithmetic ------------------------------
(***************************************************************************)
(* The pure functions of the library, on every input of a small width: the *)
(* sizes of the containers (Sizing), the descent register (HashDescent),   *)
(* the hash (WyHash), the population count of the Bloom filter, and the    *)
(* path probe (PathProbe).  A state is one request: `size` is any word,    *)
(* `blocks` any half word; what each function makes of them is stated      *)
(* below.                                                                  *)
(***************************************************************************)
EXTENDS Sizing, HashDescent, WyHash, PathProbe

CONSTANTS Bytes,        \* in a word of the filter, 8
          MaxPath       \* bound: characters of a path; 4095 in the code

ASSUME ArithmeticAssumption ==
  /\ WordBits = 2 * HalfBits
  /\ Bytes \in 1..31                    \* the count of a word fits a byte
  /\ MaxPath \in Nat

\* The functions of `size` alone are looked at in one state for each size.
Once == blocks = 0
------------------------------------------------------------------------------
\* v & 0x5555..., v & 0x3333... and v & 0x0f0f...: the low half of every 2 * run bits.
LowHalves(v, run) == Number({n \in BitsOf(v, 8 * Bytes) : n % (2 * run) < run}, 8 * Bytes)

\* 0x0101...
EveryByte == Number({8 * k : k \in 0..(Bytes - 1)}, 8 * Bytes)

\* Mutant: the last sum is not masked before it is added up.
SwarUnfolded(v) ==
  LET v1 == v - LowHalves(v \div 2, 1)
      v2 == LowHalves(v1, 2) + LowHalves(v1 \div 4, 2)
      v3 == v2 + (v2 \div 16)
  IN  ((v3 * EveryByte) % Pow2[8 * Bytes]) \div Pow2[8 * Bytes - 8]

\* The portable rgm_bloom_popcount64.
Swar(v) ==
  LET v1 == v - LowHalves(v \div 2, 1)
      v2 == LowHalves(v1, 2) + LowHalves(v1 \div 4, 2)
      v3 == LowHalves(v2 + (v2 \div 16), 4)
  IN  ((v3 * EveryByte) % Pow2[8 * Bytes]) \div Pow2[8 * Bytes - 8]

\* The pairs of bits of a register from the top one down, taken as branches: none is
\* skipped, none is looked at twice, the register is found empty exactly when no bit
\* is left in it, and at the latest when the `bits` it started with are taken.
Spends(reg, bits) ==
  LET left[n \in 0..(WordBits \div 2)] == IF n = 0 THEN reg ELSE Shift(left[n - 1])
  IN  /\ \A n \in 0..(WordBits \div 2 - 1) :
           /\ Branch(left[n]) = (reg \div Pow2[WordBits - 2 * n - 2]) % 4
           /\ left[n] = 0 <=> reg % Pow2[WordBits - 2 * n] = 0
      /\ left[bits \div 2] = 0

Paths == UNION {[1..n -> {"/", "c"}] : n \in 0..MaxPath}
------------------------------------------------------------------------------
\* The digest is spent on the root index and the branches, without overlap or gap.
\* The step that takes the last bits left in a register, and no step before it, goes
\* on with the digest of the next round, so that no key goes on with an exhausted
\* register, which would chain through child[0] only.  A reseed is spent whole, and
\* no two rounds have the same seed.
DigestSpent ==
  /\ Once => /\ RootIndex(size) * Pow2[WordBits - TopBits]
                  + StartRegister(size) \div Pow2[TopBits] = size
             /\ Spends(StartRegister(size), WordBits - TopBits)
             /\ Spends(size, WordBits)
  /\ Advance([h |-> size, round |-> 0], [r \in 0..1 |-> blocks])
       = IF size % Pow2[WordBits - 2] = 0 THEN [h |-> blocks, round |-> 1]
                                          ELSE [h |-> Shift(size), round |-> 0]
  /\ size % 2 = 1 =>
       \A r \in 0..(blocks - 1) :
         ReseedSeed(size, r, HalfBits) # ReseedSeed(size, blocks, HalfBits)

\* The hash reads the bytes of the key, all of them and no others, at every length
\* and on every path: short and eight-byte keys, stripes, blocks and the tail that
\* overlaps them.
HashReadsKey == Once => BytesRead(Digest(size)) = 0..(size - 1)

\* The copies of the hash agree: the fast path for eight bytes with the path of
\* the other short keys, and the one-pass pair with two hashes, at every length
\* (up to 16 bytes, where the pair takes the short path twice, by construction).
CopiesAgree ==
  Once => /\ FastWords = ShortWords(8)
          /\ \A n \in 1..2 : DualDigest(size)[n] = Digest(size)

\* The product of two words is exact in both halves; and a multiplicand of zero
\* does not erase the other: the mix still carries it.
MixKeepsOperands ==
  /\ \A low \in 0..(U32 - 1) :
       LET b == blocks * U32 + low
           m == Wymum(size, b, HalfBits)
       IN  m.hi * U64 + m.lo = size * b
  /\ Once => Wymix(size, 0, HalfBits) = size /\ Wymix(0, size, HalfBits) = size

\* The portable population count counts the bits of every word.
PopCountExact ==
  \A bit \in 0..1 :
    LET v == (2 * (size * U32 + blocks) + bit) % Pow2[8 * Bytes]
    IN  Swar(v) = Cardinality(BitsOf(v, 8 * Bytes))

\* "The volume is resolved from its longest existing prefix": for every path and
\* however much of it exists, doubled and trailing slashes included, the prefix
\* asked about has the known components and no more.
LongestPrefixProbed ==
  size = 0 => \A path \in Paths :
    LET found == Probe(path, blocks)
    IN  /\ found = SubSeq(path, 1, Len(found))
        /\ Components(found) = IF Exists(path, blocks) THEN Components(path) ELSE blocks
        /\ found = << >> => path = << >> \/ path[1] # "/"
==============================================================================
