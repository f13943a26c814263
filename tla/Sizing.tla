-------------------------------- MODULE Sizing --------------------------------
(***************************************************************************)
(* How the containers turn what a caller asks for into sizes, in words     *)
(* small enough to try every request: the lists (ListSizes) and the blocks *)
(* of src/rg_bloom_filter.c.                                               *)
(***************************************************************************)
EXTENDS ListSizes, Bits

CONSTANTS HalfBits,     \* 32 in the code; a uint64_t has twice as many bits
          SmearSteps,   \* 5: the shifts by 1, 2, 4, 8 and 16
          BlockBits,    \* RGM_BLOOM_BLOCK_BITS, 512
          BlockWords    \* RGM_BLOOM_BLOCK_WORDS, 8

MaxBloomBlocks == U32 \div (2 * BlockWords)     \* RGM_BLOOM_MAX_BLOCKS

ASSUME SizingAssumption ==
  /\ {HalfBits, SmearSteps, BlockBits, BlockWords} \subseteq Nat \ {0}
  /\ U32 = Pow2[HalfBits] /\ HalfBits <= Pow2[SmearSteps]
  /\ BlockBits <= U32 /\ MaxBloomBlocks > 0

\* b |= b >> 1; b |= b >> 2; b |= b >> 4; ...
Spread(b, shift) == Or(b, b \div Pow2[shift], HalfBits)
Smear(b) ==
  LET after[n \in 0..SmearSteps] ==
        IF n = 0 THEN b ELSE Spread(after[n - 1], Pow2[n - 1])
  IN  after[SmearSteps]

\* Mutant: the cap lets through what rounds up to one doubling more.
RoundBlocksOverCap(bits) ==
  LET need == ((bits + BlockBits - 1) % U64) \div BlockBits
  IN  IF bits = 0 \/ bits > U64 - BlockBits \/ need > 2 * MaxBloomBlocks THEN 0
      ELSE IF need <= 1 THEN 1
      ELSE Smear(need - 1) + 1

\* rgm_bloom_round_blocks.
RoundBlocks(bits) ==
  LET need == ((bits + BlockBits - 1) % U64) \div BlockBits
  IN  IF bits = 0 \/ bits > U64 - BlockBits \/ need > MaxBloomBlocks THEN 0
      ELSE IF need <= 1 THEN 1
      ELSE Smear(need - 1) + 1

\* wordCount of rgm_bloom_install.
WordCount(n) == (n * BlockWords) % U32
------------------------------------------------------------------------------
\* A filter is refused exactly when it needs more blocks than the 32-bit word
\* count can zero; otherwise it has the least power of two of blocks that holds
\* the bits asked for, and every word of it is zeroed.
BloomSized ==
  LET n == RoundBlocks(size) IN
  IF n = 0 THEN size = 0 \/ size > MaxBloomBlocks * BlockBits
  ELSE /\ \E e \in 0..HalfBits : n = Pow2[e]
       /\ size <= n * BlockBits
       /\ n > 1 => size > (n \div 2) * BlockBits
       /\ WordCount(n) = n * BlockWords
==============================================================================
