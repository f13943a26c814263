-------------------------------- MODULE WyHash --------------------------------
(***************************************************************************)
(* src/rg_hash_func.h: which bytes of a key the hash reads, in which order *)
(* it mixes them, and the multiplication it mixes with.                    *)
(*                                                                         *)
(* A key is its length; a word is the sequence of the key positions in it, *)
(* most significant byte first (Zero: a byte that is 0).  A mixing state   *)
(* is the sequence of the steps that led to it from its seed: the words    *)
(* and the number of the secret.  Two digests are the same for every key   *)
(* when their steps are.                                                   *)
(***************************************************************************)
EXTENDS Integers, Sequences, Bits

Zero  == -1
Zeros == [j \in 1..8 |-> Zero]

\* rgm_hash_load_u64, rgm_hash_load_u32 and rgm_hash_load_u3.
Load64(p) == [j \in 1..8 |-> p + 8 - j]
Load32(p) == [j \in 1..4 |-> p + 4 - j]
Load3(k)  == <<Zero, Zero, Zero, Zero, Zero, 0, k \div 2, k - 1>>

\* The last two words, a and b, of a key of at most 16 bytes.
ShortWords(len) ==
  LET q == (len \div 8) * 4 IN
  IF len >= 4     THEN <<Load32(0) \o Load32(q), Load32(len - 4) \o Load32(len - 4 - q)>>
  ELSE IF len > 0 THEN <<Load3(len), Zeros>>
                  ELSE <<Zeros, Zeros>>

\* The fast path for eight bytes and, with the key in a register, rgm_hash_u64.
FastWords == LET b == Load64(0) IN <<SubSeq(b, 5, 8) \o SubSeq(b, 1, 4), b>>

\* Mutant: the tail is read from the start of the last block.
TailWordsForward(p, i) == <<Load64(p), Load64(p + 8)>>

\* The last two words of a longer key, which may overlap the block before.
TailWords(p, i) == <<Load64(p + i - 16), Load64(p + i - 8)>>

Step(words, secret) == [words |-> words, secret |-> secret]

-----------------------------------------------------------------------------
(* rgm_hash_wyhash_seeded, and rgm_hash_wyhash_128_seeded up to its last   *)
(* step, which yields both halves.                                         *)

\* Every round of a loop below takes at least 16 bytes.
Rounds(len) == len \div 16

\* Stripes of 48 bytes, in three lanes that start from the seed and are folded
\* into one.
Stripe(st) ==
  [p |-> st.p + 48, i |-> st.i - 48,
   lanes |-> [n \in 1..3 |->
                Append(st.lanes[n], Step(<<Load64(st.p + 16 * (n - 1)),
                                           Load64(st.p + 16 * (n - 1) + 8)>>, n))]]
WhileStripes(st) == IF st.i > 48 THEN Stripe(st) ELSE st
Stripes(len) ==
  LET after[n \in 0..Rounds(len)] ==
        IF n = 0 THEN [p |-> 0, i |-> len, lanes |-> << << >>, << >>, << >> >>]
                 ELSE WhileStripes(after[n - 1])
  IN  after[Rounds(len)]

\* Then blocks of 16.
WhileBlocks(st) ==
  IF st.i > 16
    THEN [p |-> st.p + 16, i |-> st.i - 16,
          seed |-> Append(st.seed, Step(<<Load64(st.p), Load64(st.p + 8)>>, 1))]
    ELSE st
Blocks(len) ==
  LET after[n \in 0..Rounds(len)] ==
        IF n = 0 THEN [p |-> Stripes(len).p, i |-> Stripes(len).i, seed |-> << >>]
                 ELSE WhileBlocks(after[n - 1])
  IN  after[Rounds(len)]

\* The digest: the lanes folded into the seed, the blocks, and the last step.
Short(len) == [lanes |-> << << >>, << >>, << >> >>, seed |-> << >>,
               last |-> IF len = 8 THEN FastWords ELSE ShortWords(len)]
Digest(len) ==
  IF len <= 16 THEN Short(len)
  ELSE LET b == Blocks(len)
       IN  [lanes |-> Stripes(len).lanes, seed |-> b.seed, last |-> TailWords(b.p, b.i)]

-----------------------------------------------------------------------------
(* rgm_hash_wyhash_dual_seeded: both seeds in one pass, each word loaded   *)
(* once; the text is not that of the single hash.                          *)

DualStart(len) == [p |-> 0, i |-> len,
                   seed1 |-> << >>, see1_1 |-> << >>, see2_1 |-> << >>,
                   seed2 |-> << >>, see1_2 |-> << >>, see2_2 |-> << >>]

\* Mutant: the second seed's lanes take each other's words.
DualStripeCrossed(st) ==
  LET l(n) == Load64(st.p + 8 * n) IN
  [p |-> st.p + 48, i |-> st.i - 48,
   seed1  |-> Append(st.seed1,  Step(<<l(0), l(1)>>, 1)),
   see1_1 |-> Append(st.see1_1, Step(<<l(2), l(3)>>, 2)),
   see2_1 |-> Append(st.see2_1, Step(<<l(4), l(5)>>, 3)),
   seed2  |-> Append(st.seed2,  Step(<<l(0), l(1)>>, 1)),
   see1_2 |-> Append(st.see1_2, Step(<<l(4), l(5)>>, 2)),
   see2_2 |-> Append(st.see2_2, Step(<<l(2), l(3)>>, 3))]

DualStripe(st) ==
  LET l(n) == Load64(st.p + 8 * n) IN
  [p |-> st.p + 48, i |-> st.i - 48,
   seed1  |-> Append(st.seed1,  Step(<<l(0), l(1)>>, 1)),
   see1_1 |-> Append(st.see1_1, Step(<<l(2), l(3)>>, 2)),
   see2_1 |-> Append(st.see2_1, Step(<<l(4), l(5)>>, 3)),
   seed2  |-> Append(st.seed2,  Step(<<l(0), l(1)>>, 1)),
   see1_2 |-> Append(st.see1_2, Step(<<l(2), l(3)>>, 2)),
   see2_2 |-> Append(st.see2_2, Step(<<l(4), l(5)>>, 3))]
WhileDualStripes(st) == IF st.i > 48 THEN DualStripe(st) ELSE st
DualStripes(len) ==
  LET after[n \in 0..Rounds(len)] ==
        IF n = 0 THEN DualStart(len) ELSE WhileDualStripes(after[n - 1])
  IN  after[Rounds(len)]

WhileDualBlocks(st) ==
  LET step == Step(<<Load64(st.p), Load64(st.p + 8)>>, 1) IN
  IF st.i > 16 THEN [p |-> st.p + 16, i |-> st.i - 16,
                     seed1 |-> Append(st.seed1, step), seed2 |-> Append(st.seed2, step)]
               ELSE st
DualBlocks(len) ==
  LET s == DualStripes(len)
      after[n \in 0..Rounds(len)] ==
        IF n = 0 THEN [p |-> s.p, i |-> s.i, seed1 |-> << >>, seed2 |-> << >>]
                 ELSE WhileDualBlocks(after[n - 1])
  IN  after[Rounds(len)]

\* The two digests, *_h1 and *_h2.
DualDigest(len) ==
  LET s == DualStripes(len)
      b == DualBlocks(len)
      last == TailWords(b.p, b.i)
  IN  IF len <= 16 THEN <<Short(len), Short(len)>>
      ELSE <<[lanes |-> <<s.seed1, s.see1_1, s.see2_1>>, seed |-> b.seed1, last |-> last],
             [lanes |-> <<s.seed2, s.see1_2, s.see2_2>>, seed |-> b.seed2, last |-> last]>>

-----------------------------------------------------------------------------
(* The multiplication.                                                     *)

\* Mutant: a carry out of the middle is lost.
WymumNoCarry(a, b, half) ==
  LET H  == Pow2[half]
      al == a % H  ah == a \div H  bl == b % H  bh == b \div H
      mid == (((al * bl) \div H) + ((al * bh) % H) + ((ah * bl) % H)) % H
  IN  [lo |-> (mid * H + ((al * bl) % H)) % (H * H),
       hi |-> (ah * bh + ((al * bh) \div H) + ((ah * bl) \div H)) % (H * H)]

\* rgm_hash_wymum128 without a 128-bit type, on words of two halves.
Wymum(a, b, half) ==
  LET H  == Pow2[half]
      al == a % H  ah == a \div H  bl == b % H  bh == b \div H
      mid == (((al * bl) \div H) + ((al * bh) % H) + ((ah * bl) % H)) % (H * H)
  IN  [lo |-> (mid * H + ((al * bl) % H)) % (H * H),
       hi |-> (ah * bh + ((al * bh) \div H) + ((ah * bl) \div H) + (mid \div H)) % (H * H)]

\* rgm_hash_wymix of the multiplicands, and the h1 of rgm_hash_wymix128.
Wymix(x, y, half) ==
  LET m == Wymum(x, y, half)
  IN  Xor(Xor(x, y, 2 * half), Xor(m.lo, m.hi, 2 * half), 2 * half)

\* RGM_HASH_RESEED_SEED, without WYP0, for an odd WYP3.
ReseedSeed(secret, round, half) == (secret * round) % Pow2[2 * half]

-----------------------------------------------------------------------------
(* What is asked of them.                                                  *)

BytesOf(words)  == {words[n][j] : n \in 1..2, j \in 1..8} \ {Zero}
BytesIn(steps)  == UNION {BytesOf(steps[s].words) : s \in DOMAIN steps}
BytesRead(d)    == BytesOf(d.last) \cup BytesIn(d.seed) \cup UNION {BytesIn(d.lanes[n]) : n \in 1..3}
==============================================================================
