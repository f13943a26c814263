----------------------------- MODULE BloomFilter -----------------------------
(***************************************************************************)
(* The lock-free Bloom filter of src/rg_bloom_filter.c.  Threads add and   *)
(* test keys at the same time; a step is one atomic access to one word of  *)
(* a block.  The unsynchronised Add and Clear need the filter to           *)
(* themselves, which is the client's part of the contract.                 *)
(*                                                                         *)
(* A key is known by the three numbers the code takes from its hash.  A    *)
(* bit is <<block, position>>; the filter is the set of bits that are 1.   *)
(***************************************************************************)
EXTENDS Integers, FiniteSets

CONSTANTS Threads, Keys,
          BlockCount,   \* m_blockCount
          BlockBits,    \* RGM_BLOOM_BLOCK_BITS, 512: a power of two
          WordBits,     \* bits of the word one atomic access reads or writes
          HashCount,    \* m_hashCount, k
          Hash          \* key -> [h1, lo, hi]: h1, h2 and h2 >> 32

\* A power of two: no odd number but 1 divides it.
PowerOfTwo(n) == \A d \in 2..n : n % d = 0 => d % 2 = 0

ASSUME BloomAssumption ==
  /\ {BlockCount, BlockBits, WordBits, HashCount} \subseteq Nat \ {0}
  /\ BlockBits % 2 = 0 /\ PowerOfTwo(BlockBits)
  /\ BlockBits % WordBits = 0 /\ HashCount <= BlockBits
  /\ Keys # {} /\ Hash \in [Keys -> [h1 : Nat, lo : Nat, hi : Nat]]

VARIABLES
  bits,      \* the bits set in m_bits
  pc, key,   \* what each thread does, and with which key
  at,        \* the word an Add is at; the number of bits a Test has seen set
  reg,       \* the bits an Add's load of that word returned
  begun,     \* keys whose Add was called since the last Clear (history)
  done,      \* keys whose Add returned since the last Clear (history)
  before     \* done, when a thread's Test was called (history)

vars == <<bits, pc, key, at, reg, begun, done, before>>

-----------------------------------------------------------------------------
(* Bits of a key.                                                          *)

\* Mutant: an even step stays even.
StepAsHashed(h) == h % BlockBits

\* "| 1": the step between positions is odd.
Step(h) == LET s == h % BlockBits IN IF s % 2 = 0 THEN s + 1 ELSE s

Position(lo, hi, i) == (lo + i * Step(hi)) % BlockBits

BitOf(k, i) == <<Hash[k].h1 % BlockCount, Position(Hash[k].lo, Hash[k].hi, i)>>
BitsOf(k)   == {BitOf(k, i) : i \in 0..(HashCount - 1)}
WordOf(b)   == b[2] \div WordBits
Word(k, w)  == {b \in {Hash[k].h1 % BlockCount} \X (0..(BlockBits - 1)) : WordOf(b) = w}

\* wmask: the bits of k in word w; the loop passes over words without any.
Mask(k, w)     == BitsOf(k) \cap Word(k, w)
WordsFrom(k, w) == {WordOf(b) : b \in {c \in BitsOf(k) : WordOf(c) >= w}}
Least(S)       == {v \in S : \A u \in S : v <= u}

-----------------------------------------------------------------------------
Outside == {"idle", "absent", "present"}      \* not in a call; what a Test said

Init ==
  /\ bits = {} /\ begun = {} /\ done = {}
  /\ pc \in [Threads -> {"idle"}] /\ key \in [Threads -> {CHOOSE k \in Keys : TRUE}]
  /\ at = [t \in Threads |-> 0]
  /\ reg = [t \in Threads |-> {}] /\ before = [t \in Threads |-> {}]

\* rgBloomFilterAdd, AddU64, AddH: rgm_bloom_add_h with _atomic.
AddBegin(t, k) ==
  /\ pc[t] \in Outside
  /\ pc'  = [pc EXCEPT ![t] = "load"]
  /\ key' = [key EXCEPT ![t] = k]
  /\ \E w \in Least(WordsFrom(k, 0)) : at' = [at EXCEPT ![t] = w]
  /\ begun' = begun \cup {k}
  /\ UNCHANGED <<bits, reg, done, before>>

\* The acquire load of a word.
AddLoad(t) ==
  /\ pc[t] = "load"
  /\ reg' = [reg EXCEPT ![t] = bits \cap Word(key[t], at[t])]
  /\ pc'  = [pc EXCEPT ![t] = "or"]
  /\ UNCHANGED <<bits, key, at, begun, done, before>>

\* On to the next word with a bit of the key, or out of the call.
NextWord(t) ==
  LET rest == WordsFrom(key[t], at[t] + 1) IN
  IF rest = {}
    THEN /\ pc'   = [pc EXCEPT ![t] = "idle"]
         /\ done' = done \cup {key[t]}
         /\ at'   = [at EXCEPT ![t] = 0]
    ELSE /\ pc'   = [pc EXCEPT ![t] = "load"]
         /\ \E w \in Least(rest) : at' = [at EXCEPT ![t] = w]
         /\ UNCHANGED done

\* Mutant: the word is stored back as loaded, plus the mask.
AddOrStores(t) ==
  /\ pc[t] = "or"
  /\ bits' = IF Mask(key[t], at[t]) \subseteq reg[t] THEN bits
             ELSE (bits \ Word(key[t], at[t])) \cup reg[t] \cup Mask(key[t], at[t])
  /\ reg'  = [reg EXCEPT ![t] = {}]
  /\ NextWord(t)
  /\ UNCHANGED <<key, begun, before>>

\* The atomic OR, skipped when the load saw every bit of the mask.
AddOr(t) ==
  /\ pc[t] = "or"
  /\ bits' = IF Mask(key[t], at[t]) \subseteq reg[t] THEN bits
             ELSE bits \cup Mask(key[t], at[t])
  /\ reg'  = [reg EXCEPT ![t] = {}]
  /\ NextWord(t)
  /\ UNCHANGED <<key, begun, before>>

\* rgBloomFilterTest, TestU64, TestH: rgm_bloom_test_h, one load per bit.
TestBegin(t, k) ==
  /\ pc[t] \in Outside
  /\ pc'  = [pc EXCEPT ![t] = "test"]
  /\ key' = [key EXCEPT ![t] = k]
  /\ at'  = [at EXCEPT ![t] = 0]
  /\ before' = [before EXCEPT ![t] = done]
  /\ UNCHANGED <<bits, reg, begun, done>>

\* Mutant: the last position is not looked at.
TestBitShort(t) ==
  /\ pc[t] = "test"
  /\ pc' = [pc EXCEPT ![t] = IF BitOf(key[t], at[t]) \notin bits THEN "absent"
                             ELSE IF at[t] + 2 >= HashCount THEN "present" ELSE "test"]
  /\ at' = [at EXCEPT ![t] = IF pc'[t] = "test" THEN @ + 1 ELSE 0]
  /\ UNCHANGED <<bits, key, reg, begun, done, before>>

TestBit(t) ==
  /\ pc[t] = "test"
  /\ pc' = [pc EXCEPT ![t] = IF BitOf(key[t], at[t]) \notin bits THEN "absent"
                             ELSE IF at[t] + 1 = HashCount THEN "present" ELSE "test"]
  /\ at' = [at EXCEPT ![t] = IF pc'[t] = "test" THEN @ + 1 ELSE 0]
  /\ UNCHANGED <<bits, key, reg, begun, done, before>>

Quiet == \A t \in Threads : pc[t] \in Outside

\* rgBloomFilterAddUnsync and its kin: plain ORs of all words, nobody looking.
AddUnsync(k) ==
  /\ Quiet
  /\ bits' = bits \cup BitsOf(k)
  /\ begun' = begun \cup {k} /\ done' = done \cup {k}
  /\ UNCHANGED <<pc, key, at, reg, before>>

\* rgBloomFilterClear; earlier answers are void.
Clear ==
  /\ Quiet
  /\ bits' = {} /\ begun' = {} /\ done' = {}
  /\ pc' = [t \in Threads |-> "idle"]
  /\ before' = [t \in Threads |-> {}]
  /\ UNCHANGED <<key, at, reg>>

Next ==
  \/ \E t \in Threads : \/ \E k \in Keys : AddBegin(t, k) \/ TestBegin(t, k)
                        \/ AddLoad(t) \/ AddOr(t) \/ TestBit(t)
  \/ \E k \in Keys : AddUnsync(k)
  \/ Clear

Spec == Init /\ [][Next]_vars

-----------------------------------------------------------------------------
(* Properties.                                                             *)

TypeOK ==
  /\ bits \subseteq (0..(BlockCount - 1)) \X (0..(BlockBits - 1))
  /\ pc \in [Threads -> Outside \cup {"load", "or", "test"}]
  /\ key \in [Threads -> Keys]
  /\ at \in [Threads -> 0..(BlockBits - 1)]
  /\ \A t \in Threads : reg[t] \subseteq Word(key[t], at[t])
  /\ begun \subseteq Keys /\ done \subseteq begun
  /\ before \in [Threads -> SUBSET Keys]

\* No false negative: "any bit set by an Add that returned before a Test started is
\* visible to that Test", whatever other Adds race on the same words or skip their
\* OR on the strength of an earlier load.
NoFalseNegative ==
  \A t \in Threads : pc[t] = "absent" => key[t] \notin before[t]

\* No answer out of thin air: a Test that says "possibly in set" saw every bit of
\* the key set, each by an Add of this phase.
PresentIsWitnessed ==
  \A t \in Threads : pc[t] = "present" =>
    \A b \in BitsOf(key[t]) : b \in bits /\ \E k \in begun : b \in BitsOf(k)

\* The forced odd step makes the k positions of a key distinct, and no race on a
\* word takes a bit back: an Add that returned leaves HashCount bits of its key set
\* until Clear, which is what the false-positive rate is computed from.
AddLeavesAllBits ==
  \A k \in done : Cardinality(BitsOf(k) \cap bits) = HashCount
==============================================================================
