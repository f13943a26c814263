-------------------------- MODULE BloomFilterProofs --------------------------
(***************************************************************************)
(* No false negatives, and no answer out of thin air, for any threads,     *)
(* keys, hashes and sizes.  The first invariant follows an Add through its *)
(* words: what it has passed is set, and what its load saw is still set    *)
(* when it decides whether to skip the OR.  The second traces every bit    *)
(* set to an Add that has begun.                                           *)
(***************************************************************************)
EXTENDS BloomFilter, FiniteSetTheorems, FunctionTheorems, WellFoundedInduction,
        NaturalsInduction, TLAPS

USE BloomAssumption

Threaded ==
  /\ pc \in [Threads -> Outside \cup {"load", "or", "test"}]
  /\ key \in [Threads -> Keys]
  /\ at \in [Threads -> Nat]
  /\ DOMAIN reg = Threads /\ DOMAIN before = Threads
  /\ \A t \in Threads : pc[t] = "test" => at[t] < HashCount

\* An Add that returned has set every bit of its key.
DoneAreSet == \A k \in done : BitsOf(k) \subseteq bits

\* An Add under way has set the bits of the words it has passed.
PassedAreSet ==
  \A t \in Threads : pc[t] \in {"load", "or"} =>
    \A b \in BitsOf(key[t]) : WordOf(b) < at[t] => b \in bits

\* The load it decides on has not gone stale: bits are never taken back.
LoadedAreSet == \A t \in Threads : pc[t] = "or" => reg[t] \subseteq bits

\* A Test was promised no more than what has returned by now.
PromisesKept == \A t \in Threads : pc[t] = "test" => before[t] \subseteq done

BInv == Threaded /\ DoneAreSet /\ PassedAreSet /\ LoadedAreSet /\ PromisesKept
        /\ NoFalseNegative

\* A bit of a key is in the key's block.
LEMMA BitInBlock ==
  ASSUME NEW k \in Keys, NEW b \in BitsOf(k)
  PROVE  b \in {Hash[k].h1 % BlockCount} \X (0..(BlockBits - 1))
<1>1. PICK n \in 0..(HashCount - 1) : b = BitOf(k, n)
  BY DEF BitsOf
<1>2. Hash[k].lo \in Nat /\ Hash[k].hi \in Nat
  OBVIOUS
<1>3. Step(Hash[k].hi) \in Nat
  BY <1>2 DEF Step
<1> DEFINE p == Hash[k].lo + n * Step(Hash[k].hi)
<1>4. n * Step(Hash[k].hi) \in Nat
  BY <1>3
<1>5. p \in Nat
  BY <1>2, <1>4
<1>6. b = <<Hash[k].h1 % BlockCount, p % BlockBits>>
  BY <1>1 DEF BitOf, Position
<1>7. p % BlockBits \in 0..(BlockBits - 1)
  <2> HIDE DEF p
  <2> QED BY <1>5
<1> QED BY <1>6, <1>7

LEMMA WordIsNat == ASSUME NEW k \in Keys, NEW b \in BitsOf(k) PROVE WordOf(b) \in Nat
<1>1. b[2] \in 0..(BlockBits - 1)
  BY BitInBlock
<1> QED BY <1>1 DEF WordOf

\* The bits in the words before the least one an Add has still to visit are in the
\* words it has passed.
LEMMA NextWordLeast ==
  ASSUME NEW k \in Keys, NEW w \in Nat, NEW v \in Least(WordsFrom(k, w)),
         NEW b \in BitsOf(k), WordOf(b) < v
  PROVE  WordOf(b) < w
<1>1. WordOf(b) \in Nat /\ \A u \in WordsFrom(k, w) : u \in Nat
  BY WordIsNat DEF WordsFrom
<1>2. WordOf(b) >= w => WordOf(b) \in WordsFrom(k, w)
  BY DEF WordsFrom
<1> QED BY <1>1, <1>2 DEF Least

LEMMA LeastIsNat ==
  ASSUME NEW k \in Keys, NEW w \in Nat, NEW v \in Least(WordsFrom(k, w)) PROVE v \in Nat
BY WordIsNat DEF Least, WordsFrom

LEMMA BloomInit == Init => BInv
<1> SUFFICES ASSUME Init PROVE BInv
  OBVIOUS
<1>1. (CHOOSE k \in Keys : TRUE) \in Keys
  OBVIOUS
<1>2. Threaded
  BY <1>1 DEF Init, Threaded, Outside
<1> QED BY <1>2 DEF Init, BInv, DoneAreSet, PassedAreSet, LoadedAreSet, PromisesKept,
                    NoFalseNegative

LEMMA BloomNext == BInv /\ [Next]_vars => BInv'
<1> SUFFICES ASSUME BInv, [Next]_vars PROVE BInv'
  OBVIOUS
<1> USE DEF BInv, Threaded, DoneAreSet, PassedAreSet, LoadedAreSet, PromisesKept,
            NoFalseNegative
<1>1. ASSUME NEW t \in Threads, NEW k \in Keys, AddBegin(t, k) PROVE BInv'
  <2>1. PICK v \in Least(WordsFrom(k, 0)) : at' = [at EXCEPT ![t] = v]
    BY <1>1 DEF AddBegin
  <2>2. v \in Nat /\ \A b \in BitsOf(k) : ~(WordOf(b) < v)
    BY LeastIsNat, NextWordLeast, WordIsNat
  <2>3. Threaded'
    BY <1>1, <2>1, <2>2 DEF AddBegin
  <2>4. PassedAreSet'
    BY <1>1, <2>1, <2>2 DEF AddBegin, Outside
  <2> QED BY <1>1, <2>3, <2>4 DEF AddBegin, Outside
<1>2. ASSUME NEW t \in Threads, NEW k \in Keys, TestBegin(t, k) PROVE BInv'
  BY <1>2 DEF TestBegin, Outside
<1>3. ASSUME NEW t \in Threads, AddLoad(t) PROVE BInv'
  BY <1>3 DEF AddLoad, Outside
<1>4. ASSUME NEW t \in Threads, AddOr(t) PROVE BInv'
  <2>1. bits \subseteq bits' /\ Mask(key[t], at[t]) \subseteq bits'
    BY <1>4 DEF AddOr
  <2>2. \A b \in BitsOf(key[t]) : WordOf(b) = at[t] => b \in Mask(key[t], at[t])
    <3> SUFFICES ASSUME NEW b \in BitsOf(key[t]), WordOf(b) = at[t]
                 PROVE  b \in Mask(key[t], at[t])
      OBVIOUS
    <3>1. b \in {Hash[key[t]].h1 % BlockCount} \X (0..(BlockBits - 1))
      BY BitInBlock
    <3> QED BY <3>1 DEF Mask, Word
  <2>3. \A b \in BitsOf(key[t]) : WordOf(b) < at[t] + 1 => b \in bits'
    <3> SUFFICES ASSUME NEW b \in BitsOf(key[t]), WordOf(b) < at[t] + 1
                 PROVE  b \in bits'
      OBVIOUS
    <3>1. key[t] \in Keys /\ at[t] \in Nat /\ pc[t] = "or"
      BY <1>4 DEF AddOr
    <3>2. WordOf(b) \in Nat
      BY <3>1, WordIsNat
    <3>3. WordOf(b) < at[t] \/ WordOf(b) = at[t]
      <4>1. \A m, n \in Nat : m < n + 1 => m < n \/ m = n
        OBVIOUS
      <4> QED BY <3>1, <3>2, <4>1
    <3>4. WordOf(b) < at[t] => b \in bits
      BY <3>1
    <3> QED BY <2>1, <2>2, <3>3, <3>4
  <2>4. CASE WordsFrom(key[t], at[t] + 1) = {}
    <3>1. BitsOf(key[t]) \subseteq bits'
      BY <2>3, <2>4, WordIsNat DEF WordsFrom
    <3>2. /\ pc' = [pc EXCEPT ![t] = "idle"] /\ done' = done \cup {key[t]}
          /\ at' = [at EXCEPT ![t] = 0] /\ UNCHANGED <<key, begun, before>>
          /\ reg' = [reg EXCEPT ![t] = {}]
      BY <1>4, <2>4 DEF AddOr, NextWord
    <3>3. Threaded'
      BY <3>2 DEF Outside
    <3>4. DoneAreSet'
      BY <2>1, <3>1, <3>2
    <3>5. PassedAreSet' /\ LoadedAreSet'
      BY <2>1, <3>2
    <3>6. PromisesKept' /\ NoFalseNegative'
      BY <3>2
    <3> QED BY <3>3, <3>4, <3>5, <3>6
  <2>5. CASE WordsFrom(key[t], at[t] + 1) # {}
    <3>1. PICK v \in Least(WordsFrom(key[t], at[t] + 1)) : at' = [at EXCEPT ![t] = v]
      BY <1>4, <2>5 DEF AddOr, NextWord
    <3>2. v \in Nat /\ \A b \in BitsOf(key[t]) : WordOf(b) < v => b \in bits'
      BY <2>3, LeastIsNat, NextWordLeast, WordIsNat
    <3>3. pc' = [pc EXCEPT ![t] = "load"] /\ UNCHANGED <<key, done, begun, before>>
      BY <1>4, <2>5 DEF AddOr, NextWord
    <3>4. Threaded'
      BY <1>4, <3>1, <3>2, <3>3 DEF AddOr
    <3>5. PassedAreSet'
      BY <2>1, <3>1, <3>2, <3>3
    <3> QED BY <1>4, <2>1, <3>3, <3>4, <3>5 DEF AddOr, Outside
  <2> QED BY <2>4, <2>5
<1>5. ASSUME NEW t \in Threads, TestBit(t) PROVE BInv'
  <2>1. at[t] \in 0..(HashCount - 1) /\ key[t] \in Keys /\ pc[t] = "test"
    BY <1>5 DEF TestBit
  <2>2. BitOf(key[t], at[t]) \in BitsOf(key[t])
    BY <2>1 DEF BitsOf
  <2>3. pc' \in [Threads -> Outside \cup {"load", "or", "test"}]
    BY <1>5 DEF TestBit, Outside
  <2>4. /\ at' \in [Threads -> Nat]
        /\ \A u \in Threads : pc'[u] = "test" => at'[u] < HashCount
    BY <1>5, <2>1 DEF TestBit
  <2>5. Threaded'
    BY <1>5, <2>3, <2>4 DEF TestBit
  <2>6. PassedAreSet' /\ LoadedAreSet' /\ PromisesKept' /\ DoneAreSet'
    BY <1>5 DEF TestBit
  <2>7. NoFalseNegative'
    BY <1>5, <2>1, <2>2 DEF TestBit
  <2> QED BY <2>5, <2>6, <2>7
<1>6. ASSUME NEW k \in Keys, AddUnsync(k) PROVE BInv'
  BY <1>6 DEF AddUnsync, Quiet, Outside
<1>7. CASE Clear
  BY <1>7 DEF Clear, Quiet, Outside
<1>8. CASE UNCHANGED vars
  BY <1>8 DEF vars
<1> QED BY <1>1, <1>2, <1>3, <1>4, <1>5, <1>6, <1>7, <1>8 DEF Next

\* What the code promises of concurrent Add and Test.
THEOREM NeverAFalseNegative == Spec => []NoFalseNegative
<1>1. BInv => NoFalseNegative
  BY DEF BInv
<1> QED BY <1>1, BloomInit, BloomNext, PTL DEF Spec

-----------------------------------------------------------------------------
(* No answer out of thin air.                                              *)

\* Every bit is one of a key added since the last Clear, or being added.
Witnessed ==
  /\ \A t \in Threads : pc[t] \in {"load", "or"} => key[t] \in begun
  /\ \A b \in bits : \E k \in begun : b \in BitsOf(k)

\* What a Test has seen set is set.
SeenAreSet ==
  \A t \in Threads :
    /\ pc[t] = "test" => \A n \in 0..(at[t] - 1) : BitOf(key[t], n) \in bits
    /\ pc[t] = "present" => BitsOf(key[t]) \subseteq bits

WInv == BInv /\ Witnessed /\ SeenAreSet

LEMMA WitnessInit == Init => WInv
<1> SUFFICES ASSUME Init PROVE WInv
  OBVIOUS
<1>1. BInv
  BY BloomInit
<1>2. \A t \in Threads : pc[t] = "idle"
  BY DEF Init
<1> QED BY <1>1, <1>2 DEF Init, WInv, Witnessed, SeenAreSet

LEMMA WitnessNext == WInv /\ [Next]_vars => WInv'
<1> SUFFICES ASSUME WInv, [Next]_vars PROVE WInv'
  OBVIOUS
<1>1. BInv'
  BY BloomNext DEF WInv
<1> USE DEF WInv, Witnessed, SeenAreSet, BInv, Threaded
<1>2. SUFFICES (Witnessed /\ SeenAreSet)'
  BY <1>1
<1>3. ASSUME NEW t \in Threads, NEW k \in Keys, AddBegin(t, k)
      PROVE  (Witnessed /\ SeenAreSet)'
  BY <1>3 DEF AddBegin, Outside
<1>4. ASSUME NEW t \in Threads, NEW k \in Keys, TestBegin(t, k)
      PROVE  (Witnessed /\ SeenAreSet)'
  <2>1. \A n \in 0..(0 - 1) : FALSE
    OBVIOUS
  <2>2. /\ UNCHANGED <<bits, begun>>
        /\ \A u \in Threads : u # t => pc'[u] = pc[u] /\ key'[u] = key[u] /\ at'[u] = at[u]
        /\ pc'[t] = "test" /\ at'[t] = 0
    BY <1>4 DEF TestBegin
  <2> QED BY <2>1, <2>2
<1>5. ASSUME NEW t \in Threads, AddLoad(t) PROVE (Witnessed /\ SeenAreSet)'
  BY <1>5 DEF AddLoad
<1>6. ASSUME NEW t \in Threads, AddOr(t) PROVE (Witnessed /\ SeenAreSet)'
  <2>1. bits \subseteq bits' /\ bits' \subseteq bits \cup BitsOf(key[t])
    BY <1>6 DEF AddOr, Mask
  <2>2. key[t] \in begun
    BY <1>6 DEF AddOr
  <2>3. /\ UNCHANGED <<key, begun>>
        /\ \A u \in Threads : u # t => pc'[u] = pc[u] /\ at'[u] = at[u]
        /\ pc'[t] \in {"idle", "load"}
    BY <1>6 DEF AddOr, NextWord
  <2>4. Witnessed'
    BY <2>1, <2>2, <2>3
  <2>5. SeenAreSet'
    BY <2>1, <2>3
  <2> QED BY <2>4, <2>5
<1>7. ASSUME NEW t \in Threads, TestBit(t) PROVE (Witnessed /\ SeenAreSet)'
  <2>1. /\ UNCHANGED <<bits, key, begun>>
        /\ \A u \in Threads : u # t => pc'[u] = pc[u] /\ at'[u] = at[u]
        /\ pc[t] = "test" /\ pc'[t] \in {"absent", "present", "test"}
    BY <1>7 DEF TestBit
  <2>2. at[t] \in 0..(HashCount - 1)
    BY <2>1
  <2>3. ASSUME pc'[t] \in {"test", "present"}
        PROVE  \A n \in 0..at[t] : BitOf(key[t], n) \in bits
    <3>1. BitOf(key[t], at[t]) \in bits
      BY <1>7, <2>3 DEF TestBit
    <3>2. \A m \in Nat : \A n \in 0..m : n \in 0..(m - 1) \/ n = m
      OBVIOUS
    <3>3. at[t] \in Nat
      OBVIOUS
    <3> QED BY <2>1, <3>1, <3>2, <3>3
  <2>4. ASSUME pc'[t] = "test"
        PROVE  \A n \in 0..(at'[t] - 1) : BitOf(key'[t], n) \in bits'
    <3>1. at'[t] = at[t] + 1
      BY <1>7, <2>4 DEF TestBit
    <3>2. at'[t] - 1 = at[t]
      BY <2>2, <3>1
    <3> QED BY <2>1, <2>3, <2>4, <3>2
  <2>5. ASSUME pc'[t] = "present" PROVE BitsOf(key[t]) \subseteq bits
    <3>1. at[t] + 1 = HashCount
      BY <1>7, <2>5 DEF TestBit
    <3>2. 0..(HashCount - 1) = 0..at[t]
      BY <2>2, <3>1
    <3> QED BY <2>3, <2>5, <3>2 DEF BitsOf
  <2>6. SeenAreSet'
    BY <2>1, <2>4, <2>5
  <2>7. Witnessed'
    BY <2>1
  <2> QED BY <2>6, <2>7
<1>8. ASSUME NEW k \in Keys, AddUnsync(k) PROVE (Witnessed /\ SeenAreSet)'
  <2>1. \A t \in Threads : pc[t] \notin {"load", "or", "test"}
    BY <1>8 DEF AddUnsync, Quiet, Outside
  <2> QED BY <1>8, <2>1 DEF AddUnsync
<1>9. CASE Clear
  BY <1>9 DEF Clear
<1>10. CASE UNCHANGED vars
  BY <1>10 DEF vars
<1> QED BY <1>3, <1>4, <1>5, <1>6, <1>7, <1>8, <1>9, <1>10 DEF Next

\* A Test that says "possibly in set" has every bit of its key set, each by an Add
\* of this phase.
THEOREM PresentIsGenuine == Spec => []PresentIsWitnessed
<1>1. WInv => PresentIsWitnessed
  BY DEF WInv, Witnessed, SeenAreSet, PresentIsWitnessed
<1> QED BY <1>1, WitnessInit, WitnessNext, PTL DEF Spec

-----------------------------------------------------------------------------
(* Every Add leaves HashCount bits.                                        *)

\* A nonempty set of naturals has a least element.
LEMMA LeastNatural ==
  ASSUME NEW T, T \subseteq Nat, T # {}
  PROVE  \E x \in T : \A y \in T : x <= y
<1> DEFINE R == OpToRel(<, Nat)
<1>1. IsWellFoundedOn(R, Nat)
  BY NatLessThanWellFounded
<1>2. \E x \in T : \A y \in T : ~ (<<y, x>> \in R)
  <2> HIDE DEF R
  <2> QED BY <1>1, WFMin
<1>3. \A x, y \in Nat : y < x => <<y, x>> \in R
  BY DEF OpToRel
<1> HIDE DEF R
<1>4. PICK x \in T : \A y \in T : ~ (<<y, x>> \in R)
  BY <1>2
<1>5. ASSUME NEW y \in T PROVE x <= y
  <2>1. x \in Nat /\ y \in Nat /\ ~ (<<y, x>> \in R)
    BY <1>4
  <2>2. ~ (y < x)
    BY <2>1, <1>3
  <2> QED BY <2>1, <2>2
<1> QED BY <1>5

LEMMA Division ==
  ASSUME NEW a \in Int, NEW n \in Nat \ {0}
  PROVE  a = n * (a \div n) + (a % n) /\ a \div n \in Int /\ a % n \in 0..(n - 1)
OBVIOUS

LEMMA Remainder ==
  ASSUME NEW n \in Nat \ {0}, NEW q \in Int, NEW a \in Int, a = n * q
  PROVE  a % n = 0
OBVIOUS

LEMMA Algebra ==
  ASSUME NEW a \in Int, NEW b \in Int, NEW c \in Int
  PROVE  /\ a * b \in Int /\ a * b = b * a /\ a * (b * c) = (a * b) * c
         /\ a * (b - c) = a * b - a * c /\ a * (b + c) = a * b + a * c
OBVIOUS

LEMMA Cancel ==
  ASSUME NEW a \in Int, NEW b \in Int, NEW c \in Int, a * b = a * c, a # 0
  PROVE  b = c
OBVIOUS

\* The least positive g with B | s * g divides B, for so does what B leaves by g.
LEMMA RestOfDivision ==
  ASSUME NEW s \in Int, NEW B \in Int, NEW g \in Int, NEW q \in Int, NEW k \in Int,
         NEW r \in Int, s * g = B * q, B = g * k + r
  PROVE  s * r = B * (s - q * k)
OBVIOUS

LEMMA DivisionExists ==
  ASSUME NEW B \in Nat \ {0}, NEW g \in Nat \ {0}
  PROVE  \E k \in Int : \E r \in Int : B = g * k + r /\ r \in 0..(g - 1)
<1>1. /\ B = g * (B \div g) + (B % g)
      /\ B \div g \in Int /\ B % g \in Int /\ B % g \in 0..(g - 1)
  BY Division
<1> WITNESS B \div g \in Int
<1> WITNESS B % g \in Int
<1> QED BY <1>1

\* An odd step, taken fewer times than a block has bits, does not come back: the
\* least number of times it does divides the block, and leaves no odd quotient.
LEMMA OddStepMultiples ==
  ASSUME NEW B \in Nat \ {0}, PowerOfTwo(B), NEW s \in Nat, s % 2 # 0
  PROVE  \A n \in Nat \ {0} : (\E q \in Int : s * n = B * q) => n >= B
<1> DEFINE T == {m \in Nat \ {0} : \E q \in Int : s * m = B * q}
<1>2. B \in T
  <2>1. s * B = B * s /\ s \in Int
    BY Algebra
  <2> QED BY <2>1
<1>3. T \subseteq Nat \ {0} /\ T # {}
  BY <1>2
<1> HIDE DEF T
<1>4. PICK g \in T : \A y \in T : g <= y
  BY <1>3, LeastNatural
<1>5. PICK q \in Int : s * g = B * q
  BY <1>4 DEF T
<1>6. g \in Int /\ g \in Nat /\ g # 0 /\ g <= B
  BY <1>2, <1>3, <1>4
<1>7. PICK k \in Int : B = g * k
  <2>1. PICK k \in Int : \E r \in Int : B = g * k + r /\ r \in 0..(g - 1)
    BY <1>6, DivisionExists
  <2>2. PICK r \in Int : B = g * k + r /\ r \in 0..(g - 1)
    BY <2>1
  <2>3. s * r = B * (s - q * k)
    <3>1. s \in Int /\ B \in Int /\ g \in Int
      BY <1>6
    <3> QED BY <1>5, <2>2, <3>1, RestOfDivision
  <2>4. s - q * k \in Int
    BY Algebra
  <2>5. r \in Nat \ {0} => r \in T
    BY <2>3, <2>4 DEF T
  <2>6. r \in Nat \ {0} => g <= r
    BY <1>4, <2>5
  <2>7. r = 0
    BY <1>6, <2>2, <2>6
  <2> QED BY <1>6, <2>2, <2>7, Algebra
<1>9. k \in Nat /\ k # 0 /\ k <= B
  BY <1>6, <1>7
<1>10. s = q * k
  <2>1. g * s = g * (k * q)
    BY <1>5, <1>6, <1>7, Algebra
  <2>2. k * q \in Int /\ k * q = q * k
    BY Algebra
  <2> QED BY <1>6, <2>1, <2>2, Cancel
<1>11. k % 2 # 0
  <2> SUFFICES ASSUME k % 2 = 0 PROVE FALSE
    OBVIOUS
  <2>1. k = 2 * (k \div 2) /\ k \div 2 \in Int
    BY <1>9
  <2>2. s = 2 * (q * (k \div 2))
    BY <1>10, <2>1, Algebra
  <2>3. q * (k \div 2) \in Int
    BY <2>1, Algebra
  <2> QED BY <2>2, <2>3, Remainder
<1>12. B % k = 0
  <2>1. k \in Nat \ {0} /\ g \in Int /\ B \in Int /\ B = k * g
    BY <1>6, <1>7, <1>9, Algebra
  <2> QED BY <2>1, Remainder
<1>13. k = 1
  <2>1. k \in 2..B => FALSE
    BY <1>11, <1>12 DEF PowerOfTwo
  <2> QED BY <1>9, <2>1
<1>14. g = B
  BY <1>6, <1>7, <1>13
<1> QED BY <1>4, <1>14 DEF T

LEMMA OddStepGoesRound ==
  ASSUME NEW B \in Nat \ {0}, PowerOfTwo(B), NEW s \in Nat, s % 2 # 0,
         NEW n \in Nat \ {0}, (n * s) % B = 0
  PROVE  n >= B
<1> PICK p \in Int : p = n * s /\ p = s * n
  BY Algebra
<1> PICK e \in Int : e = p \div B
  OBVIOUS
<1>1. p = B * e + (p % B)
  BY Division
<1>2. p = B * e
  BY <1>1, Algebra
<1>3. \E q \in Int : s * n = B * q
  BY <1>2
<1> QED BY <1>3, OddStepMultiples

\* The step is odd, however the hash came out.
LEMMA StepIsOdd ==
  ASSUME NEW h \in Nat PROVE Step(h) \in Nat /\ Step(h) % 2 # 0
<1> PICK s : s = h % BlockBits
  OBVIOUS
<1>1. s \in Nat
  OBVIOUS
<1>2. s % 2 = 0 => (s + 1) % 2 = 1
  BY <1>1
<1> QED BY <1>1, <1>2 DEF Step

LEMMA SameRemainder ==
  ASSUME NEW n \in Nat \ {0}, NEW a \in Int, NEW b \in Int, a % n = b % n
  PROVE  (b - a) % n = 0
<1> PICK d \in Int : d = a \div n
  OBVIOUS
<1> PICK e \in Int : e = b \div n
  OBVIOUS
<1> PICK r \in Int : r = a % n
  OBVIOUS
<1>1. a = n * d + r /\ b = n * e + r
  BY Division
<1>2. b - a = n * (e - d) /\ e - d \in Int
  <2> PICK x \in Int, y \in Int : x = n * d /\ y = n * e
    BY Algebra
  <2>1. a = x + r /\ b = y + r
    BY <1>1
  <2>2. n * (e - d) = y - x
    BY Algebra
  <2>3. b - a = y - x /\ e - d \in Int
    BY <2>1
  <2> QED BY <2>2, <2>3, Zenon
<1> PICK w \in Int : w = b - a
  OBVIOUS
<1> QED BY <1>2, Remainder

\* No two of the HashCount positions of a key are the same.
LEMMA BitsAreDistinct ==
  ASSUME NEW k \in Keys, NEW m \in 0..(HashCount - 1), NEW n \in 0..(HashCount - 1),
         BitOf(k, m) = BitOf(k, n), m < n
  PROVE  FALSE
<1> PICK lo \in Nat, s \in Nat : lo = Hash[k].lo /\ s = Step(Hash[k].hi) /\ s % 2 # 0
  <2>1. Hash[k].lo \in Nat /\ Hash[k].hi \in Nat
    OBVIOUS
  <2> QED BY <2>1, StepIsOdd
<1>1. (lo + m * s) % BlockBits = (lo + n * s) % BlockBits
  BY DEF BitOf, Position
<1> PICK a \in Int : a = lo + m * s
  BY Algebra
<1> PICK b \in Int : b = lo + n * s
  BY Algebra
<1>3. (b - a) % BlockBits = 0
  BY <1>1, SameRemainder
<1>4. b - a = (n - m) * s
  OBVIOUS
<1>5. n - m \in Nat \ {0} /\ n - m < BlockBits
  OBVIOUS
<1>6. n - m >= BlockBits
  BY <1>3, <1>4, <1>5, OddStepGoesRound
<1> QED BY <1>5, <1>6

LEMMA BitsAreMany == \A k \in Keys : Cardinality(BitsOf(k)) = HashCount
<1> SUFFICES ASSUME NEW k \in Keys PROVE Cardinality(BitsOf(k)) = HashCount
  OBVIOUS
<1> DEFINE I == 0..(HashCount - 1)
           F == [n \in I |-> BitOf(k, n)]
<1>1. F \in [I -> BitsOf(k)] /\ \A b \in BitsOf(k) : \E n \in I : F[n] = b
  BY DEF BitsOf
<1>2. ASSUME NEW m \in I, NEW n \in I, F[m] = F[n] PROVE m = n
  <2>1. BitOf(k, m) = BitOf(k, n)
    BY <1>2
  <2>2. ~(m < n) /\ ~(n < m)
    BY <2>1, BitsAreDistinct
  <2> QED BY <2>2
<1>3. F \in Bijection(I, BitsOf(k))
  <2> HIDE DEF F
  <2> QED BY <1>1, <1>2, Fun_IsBij
<1>4. ExistsBijection(I, BitsOf(k))
  BY <1>3, Zenon DEF ExistsBijection
<1>5. IsFiniteSet(I) /\ Cardinality(I) = HashCount
  <2> PICK z \in Int, h \in Int : z = 0 /\ h = HashCount - 1
    OBVIOUS
  <2>1. IsFiniteSet(z..h) /\ Cardinality(z..h) = IF z > h THEN 0 ELSE h - z + 1
    BY FS_Interval
  <2>2. I = z..h /\ ~(z > h) /\ h - z + 1 = HashCount
    OBVIOUS
  <2> QED BY <2>1, <2>2
<1> QED BY <1>4, <1>5, FS_Bijection

DoneAreKeys == done \subseteq Keys

LEMMA DoneKeysStep == BInv /\ DoneAreKeys /\ [Next]_vars => DoneAreKeys'
<1> SUFFICES ASSUME BInv, DoneAreKeys, [Next]_vars PROVE done' \subseteq Keys
  BY DEF DoneAreKeys
<1>1. \A t \in Threads : key[t] \in Keys
  BY DEF BInv, Threaded
<1>2. done' \subseteq done \cup Keys
  BY <1>1 DEF Next, vars, AddBegin, TestBegin, AddLoad, AddOr, NextWord, TestBit,
              AddUnsync, Clear
<1> QED BY <1>2 DEF DoneAreKeys

\* An Add that has returned leaves all the HashCount bits of its key set until Clear,
\* whatever races it ran: they are HashCount different bits because the step is odd
\* and the block a power of two, and no race takes one back.
THEOREM AddLeavesEveryBit == Spec => []AddLeavesAllBits
<1>1. BInv /\ DoneAreKeys => AddLeavesAllBits
  <2> SUFFICES ASSUME BInv, DoneAreKeys, NEW k \in done
               PROVE  Cardinality(BitsOf(k) \cap bits) = HashCount
    BY DEF AddLeavesAllBits
  <2>1. BitsOf(k) \cap bits = BitsOf(k)
    BY DEF BInv, DoneAreSet
  <2> QED BY <2>1, BitsAreMany DEF DoneAreKeys
<1>2. Init => DoneAreKeys
  BY DEF Init, DoneAreKeys
<1> QED BY <1>1, <1>2, BloomInit, BloomNext, DoneKeysStep, PTL DEF Spec
=============================================================================
