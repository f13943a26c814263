--------------------------- MODULE ArithmeticProofs ---------------------------
(***************************************************************************)
(* Proofs about the sequential code without links: the dense list, and the *)
(* pure functions (module Arithmetic).  The list is proved for every       *)
(* number of blocks and every set of items; its inductive invariant is     *)
(* IInv itself: the live prefix maps one-to-one onto the items, and the    *)
(* slots below the sweep's index onto the items it has still to look at.   *)
(* The functions are proved for words of every width, keys of every length *)
(* and paths of every length.                                              *)
(***************************************************************************)
EXTENDS DenseList, Arithmetic, SequenceTheorems, FiniteSetTheorems,
        WellFoundedInduction, NaturalsInduction, TLAPS

-----------------------------------------------------------------------------
(* The dense list.                                                         *)

USE DenseListAssumption DEF Slot

\* Putting an item in the block Alloc hands out keeps the prefix dense.
LEMMA AllocDense ==
  ASSUME TypeOK, Dense, NEW x \in Items, Alloc(x)
  PROVE  count' \in 0..MaxBlocks /\ buf' \in [Slot -> Items] /\ items' \subseteq Items /\ Dense'
BY DEF TypeOK, Dense, Alloc

\* Swap-back: freeing any live slot keeps the prefix dense.
LEMMA FreeDense ==
  ASSUME TypeOK, Dense, NEW s \in Slot, Free(s)
  PROVE  count' \in 0..MaxBlocks /\ buf' \in [Slot -> Items] /\ items' \subseteq Items /\ Dense'
<1>1. count' \in 0..MaxBlocks /\ buf' \in [Slot -> Items] /\ items' \subseteq Items
  BY DEF TypeOK, Free
<1>2. \A r \in 0..(count' - 1) : buf'[r] = IF r = s THEN buf[count - 1] ELSE buf[r]
  BY DEF TypeOK, Free
<1>3. \A r, q \in 0..(count' - 1) : buf'[r] = buf'[q] => r = q
  BY <1>2 DEF TypeOK, Dense, Free
<1>4. items' \subseteq {buf'[r] : r \in 0..(count' - 1)}
  <2> SUFFICES ASSUME NEW y \in items' PROVE \E r \in 0..(count' - 1) : buf'[r] = y
    OBVIOUS
  <2>1. PICK r \in 0..(count - 1) : buf[r] = y
    BY DEF Dense, Free
  <2>2. r # s
    BY <2>1 DEF Free
  <2>3. CASE r = count - 1
    <3>1. s \in 0..(count' - 1) /\ buf'[s] = y
      BY <1>2, <2>1, <2>2, <2>3 DEF TypeOK, Free
    <3> QED BY <3>1
  <2>4. CASE r # count - 1
    <3>1. r \in 0..(count' - 1) /\ buf'[r] = y
      BY <1>2, <2>1, <2>2, <2>4 DEF TypeOK, Free
    <3> QED BY <3>1
  <2> QED BY <2>3, <2>4
<1>5. {buf'[r] : r \in 0..(count' - 1)} \subseteq items'
  BY <1>2 DEF TypeOK, Dense, Free
<1> QED BY <1>1, <1>3, <1>4, <1>5 DEF Dense

LEMMA InitInv == Init => IInv
BY DEF Init, IInv, TypeOK, Dense, SweepPrefix

LEMMA NextInv == IInv /\ [Next]_vars => IInv'
<1> SUFFICES ASSUME IInv, [Next]_vars PROVE IInv'
  OBVIOUS
<1>1. TypeOK /\ Dense /\ SweepPrefix
  BY DEF IInv
<1>2. CASE i = 0 /\ Use /\ UNCHANGED <<i, seen, kept>>
  <2>1. count' \in 0..MaxBlocks /\ buf' \in [Slot -> Items] /\ items' \subseteq Items /\ Dense'
    <3>1. CASE Clear
      BY <1>1, <3>1 DEF TypeOK, Dense, Clear
    <3>2. CASE \E x \in Items : Alloc(x)
      BY <1>1, <3>2, AllocDense
    <3>3. CASE \E s \in Slot : Free(s)
      BY <1>1, <3>3, FreeDense
    <3> QED BY <1>2, <3>1, <3>2, <3>3 DEF Use
  <2>2. SweepPrefix'
    BY <1>1, <1>2, <2>1 DEF TypeOK, SweepPrefix
  <2> QED BY <1>1, <1>2, <2>1, <2>2 DEF IInv, TypeOK
<1>3. CASE SweepBegin
  BY <1>1, <1>3 DEF IInv, TypeOK, Dense, SweepPrefix, SweepBegin
<1>4. CASE SweepStep
  <2>1. i - 1 \in Slot /\ i' = i - 1 /\ i' \in 0..MaxBlocks
    BY <1>1, <1>4 DEF TypeOK, SweepPrefix, SweepStep
  <2>2. count' \in 0..MaxBlocks /\ buf' \in [Slot -> Items] /\ items' \subseteq Items /\ Dense'
    <3>1. CASE Free(i - 1)
      BY <1>1, <2>1, <3>1, FreeDense
    <3>2. CASE UNCHANGED <<count, buf, items>>
      BY <1>1, <3>2 DEF TypeOK, Dense
    <3> QED BY <1>4, <3>1, <3>2 DEF SweepStep
  <2>3. i' <= count' /\ \A r \in 0..(i' - 1) : buf'[r] = buf[r]
    BY <1>1, <1>4, <2>1 DEF TypeOK, SweepPrefix, SweepStep, Free
  <2>4. buf[i - 1] \in kept /\ buf[i - 1] \in Items
    BY <1>1, <2>1, <1>4 DEF TypeOK, SweepPrefix, SweepStep
  <2>5. {buf[r] : r \in 0..(i - 1 - 1)} = {buf[r] : r \in 0..(i - 1)} \ {buf[i - 1]}
    BY <1>1, <2>1 DEF TypeOK, Dense, SweepPrefix
  <2>6. {buf'[r] : r \in 0..(i' - 1)} = kept' \ seen'
    <3>1. {buf'[r] : r \in 0..(i' - 1)} = {buf[r] : r \in 0..(i - 1 - 1)}
      BY <2>1, <2>3
    <3>2. kept' = kept /\ seen' = seen \cup {buf[i - 1]}
      BY <1>4 DEF SweepStep
    <3>3. {buf[r] : r \in 0..(i - 1)} = kept \ seen
      BY <1>1 DEF SweepPrefix
    <3> QED BY <2>5, <3>1, <3>2, <3>3
  <2>7. SweepPrefix'
    BY <1>1, <1>4, <2>3, <2>4, <2>6 DEF SweepPrefix, SweepStep
  <2> QED BY <1>1, <1>4, <2>1, <2>2, <2>4, <2>7 DEF IInv, TypeOK, SweepStep
<1>5. CASE UNCHANGED vars
  BY <1>1, <1>5 DEF IInv, TypeOK, Dense, SweepPrefix, vars
<1> QED BY <1>2, <1>3, <1>4, <1>5 DEF Next

\* The inductive invariant of the list and the sweep.
THEOREM ListInvariant == Spec => []IInv
BY InitInv, NextInv, PTL DEF Spec

\* The live prefix holds every item, once, after any run of operations.
THEOREM AlwaysDense == Spec => []Dense
<1>1. IInv => Dense
  BY DEF IInv
<1> QED BY <1>1, ListInvariant, PTL

\* A backward sweep that frees as it goes has seen all when it ends.
THEOREM BackwardSweepSeesAll == Spec => []SweepSeesAll
<1>1. IInv => SweepSeesAll
  <2> SUFFICES ASSUME IInv, i = 0 PROVE seen = kept
    BY DEF SweepSeesAll
  <2>1. {buf[s] : s \in 0..(i - 1)} = {}
    OBVIOUS
  <2> QED BY <2>1 DEF IInv, SweepPrefix
<1> QED BY <1>1, ListInvariant, PTL

HIDE DenseListAssumption DEF Slot
-----------------------------------------------------------------------------
(* Induction and recursion on the naturals.                                *)

\* A nonempty set of naturals has a least element.
LEMMA LeastNatural ==
  ASSUME NEW T, T \subseteq Nat, T # {}
  PROVE  \E x \in T : \A y \in T : x <= y
<1> DEFINE R == OpToRel(<, Nat)
<1>1. IsWellFoundedOn(R, Nat)
  BY NatLessThanWellFounded
<1>2. \E x \in T : \A y \in T : ~ (<<y, x>> \in R)
  <2> HIDE DEF R
  <2> QED BY <1>1, WFMin
<1>3. \A x, y \in Nat : y < x => <<y, x>> \in R
  BY DEF OpToRel
<1> HIDE DEF R
<1>4. PICK x \in T : \A y \in T : ~ (<<y, x>> \in R)
  BY <1>2
<1>5. ASSUME NEW y \in T PROVE x <= y
  <2>1. x \in Nat /\ y \in Nat /\ ~ (<<y, x>> \in R)
    BY <1>4
  <2>2. ~ (y < x)
    BY <2>1, <1>3
  <2> QED BY <2>1, <2>2
<1> QED BY <1>5

\* What holds at 0, and at n + 1 when at n, holds at every natural.
LEMMA Upwards ==
  ASSUME NEW T, 0 \in T, \A n \in Nat : n \in T => n + 1 \in T
  PROVE  \A n \in Nat : n \in T
<1> DEFINE B == {n \in Nat : n \notin T}
<1>1. SUFFICES ASSUME B # {} PROVE FALSE
  BY <1>1
<1>2. PICK n \in B : \A m \in B : n <= m
  <2>1. B \subseteq Nat
    OBVIOUS
  <2> HIDE DEF B
  <2> QED BY <1>1, <2>1, LeastNatural
<1>3. n - 1 \in Nat /\ n - 1 \notin B
  BY <1>2
<1> QED BY <1>2, <1>3

\* The same up to N only.
LEMMA UpTo ==
  ASSUME NEW N \in Nat, NEW T, 0 \in T, \A n \in 0..(N - 1) : n \in T => n + 1 \in T
  PROVE  \A n \in 0..N : n \in T
<1> DEFINE A == {n \in Nat : n <= N => n \in T}
<1>1. 0 \in A /\ \A n \in Nat : n \in A => n + 1 \in A
  OBVIOUS
<1>2. \A n \in Nat : n \in A
  <2> HIDE DEF A
  <2> QED BY <1>1, Upwards
<1> QED BY <1>2

\* The first n values of s0, g[1][s0], g[2][g[1][s0]], ...
IsOrbit(f, s0, g, n) == f[0] = s0 /\ \A k \in 1..n : f[k] = g[k][f[k - 1]]

\* There are such values, as many as one likes.
LEMMA OrbitExists ==
  ASSUME NEW S, NEW s0 \in S, NEW g \in [Nat -> [S -> S]], NEW n \in Nat
  PROVE  \E f \in [0..n -> S] : IsOrbit(f, s0, g, n)
<1> DEFINE T == {m \in Nat : \E f \in [0..m -> S] : IsOrbit(f, s0, g, m)}
<1>1. 0 \in T
  <2>1. [k \in 0..0 |-> s0] \in [0..0 -> S] /\ IsOrbit([k \in 0..0 |-> s0], s0, g, 0)
    BY DEF IsOrbit
  <2> QED BY <2>1
<1>2. ASSUME NEW m \in Nat, m \in T PROVE m + 1 \in T
  <2>1. PICK f \in [0..m -> S] : IsOrbit(f, s0, g, m)
    BY <1>2
  <2> DEFINE h == [k \in 0..(m + 1) |-> IF k = m + 1 THEN g[m + 1][f[m]] ELSE f[k]]
  <2>2. h \in [0..(m + 1) -> S]
    BY <2>1
  <2>3. h[0] = s0
    BY <2>1 DEF IsOrbit
  <2>4. ASSUME NEW k \in 1..(m + 1) PROVE h[k] = g[k][h[k - 1]]
    <3>1. h[k - 1] = f[k - 1]
      OBVIOUS
    <3>2. CASE k = m + 1
      BY <3>1, <3>2
    <3>3. CASE k # m + 1
      BY <2>1, <3>1, <3>3 DEF IsOrbit
    <3> QED BY <3>2, <3>3
  <2> HIDE DEF h
  <2>5. IsOrbit(h, s0, g, m + 1)
    BY <2>3, <2>4 DEF IsOrbit
  <2> QED BY <2>2, <2>5
<1>3. \A m \in Nat : m \in T
  <2> HIDE DEF T
  <2> QED BY <1>1, <1>2, Upwards
<1> QED BY <1>3

\* They are the same whoever computes them, and however many are computed.
LEMMA OrbitsAgree ==
  ASSUME NEW S, NEW s0 \in S, NEW g \in [Nat -> [S -> S]], NEW n \in Nat,
         NEW f, IsOrbit(f, s0, g, n), NEW h, IsOrbit(h, s0, g, n)
  PROVE  \A k \in 0..n : f[k] = h[k] /\ f[k] \in S
<1> DEFINE T == {k \in 0..n : f[k] = h[k] /\ f[k] \in S}
<1>1. 0 \in T
  BY DEF IsOrbit
<1>2. ASSUME NEW k \in 0..(n - 1), k \in T PROVE k + 1 \in T
  <2>1. k + 1 \in 1..n /\ (k + 1) - 1 = k
    OBVIOUS
  <2>2. f[k + 1] = g[k + 1][f[k]] /\ h[k + 1] = g[k + 1][h[k]]
    BY <2>1 DEF IsOrbit
  <2> QED BY <1>2, <2>1, <2>2
<1>3. \A k \in 0..n : k \in T
  <2> HIDE DEF T
  <2> QED BY <1>1, <1>2, UpTo
<1> QED BY <1>3

\* The recursive function that spells them, over the naturals or up to N.
Recurs(f, D, s0, g) == f = [n \in D |-> IF n = 0 THEN s0 ELSE g[n][f[n - 1]]]

LEMMA Recursion ==
  ASSUME NEW S, NEW s0 \in S, NEW g \in [Nat -> [S -> S]],
         NEW D, D = Nat \/ \E N \in Nat : D = 0..N
  PROVE  /\ \E f : Recurs(f, D, s0, g)
         /\ \A f : Recurs(f, D, s0, g) => f \in [D -> S]
<1> USE DEF Recurs
<1> DEFINE O(n) == CHOOSE f \in [0..n -> S] : IsOrbit(f, s0, g, n)
           F == [n \in D |-> O(n)[n]]
           F1 == [n \in D |-> IF n = 0 THEN s0 ELSE g[n][F[n - 1]]]
<1>0. D \subseteq Nat /\ \A n \in D : n # 0 => n - 1 \in D
  OBVIOUS
<1>1. \A n \in Nat : O(n) \in [0..n -> S] /\ IsOrbit(O(n), s0, g, n)
  BY OrbitExists
<1>2. ASSUME NEW n \in D, n # 0 PROVE O(n)[n] = g[n][O(n - 1)[n - 1]]
  <2> HIDE DEF O
  <2>1. n \in Nat /\ n - 1 \in Nat /\ n \in 1..n /\ n - 1 \in 0..(n - 1)
    BY <1>0, <1>2
  <2>2. O(n)[n] = g[n][O(n)[n - 1]]
    BY <1>1, <2>1 DEF IsOrbit
  <2>3. IsOrbit(O(n), s0, g, n - 1) /\ IsOrbit(O(n - 1), s0, g, n - 1)
    BY <1>1, <2>1 DEF IsOrbit
  <2>4. O(n)[n - 1] = O(n - 1)[n - 1]
    BY <2>1, <2>3, OrbitsAgree
  <2> QED BY <2>2, <2>4
<1>3. ASSUME NEW n \in D PROVE F[n] = F1[n]
  <2>1. CASE n = 0
    <3>1. O(0)[0] = s0
      BY <1>1 DEF IsOrbit
    <3> HIDE DEF O
    <3> QED BY <2>1, <3>1
  <2>2. CASE n # 0
    <3> HIDE DEF O
    <3> QED BY <1>0, <1>2, <2>2
  <2> QED BY <2>1, <2>2
<1>4. F = F1
  <2> HIDE DEF O
  <2>1. F = [n \in D |-> F[n]] /\ F1 = [n \in D |-> F1[n]]
    OBVIOUS
  <2> HIDE DEF F, F1
  <2> QED BY <2>1, <1>3
<1>5. ASSUME NEW f, f = [n \in D |-> IF n = 0 THEN s0 ELSE g[n][f[n - 1]]]
      PROVE  f \in [D -> S]
  <2> DEFINE T == {n \in Nat : n \in D => f[n] \in S}
  <2>1. 0 \in T
    <3>1. 0 \in D
      OBVIOUS
    <3>2. f[0] = s0
      BY <3>1, <1>5
    <3> QED BY <3>2
  <2>2. ASSUME NEW n \in Nat, n \in T PROVE n + 1 \in T
    <3>1. SUFFICES ASSUME n + 1 \in D PROVE f[n + 1] \in S
      BY <3>1
    <3>2. (n + 1) - 1 = n /\ n \in D /\ n + 1 # 0
      BY <3>1, <1>0
    <3>3. f[n + 1] = g[n + 1][f[n]]
      BY <3>1, <3>2, <1>5
    <3> QED BY <2>2, <3>2, <3>3
  <2>3. \A n \in Nat : n \in T
    <3> HIDE DEF T
    <3> QED BY <2>1, <2>2, Upwards
  <2>4. \A n \in D : f[n] \in S
    BY <1>0, <2>3
  <2>5. f = [n \in D |-> f[n]]
    BY <1>5
  <2> QED BY <2>4, <2>5
<1> HIDE DEF F, F1
<1>6. F = [n \in D |-> IF n = 0 THEN s0 ELSE g[n][F[n - 1]]]
  BY <1>4 DEF F1
<1> QED BY <1>5, <1>6

-----------------------------------------------------------------------------
(* Words, and the sizes of the lists.                                      *)

\* Quotient and remainder.
LEMMA Division ==
  ASSUME NEW a \in Int, NEW m \in Nat \ {0}
  PROVE  /\ a \div m \in Int /\ a % m \in 0..(m - 1)
         /\ a = m * (a \div m) + (a % m)
OBVIOUS

LEMMA NaturalDivision ==
  ASSUME NEW a \in Nat, NEW m \in Nat \ {0}
  PROVE  \E q \in Nat, r \in 0..(m - 1) : q = a \div m /\ r = a % m /\ a = m * q + r
<1>1. a \div m \in Int /\ a % m \in 0..(m - 1) /\ a = m * (a \div m) + (a % m)
  <2>1. a \in Int
    OBVIOUS
  <2> QED BY <2>1, Division
<1>2. PICK q \in Int, r \in 0..(m - 1) : q = a \div m /\ r = a % m /\ a = m * q + r
  BY <1>1
<1>3. q >= 0
  <2>1. SUFFICES ASSUME q <= -1 PROVE FALSE
    BY <2>1
  <2>2. m * (-1 - q) >= 0 /\ m * q = -m - m * (-1 - q)
    BY <2>1
  <2> QED BY <1>2, <2>2
<1>4. q \in Nat
  BY <1>3
<1> QED BY <1>2, <1>4, Zenon

\* What is left above a remainder is a multiple.
LEMMA MultipleBelow ==
  ASSUME NEW a \in Int, NEW m \in Nat \ {0}
  PROVE  \E j \in Int : a - (a % m) = m * j /\ m * j <= a /\ a < m * j + m
<1>1. PICK j \in Int : j = a \div m
  BY Division
<1>2. a % m \in 0..(m - 1) /\ a = m * j + (a % m)
  BY <1>1, Division
<1>3. a - (a % m) = m * j /\ m * j <= a /\ a < m * j + m
  BY <1>2
<1> QED BY <1>3

\* Of two multiples of m, the one that is more than m below cannot be below.
LEMMA MultipleAbove ==
  ASSUME NEW m \in Nat \ {0}, NEW j \in Int, NEW k \in Int, m * j < m * k + m
  PROVE  m * j <= m * k
<1>1. SUFFICES ASSUME k < j PROVE FALSE
  <2>1. CASE j <= k
    <3>1. k - j \in Nat /\ m * (k - j) >= 0
      BY <2>1
    <3> QED BY <3>1
  <2> QED BY <2>1
<1>2. j - k - 1 \in Nat /\ m * (j - k - 1) >= 0
  BY <1>1
<1>3. m * j = m * k + m + m * (j - k - 1)
  OBVIOUS
<1> QED BY <1>2, <1>3

\* What is below m is its own remainder, and so is what is left above m.
LEMMA SmallRemainder ==
  ASSUME NEW m \in Nat \ {0}, NEW a \in 0..(m - 1)
  PROVE  a % m = a /\ (m + a) % m = a
<1>1. \A q \in Int : -m < m * q /\ m * q < m => q = 0
  <2> SUFFICES ASSUME NEW q \in Int, -m < m * q, m * q < m PROVE q = 0
    OBVIOUS
  <2>1. m * q <= m * 0
    BY MultipleAbove, m * q < m * 0 + m, 0 \in Int
  <2>2. m * 0 <= m * q
    BY MultipleAbove, m * 0 < m * q + m, 0 \in Int
  <2> QED BY <2>1, <2>2
<1>2. a % m = a
  <2>1. m * (a \div m) = a - (a % m) /\ a % m \in 0..(m - 1) /\ a \div m \in Int
    BY Division
  <2>2. a \div m = 0
    BY <1>1, <2>1
  <2> QED BY <2>1, <2>2
<1>3. (m + a) % m = a
  <2>1. /\ m * ((m + a) \div m) = m + a - ((m + a) % m)
        /\ (m + a) % m \in 0..(m - 1) /\ (m + a) \div m \in Int
    <3> DEFINE b == m + a
    <3>1. b \in Int
      OBVIOUS
    <3> HIDE DEF b
    <3>2. b = m * (b \div m) + (b % m) /\ b % m \in 0..(m - 1) /\ b \div m \in Int
      BY <3>1, Division
    <3>3. m * (b \div m) = b - (b % m)
      BY <3>1, <3>2
    <3> QED BY <3>2, <3>3 DEF b
  <2>2. m * (((m + a) \div m) - 1) = a - ((m + a) % m)
    BY <2>1
  <2>3. ((m + a) \div m) - 1 = 0
    BY <1>1, <2>1, <2>2
  <2> QED BY <2>1, <2>2, <2>3
<1> QED BY <1>2, <1>3

\* The words: U32 and U64 are multiples of Align.
LEMMA WordSizes ==
  ASSUME ListSizesAssumption
  PROVE  /\ U32 \in Nat \ {0} /\ Align \in Nat \ {0} /\ Pointer \in Nat \ {0}
         /\ U64 \in Nat /\ U32 <= U64 /\ Align <= U32 /\ Pointer < U32
         /\ \E k \in Int : U64 = Align * k
<1>1. U32 \in Nat \ {0} /\ Align \in Nat \ {0} /\ Pointer \in Nat \ {0} /\ Pointer < U32
  BY DEF ListSizesAssumption
<1>2. U64 \in Nat /\ U32 <= U64
  BY <1>1 DEF U64
<1>3. U32 = Align * (U32 \div Align) /\ U32 \div Align \in Int
  BY <1>1, Division DEF ListSizesAssumption
<1>4. Align <= U32
  <2>1. Align * 1 <= Align * (U32 \div Align)
    BY <1>1, <1>3, MultipleAbove, Align * 1 < Align * (U32 \div Align) + Align, 1 \in Int
  <2> QED BY <1>1, <1>3, <2>1
<1>5. U64 = Align * ((U32 \div Align) * U32) /\ (U32 \div Align) * U32 \in Int
  BY <1>1, <1>3 DEF U64
<1> QED BY <1>1, <1>2, <1>4, <1>5

\* Every state is a request.
LEMMA AlwaysRequest == Requests => []Request
<1>1. Request /\ [NextRequest]_<<size, blocks>> => Request'
  <2> SUFFICES ASSUME Request, [NextRequest]_<<size, blocks>> PROVE Request'
    OBVIOUS
  <2>1. U64 \in Nat \ {0} /\ size \in Nat
    BY ListSizesAssumption, WordSizes DEF Request
  <2>2. (size + 1) % U64 \in 0..(U64 - 1)
    BY <2>1, Division
  <2> QED BY <2>1, <2>2 DEF Request, NextRequest
<1> QED BY <1>1, PTL DEF Requests

\* Masking the low bits rounds up to the next multiple, or wraps to 0 where the next
\* multiple is no word.
LEMMA RoundsUp ==
  ASSUME ListSizesAssumption, NEW s \in 1..(U64 - 1)
  PROVE  LET p == s + ((-s) % Align) IN
           p \in Nat /\ RoundUp(s) = IF p > U64 - 1 THEN 0 ELSE p
<1> DEFINE p == s + ((-s) % Align)
<1>1. /\ U32 \in Nat \ {0} /\ Align \in Nat \ {0} /\ U64 \in Nat \ {0}
      /\ U32 <= U64 /\ Align <= U32 /\ s \in Nat \ {0} /\ s <= U64 - 1
  BY WordSizes
<1>2. PICK k \in Int : p = Align * k
  <2>1. -s = Align * ((-s) \div Align) + ((-s) % Align) /\ (-s) \div Align \in Int
    BY <1>1, Division
  <2>2. (-s) % Align \in Int
    BY <1>1, Division
  <2>3. p = Align * (-((-s) \div Align))
    BY <1>1, <2>1, <2>2
  <2> QED BY <2>1, <2>3
<1>3. p \in Nat /\ s <= p /\ p < s + Align
  <2>1. PICK t \in Int : t = -s
    BY <1>1
  <2>2. t % Align \in 0..(Align - 1)
    BY ONLY <1>1, <2>1, Division
  <2> QED BY <1>1, <2>1, <2>2
<1> HIDE DEF p
<1>4. CASE s + Align - 1 <= U64 - 1
  <2> DEFINE u == s + Align - 1
  <2>1. u \in Nat /\ u % U64 = u
    BY <1>1, <1>4, SmallRemainder
  <2>2. PICK j \in Int : u - (u % Align) = Align * j /\ Align * j <= u /\ u < Align * j + Align
    <3> HIDE DEF u
    <3>1. u \in Int /\ Align \in Nat \ {0}
      BY <1>1, <2>1
    <3> QED BY ONLY <3>1, MultipleBelow
  <2>3. Align * j <= Align * k /\ Align * k <= Align * j
    BY <1>1, <1>2, <1>3, <2>2, MultipleAbove
  <2>4. RoundUp(s) = p
    BY <1>1, <1>2, <2>1, <2>2, <2>3 DEF RoundUp
  <2>5. p <= U64 - 1
    BY <1>1, <1>2, <1>4, <2>2, <2>3
  <2> QED BY <1>1, <1>3, <2>4, <2>5 DEF p
<1>5. CASE s + Align - 1 > U64 - 1
  <2> DEFINE u == s + Align - 1 - U64
  <2>1. u \in 0..(Align - 1) /\ u \in 0..(U64 - 1) /\ U64 + u = s + Align - 1
    BY <1>1, <1>5
  <2>2. (s + Align - 1) % U64 = u /\ u % Align = u
    BY <1>1, <2>1, SmallRemainder
  <2>3. RoundUp(s) = 0
    BY <1>1, <2>1, <2>2 DEF RoundUp
  <2>4. U64 <= p
    <3>1. PICK l \in Int : U64 = Align * l
      BY WordSizes
    <3>2. Align * l <= Align * k
      BY <1>1, <1>2, <1>3, <1>5, <3>1, MultipleAbove
    <3> QED BY <1>2, <3>1, <3>2
  <2> QED BY <1>1, <1>3, <2>3, <2>4 DEF p
<1> QED BY <1>1, <1>4, <1>5

\* A buffer size is the product, or 0 where that is larger than the build can hold.
LEMMA BufferFits ==
  ASSUME ListSizesAssumption, NEW block \in 0..(U32 - 1), blocks \in 0..(U32 - 1),
         NEW sizeMax \in {U32 - 1, U64 - 1}
  PROVE  BufferSize(block, sizeMax) =
           IF block = 0 \/ block * blocks > sizeMax THEN 0 ELSE block * blocks
<1>1. /\ U32 \in Nat \ {0} /\ U64 \in Nat \ {0} /\ sizeMax \in Nat /\ sizeMax <= U64 - 1
      /\ block \in Nat /\ blocks \in Nat
  BY WordSizes
<1>2. CASE block = 0 \/ blocks = 0
  BY <1>1, <1>2 DEF BufferSize
<1>3. CASE block # 0 /\ blocks # 0
  <2>1. PICK q \in Int : /\ q = sizeMax \div blocks
                         /\ blocks * q <= sizeMax /\ sizeMax < blocks * q + blocks
    <3>1. /\ sizeMax \div blocks \in Int /\ sizeMax % blocks \in 0..(blocks - 1)
          /\ sizeMax = blocks * (sizeMax \div blocks) + (sizeMax % blocks)
      <4>1. sizeMax \in Int /\ blocks \in Nat \ {0}
        BY <1>1, <1>3
      <4> QED BY ONLY <4>1, Division
    <3> QED BY <1>1, <1>3, <3>1
  <2>2. block > q <=> block * blocks > sizeMax
    <3>1. CASE block > q
      <4>1. block - q - 1 \in Nat /\ blocks * (block - q - 1) >= 0
        BY <1>1, <3>1
      <4>2. block * blocks = blocks * q + blocks + blocks * (block - q - 1)
        BY <1>1
      <4> QED BY <1>1, <2>1, <3>1, <4>1, <4>2
    <3>2. CASE block <= q
      <4>1. q - block \in Nat /\ blocks * (q - block) >= 0
        BY <1>1, <3>2
      <4>2. block * blocks = blocks * q - blocks * (q - block)
        BY <1>1
      <4> QED BY <1>1, <2>1, <3>2, <4>1, <4>2
    <3> QED BY <1>1, <3>1, <3>2
  <2>3. block * blocks <= sizeMax => (block * blocks) % U64 = block * blocks
    <3> DEFINE product == block * blocks
    <3>1. product \in Nat
      BY <1>1
    <3> HIDE DEF product
    <3>2. product <= sizeMax => product \in 0..(U64 - 1)
      BY <1>1, <3>1
    <3>3. product <= sizeMax => product % U64 = product
      BY <1>1, <3>2, SmallRemainder
    <3> QED BY <3>3 DEF product
  <2> QED BY <1>1, <1>3, <2>1, <2>2, <2>3 DEF BufferSize
<1> QED BY <1>1, <1>2, <1>3

\* Rounding, then the two checks: what either list is created with.
LEMMA ListIsSized ==
  ASSUME ListSizesAssumption, Request, NEW least \in {1, Pointer},
         NEW asked, asked = IF size < least THEN least ELSE size
  PROVE  ListFits(least, RoundSize(asked))
<1> DEFINE p == asked + ((-asked) % Align)
<1>1. /\ U32 \in Nat \ {0} /\ U64 \in Nat \ {0} /\ U32 <= U64
      /\ size \in Nat /\ size <= U64 - 1 /\ blocks \in 0..(U32 - 1)
      /\ least \in Nat \ {0} /\ least <= U32
  BY WordSizes DEF Request
<1>2. asked \in 1..(U64 - 1)
  <2>1. U32 > 1 => U32 < U64
    <3>1. \A m \in Nat : m > 1 => m < m * m
      OBVIOUS
    <3> QED BY <1>1, <3>1 DEF U64
  <2>2. asked \in Nat \ {0} /\ (asked = size \/ asked = least)
    BY <1>1
  <2>3. least < U64
    BY <1>1, <2>1, WordSizes
  <2> QED BY <1>1, <2>2, <2>3
<1>3. p \in Nat /\ RoundUp(asked) = IF p > U64 - 1 THEN 0 ELSE p
  BY <1>2, RoundsUp
<1>4. Padded(least) = p
  BY DEF Padded
<1> HIDE DEF p
<1>5. RoundSize(asked) = (IF p > U32 - 1 THEN 0 ELSE p) /\ RoundSize(asked) \in 0..(U32 - 1)
  BY <1>1, <1>3 DEF RoundSize
<1>6. \A sizeMax \in {U32 - 1, U64 - 1} :
        BufferSize(RoundSize(asked), sizeMax) =
          IF RoundSize(asked) = 0 \/ RoundSize(asked) * blocks > sizeMax
            THEN 0 ELSE RoundSize(asked) * blocks
  BY <1>1, <1>5, BufferFits
<1> QED BY <1>4, <1>5, <1>6 DEF ListFits

\* Both lists are refused exactly when a size cannot be represented, and are never
\* given a buffer too small for their blocks, whatever is asked for and however wide
\* the words are: at the 64 bits of the code too, where TLC tries 10.
THEOREM ListsAreSized == Requests => []ListsSized
<1>1. Request => ListsSized
  <2> SUFFICES ASSUME Request PROVE ListsSized
    OBVIOUS
  <2>1. ListFits(Pointer, FreeListBlock(size))
    BY ListSizesAssumption, ListIsSized DEF FreeListBlock
  <2>2. ListFits(1, DenseListBlock(size))
    <3>1. 1 \in {1, Pointer} /\ size \in Nat
      BY ListSizesAssumption, WordSizes DEF Request
    <3>2. (IF size = 0 THEN 1 ELSE size) = IF size < 1 THEN 1 ELSE size
      BY <3>1
    <3> QED BY <3>1, <3>2, ListSizesAssumption, ListIsSized DEF DenseListBlock
  <2> QED BY <2>1, <2>2 DEF ListsSized
<1> QED BY <1>1, AlwaysRequest, PTL

-----------------------------------------------------------------------------
(* The hash.                                                               *)

\* What the steps of a digest are.
StepSet == [words : [1..2 -> [1..8 -> Int]], secret : Nat]

\* Two words read one after the other are the next 16 bytes.
LEMMA PairOfWords ==
  ASSUME NEW p \in Nat
  PROVE  /\ <<Load64(p), Load64(p + 8)>> \in [1..2 -> [1..8 -> Int]]
         /\ BytesOf(<<Load64(p), Load64(p + 8)>>) = p..(p + 15)
<1> DEFINE w == <<Load64(p), Load64(p + 8)>>
<1>1. w \in [1..2 -> [1..8 -> Int]]
  BY DEF Load64
<1>2. \A j \in 1..8 : w[1][j] = p + 8 - j /\ w[2][j] = p + 16 - j
  BY DEF Load64
<1> HIDE DEF w
<1>3. \A n \in 1..2, j \in 1..8 : w[n][j] \in p..(p + 15) /\ w[n][j] # Zero
  <2> SUFFICES ASSUME NEW n \in 1..2, NEW j \in 1..8
               PROVE  w[n][j] \in p..(p + 15) /\ w[n][j] # Zero
    OBVIOUS
  <2>1. n = 1 \/ n = 2
    OBVIOUS
  <2> QED BY <1>2, <2>1 DEF Zero
<1>4. ASSUME NEW b \in p..(p + 15) PROVE \E n \in 1..2, j \in 1..8 : w[n][j] = b
  <2>1. CASE b <= p + 7
    <3>1. p + 8 - b \in 1..8 /\ w[1][p + 8 - b] = b /\ 1 \in 1..2
      BY <1>2, <2>1
    <3> QED BY <3>1
  <2>2. CASE b > p + 7
    <3>1. p + 16 - b \in 1..8 /\ w[2][p + 16 - b] = b /\ 2 \in 1..2
      BY <1>2, <2>2
    <3> QED BY <3>1
  <2> QED BY <2>1, <2>2
<1>5. BytesOf(w) = p..(p + 15)
  BY <1>3, <1>4 DEF BytesOf
<1> QED BY <1>1, <1>5 DEF w

\* A step more is its bytes more.
LEMMA StepMore ==
  ASSUME NEW q \in Seq(StepSet), NEW w \in [1..2 -> [1..8 -> Int]], NEW n \in Nat
  PROVE  /\ Append(q, Step(w, n)) \in Seq(StepSet)
         /\ BytesIn(Append(q, Step(w, n))) = BytesIn(q) \cup BytesOf(w)
<1> DEFINE e == Step(w, n)
           r == Append(q, e)
<1>1. e \in StepSet /\ e.words = w
  BY DEF Step, StepSet
<1> HIDE DEF e
<1>2. PICK m \in Nat : m = Len(q)
  BY LenProperties
<1>3. /\ r \in Seq(StepSet) /\ DOMAIN q = 1..m /\ DOMAIN r = 1..(m + 1)
      /\ r[m + 1] = e /\ \A s \in 1..m : r[s] = q[s]
  BY <1>1, <1>2, AppendProperties, LenProperties
<1> HIDE DEF r
<1>4. \A b : b \in BytesIn(r) <=> b \in BytesIn(q) \/ b \in BytesOf(w)
  <2> TAKE b
  <2>1. b \in BytesIn(r) <=> \E s \in 1..(m + 1) : b \in BytesOf(r[s].words)
    BY <1>3 DEF BytesIn
  <2>2. b \in BytesIn(q) <=> \E s \in 1..m : b \in BytesOf(q[s].words)
    BY <1>3 DEF BytesIn
  <2>3. \A s \in 1..(m + 1) : s \in 1..m \/ s = m + 1
    OBVIOUS
  <2>4. m + 1 \in 1..(m + 1) /\ \A s \in 1..m : s \in 1..(m + 1)
    OBVIOUS
  <2> QED BY <1>1, <1>3, <2>1, <2>2, <2>3, <2>4
<1>5. BytesIn(r) = BytesIn(q) \cup BytesOf(w)
  BY <1>4
<1> QED BY <1>3, <1>5 DEF r, e

LEMMA NoSteps == << >> \in Seq(StepSet) /\ BytesIn(<< >>) = {}
BY DEF BytesIn

LEMMA NoLanes ==
  /\ << << >>, << >>, << >> >> \in [1..3 -> Seq(StepSet)]
  /\ UNION {BytesIn(<< << >>, << >>, << >> >>[n]) : n \in 1..3} = {}
<1>1. PICK e : e = << >>
  OBVIOUS
<1>2. e \in Seq(StepSet) /\ BytesIn(e) = {}
  BY <1>1, NoSteps
<1>3. <<e, e, e>> \in [1..3 -> Seq(StepSet)] /\ \A n \in 1..3 : <<e, e, e>>[n] = e
  BY <1>2
<1>4. UNION {BytesIn(<<e, e, e>>[n]) : n \in 1..3} = {}
  BY <1>2, <1>3
<1> QED BY <1>1, <1>3, <1>4

\* What is known of the key before and after a stripe.
LaneBytes(lanes) == UNION {BytesIn(lanes[n]) : n \in 1..3}
StripeStates(len) ==
  {st \in [p : Nat, i : Nat \ {0}, lanes : [1..3 -> Seq(StepSet)]] :
     st.p + st.i = len /\ LaneBytes(st.lanes) = 0..(st.p - 1)}

LEMMA StripeReads ==
  ASSUME NEW len \in Nat, NEW st \in StripeStates(len)
  PROVE  WhileStripes(st) \in StripeStates(len)
<1>1. CASE st.i <= 48
  BY <1>1 DEF WhileStripes, StripeStates
<1>2. CASE st.i > 48
  <2> DEFINE w(n) == <<Load64(st.p + 16 * (n - 1)), Load64(st.p + 16 * (n - 1) + 8)>>
             new == [n \in 1..3 |-> Append(st.lanes[n], Step(w(n), n))]
  <2>1. st.p \in Nat /\ st.i \in Nat /\ st.lanes \in [1..3 -> Seq(StepSet)]
    BY DEF StripeStates
  <2>2. \A n \in 1..3 : /\ w(n) \in [1..2 -> [1..8 -> Int]]
                        /\ BytesOf(w(n)) = (st.p + 16 * (n - 1))..(st.p + 16 * (n - 1) + 15)
    <3> TAKE n \in 1..3
    <3>1. st.p + 16 * (n - 1) \in Nat
      BY <2>1
    <3> QED BY <3>1, PairOfWords
  <2>3. WhileStripes(st) = [p |-> st.p + 48, i |-> st.i - 48, lanes |-> new]
    BY <1>2 DEF WhileStripes, Stripe
  <2>4. /\ BytesOf(w(1)) = st.p..(st.p + 15) /\ BytesOf(w(2)) = (st.p + 16)..(st.p + 31)
        /\ BytesOf(w(3)) = (st.p + 32)..(st.p + 47)
    <3>1. /\ BytesOf(w(1)) = (st.p + 16 * (1 - 1))..(st.p + 16 * (1 - 1) + 15)
          /\ BytesOf(w(2)) = (st.p + 16 * (2 - 1))..(st.p + 16 * (2 - 1) + 15)
          /\ BytesOf(w(3)) = (st.p + 16 * (3 - 1))..(st.p + 16 * (3 - 1) + 15)
      <4> HIDE DEF w
      <4> QED BY <2>2
    <3> HIDE DEF w
    <3>2. /\ st.p + 16 * (1 - 1) = st.p /\ st.p + 16 * (2 - 1) = st.p + 16
          /\ st.p + 16 * (3 - 1) = st.p + 32 /\ (st.p + 16) + 15 = st.p + 31
          /\ (st.p + 32) + 15 = st.p + 47
      BY <2>1
    <3> QED BY <3>1, <3>2
  <2> HIDE DEF w
  <2>5. \A n \in 1..3 : /\ new[n] \in Seq(StepSet)
                        /\ BytesIn(new[n]) = BytesIn(st.lanes[n]) \cup BytesOf(w(n))
    <3> TAKE n \in 1..3
    <3>0. n \in Nat
      OBVIOUS
    <3>3. w(n) \in [1..2 -> [1..8 -> Int]]
      BY <2>2
    <3>1. st.lanes[n] \in Seq(StepSet)
      BY <2>1
    <3>2. new[n] = Append(st.lanes[n], Step(w(n), n))
      OBVIOUS
    <3> HIDE DEF new
    <3> QED BY <3>0, <3>1, <3>2, <3>3, StepMore
  <2>6. new \in [1..3 -> Seq(StepSet)]
    <3>1. new = [n \in 1..3 |-> new[n]]
      OBVIOUS
    <3> HIDE DEF new
    <3> QED BY <2>5, <3>1
  <2> HIDE DEF new
  <2>7. LaneBytes(new) = 0..(st.p + 48 - 1)
    <3>1. \A b : b \in LaneBytes(new) <=>
            b \in LaneBytes(st.lanes) \/ b \in BytesOf(w(1)) \/ b \in BytesOf(w(2)) \/ b \in BytesOf(w(3))
      <4>1. \A n : n \in 1..3 <=> n = 1 \/ n = 2 \/ n = 3
        OBVIOUS
      <4> QED BY <2>5, <4>1 DEF LaneBytes
    <3>2. LaneBytes(st.lanes) = 0..(st.p - 1)
      BY DEF StripeStates
    <3>3. LaneBytes(new) =
            0..(st.p - 1) \cup (st.p..(st.p + 15) \cup
              ((st.p + 16)..(st.p + 31) \cup (st.p + 32)..(st.p + 47)))
      BY <2>4, <3>1, <3>2
    <3>4. /\ (st.p + 16)..(st.p + 31) \cup (st.p + 32)..(st.p + 47) = (st.p + 16)..(st.p + 47)
          /\ st.p..(st.p + 15) \cup (st.p + 16)..(st.p + 47) = st.p..(st.p + 47)
          /\ 0..(st.p - 1) \cup st.p..(st.p + 47) = 0..(st.p + 48 - 1)
      <4>1. PICK p \in Nat : p = st.p
        BY <2>1
      <4>2. /\ (p + 16)..(p + 31) \cup (p + 32)..(p + 47) = (p + 16)..(p + 47)
            /\ p..(p + 15) \cup (p + 16)..(p + 47) = p..(p + 47)
            /\ 0..(p - 1) \cup p..(p + 47) = 0..(p + 48 - 1)
        OBVIOUS
      <4> QED BY <4>1, <4>2
    <3> QED BY <3>3, <3>4
  <2>8. st.p + st.i = len
    BY DEF StripeStates
  <2> DEFINE next == [p |-> st.p + 48, i |-> st.i - 48, lanes |-> new]
  <2>9. next \in [p : Nat, i : Nat \ {0}, lanes : [1..3 -> Seq(StepSet)]]
    <3>1. st.p + 48 \in Nat /\ st.i - 48 \in Nat \ {0}
      BY <1>2, <2>1
    <3> QED BY ONLY <3>1, <2>6
  <2>10. next.p + next.i = len /\ LaneBytes(next.lanes) = 0..(next.p - 1)
    <3>1. next.p = st.p + 48 /\ next.i = st.i - 48 /\ next.lanes = new
      OBVIOUS
    <3>2. st.p \in Nat /\ st.i \in Nat
      BY <2>1
    <3> HIDE DEF next
    <3> QED BY ONLY <2>7, <2>8, <3>1, <3>2
  <2> HIDE DEF next
  <2> QED BY <2>3, <2>9, <2>10 DEF StripeStates, next
<1>3. st.i \in Nat
  BY DEF StripeStates
<1> QED BY <1>1, <1>2, <1>3

\* The rounds of a loop, N of them.
LEMMA RoundsExist ==
  ASSUME NEW S, NEW s0 \in S, NEW g \in [Nat -> [S -> S]], NEW N \in Nat
  PROVE  \E f \in [0..N -> S] : Recurs(f, 0..N, s0, g)
<1>1. PICK D : D = 0..N
  OBVIOUS
<1>2. PICK f : Recurs(f, D, s0, g)
  BY <1>1, Recursion
<1>3. f \in [D -> S]
  BY <1>1, <1>2, Recursion
<1> QED BY <1>1, <1>2, <1>3

\* The rounds of a loop stay where one round stays.
LEMMA RoundsStay ==
  ASSUME NEW N \in Nat, NEW S, NEW f, f[0] \in S, \A n \in 1..N : f[n - 1] \in S => f[n] \in S
  PROVE  \A n \in 0..N : f[n] \in S
<1> DEFINE T == {n \in 0..N : f[n] \in S}
<1>1. 0 \in T
  OBVIOUS
<1>2. ASSUME NEW n \in 0..(N - 1), n \in T PROVE n + 1 \in T
  <2>1. n + 1 \in 1..N /\ (n + 1) - 1 = n
    OBVIOUS
  <2> QED BY <1>2, <2>1
<1>3. \A n \in 0..N : n \in T
  <2> HIDE DEF T
  <2> QED BY <1>1, <1>2, UpTo
<1> QED BY <1>3

LEMMA RoundsEnough ==
  ASSUME NEW len \in Nat
  PROVE  Rounds(len) \in Nat /\ 16 * Rounds(len) <= len /\ len < 16 * Rounds(len) + 16
BY DEF Rounds

\* The loop of the stripes is its rounds.
StripesStart(len) == [p |-> 0, i |-> len, lanes |-> << << >>, << >>, << >> >>]

LEMMA StripesLoop ==
  ASSUME NEW len \in Nat \ {0}
  PROVE  /\ StripesStart(len) \in StripeStates(len)
         /\ \E f : /\ f[0] = StripesStart(len) /\ Stripes(len) = f[Rounds(len)]
                  /\ \A n \in 1..Rounds(len) : f[n] = WhileStripes(f[n - 1])
<1> DEFINE S  == StripeStates(len)
           N  == Rounds(len)
           s0 == StripesStart(len)
           g  == [n \in Nat |-> [st \in S |-> WhileStripes(st)]]
           Is(f) == f = [n \in 0..N |-> IF n = 0 THEN s0 ELSE WhileStripes(f[n - 1])]
<1>0. N \in Nat /\ len < 16 * N + 16 /\ len \in Nat
  BY RoundsEnough
<1>1. s0 \in S
  <2>1. s0 \in [p : Nat, i : Nat \ {0}, lanes : [1..3 -> Seq(StepSet)]]
    BY NoLanes DEF StripesStart
  <2>2. s0.p = 0 /\ s0.i = len /\ LaneBytes(s0.lanes) = {}
    BY NoLanes DEF LaneBytes, StripesStart
  <2> HIDE DEF s0
  <2>3. s0.p + s0.i = len /\ LaneBytes(s0.lanes) = 0..(s0.p - 1)
    BY <2>2
  <2> QED BY <2>1, <2>3 DEF StripeStates
<1>2. g \in [Nat -> [S -> S]]
  BY StripeReads
<1>3. \E f : Is(f)
  <2> HIDE DEF S, N, s0, g
  <2>1. PICK f \in [0..N -> S] : Recurs(f, 0..N, s0, g)
    BY <1>0, <1>1, <1>2, RoundsExist
  <2>2. \A n \in 0..N : n # 0 => g[n][f[n - 1]] = WhileStripes(f[n - 1])
    BY <1>0 DEF g
  <2>3. Is(f)
    BY <2>1, <2>2 DEF Recurs
  <2> QED BY <2>3
<1>4. PICK f : Is(f) /\ Stripes(len) = f[N]
  <2>1. Stripes(len) = (CHOOSE f : Is(f))[N]
    BY DEF Stripes, StripesStart
  <2> HIDE DEF Is
  <2> QED BY <1>3, <2>1
<1>5. f[0] = s0 /\ \A n \in 1..N : f[n] = WhileStripes(f[n - 1])
  <2> HIDE DEF s0, N
  <2> QED BY <1>0, <1>4
<1> QED BY <1>1, <1>4, <1>5

\* The stripes read the key up to where they stop, at most 48 bytes before its end.
LEMMA StripesRead ==
  ASSUME NEW len \in Nat \ {0}
  PROVE  Stripes(len) \in StripeStates(len) /\ Stripes(len).i <= 48
<1> DEFINE S == StripeStates(len)
           N == Rounds(len)
<1>0. N \in Nat /\ len < 16 * N + 16 /\ len \in Nat
  BY RoundsEnough
<1>4. PICK f : f[0] = StripesStart(len) /\ Stripes(len) = f[N]
               /\ \A n \in 1..N : f[n] = WhileStripes(f[n - 1])
  BY StripesLoop
<1>5. StripesStart(len) \in S
  BY StripesLoop
<1>6. \A n \in 0..N : f[n] \in S
  <2> HIDE DEF S, N
  <2>1. \A n \in 1..N : f[n - 1] \in S => f[n] \in S
    BY <1>4, StripeReads DEF S
  <2> QED BY <1>0, <1>4, <1>5, <2>1, RoundsStay
<1>7. \A n \in 0..N : f[n].i <= 48 \/ f[n].p >= 16 * n
  <2> DEFINE T == {n \in 0..N : f[n].i <= 48 \/ f[n].p >= 16 * n}
  <2>1. 0 \in T
    BY <1>0, <1>4 DEF StripesStart
  <2>2. ASSUME NEW n \in 0..(N - 1), n \in T PROVE n + 1 \in T
    <3>1. n + 1 \in 1..N /\ n \in 0..N
      BY <1>0
    <3>2. f[n + 1] = WhileStripes(f[n])
      BY <1>4, <3>1
    <3>3. f[n].p \in Nat /\ f[n].i \in Nat
      BY <1>6, <3>1 DEF StripeStates
    <3>4. /\ f[n].i <= 48 => f[n + 1].i = f[n].i
          /\ f[n].i > 48 => f[n + 1].p = f[n].p + 48
      BY <3>2, <3>3 DEF WhileStripes, Stripe
    <3> HIDE DEF N
    <3> QED BY <2>2, <3>1, <3>3, <3>4
  <2>3. \A n \in 0..N : n \in T
    <3> HIDE DEF T, N
    <3> QED BY <1>0, <2>1, <2>2, UpTo
  <2> QED BY <2>3
<1>8. f[N] \in S /\ (f[N].i <= 48 \/ f[N].p >= 16 * N)
  <2> HIDE DEF N, S
  <2> QED BY <1>0, <1>6, <1>7
<1>9. f[N].p \in Nat /\ f[N].i \in Nat /\ f[N].p + f[N].i = len
  BY <1>8 DEF StripeStates
<1>10. f[N].i <= 48
  <2> HIDE DEF N
  <2> QED BY <1>0, <1>8, <1>9
<1> HIDE DEF S, N
<1> QED BY <1>4, <1>8, <1>10 DEF S

\* The same for the blocks of 16, which go on where the stripes stopped, at `from`.
BlockStates(len, from) ==
  {st \in [p : Nat, i : Nat \ {0}, seed : Seq(StepSet)] :
     st.p + st.i = len /\ from <= st.p /\ BytesIn(st.seed) = from..(st.p - 1)}

LEMMA BlockReads ==
  ASSUME NEW len \in Nat, NEW from \in Nat, NEW st \in BlockStates(len, from)
  PROVE  WhileBlocks(st) \in BlockStates(len, from)
<1> DEFINE w    == <<Load64(st.p), Load64(st.p + 8)>>
           more == Append(st.seed, Step(w, 1))
           next == [p |-> st.p + 16, i |-> st.i - 16, seed |-> more]
<1>1. /\ st.p \in Nat /\ st.i \in Nat /\ st.seed \in Seq(StepSet)
      /\ st.p + st.i = len /\ from <= st.p /\ BytesIn(st.seed) = from..(st.p - 1)
  BY DEF BlockStates
<1>2. CASE st.i <= 16
  BY <1>1, <1>2 DEF WhileBlocks
<1>3. CASE st.i > 16
  <2>1. WhileBlocks(st) = next
    BY <1>3 DEF WhileBlocks
  <2>2. w \in [1..2 -> [1..8 -> Int]] /\ BytesOf(w) = st.p..(st.p + 15)
    BY <1>1, PairOfWords
  <2>3. more \in Seq(StepSet) /\ BytesIn(more) = BytesIn(st.seed) \cup BytesOf(w)
    <3> HIDE DEF w
    <3> QED BY <1>1, <2>2, StepMore
  <2> HIDE DEF w, more
  <2>4. BytesIn(more) = from..(st.p + 16 - 1)
    <3>1. PICK p \in Nat : p = st.p
      BY <1>1
    <3>2. from..(p - 1) \cup p..(p + 15) = from..(p + 16 - 1)
      BY <1>1, <3>1
    <3> QED BY <1>1, <2>2, <2>3, <3>1, <3>2
  <2>5. PICK a \in Nat, c \in Nat :
          a = st.p /\ c = st.i /\ a + c = len /\ from <= a /\ c > 16
    BY <1>1, <1>3
  <2>6. PICK p \in Nat, left \in Nat \ {0} : p = a + 16 /\ left = c - 16
    BY ONLY <2>5
  <2>7. p + left = len /\ from <= p
    BY ONLY <2>5, <2>6, len \in Nat, from \in Nat
  <2>8. BytesIn(more) = from..(p - 1)
    BY ONLY <2>4, <2>5, <2>6
  <2>9. next = [p |-> p, i |-> left, seed |-> more]
    BY ONLY <2>5, <2>6
  <2>10. more \in Seq(StepSet)
    BY ONLY <2>3
  <2>11. [p |-> p, i |-> left, seed |-> more] \in BlockStates(len, from)
    BY ONLY <2>6, <2>7, <2>8, <2>10 DEF BlockStates
  <2> HIDE DEF next
  <2> QED BY ONLY <2>1, <2>9, <2>11
<1> QED BY <1>1, <1>2, <1>3

\* The loop of the blocks is its rounds.
BlocksStart(len) == [p |-> Stripes(len).p, i |-> Stripes(len).i, seed |-> << >>]

LEMMA BlocksLoop ==
  ASSUME NEW len \in Nat \ {0}
  PROVE  /\ Stripes(len).p \in Nat /\ BlocksStart(len) \in BlockStates(len, Stripes(len).p)
         /\ \E f : /\ f[0] = BlocksStart(len) /\ Blocks(len) = f[Rounds(len)]
                  /\ \A n \in 1..Rounds(len) : f[n] = WhileBlocks(f[n - 1])
<1> DEFINE from == Stripes(len).p
           S  == BlockStates(len, from)
           N  == Rounds(len)
           s0 == BlocksStart(len)
           g  == [n \in Nat |-> [st \in S |-> WhileBlocks(st)]]
           Is(f) == f = [n \in 0..N |-> IF n = 0 THEN s0 ELSE WhileBlocks(f[n - 1])]
<1>0. N \in Nat /\ len < 16 * N + 16 /\ len \in Nat
  BY RoundsEnough
<1>1. from \in Nat /\ s0 \in S
  <2>1. from \in Nat /\ Stripes(len).i \in Nat \ {0} /\ from + Stripes(len).i = len
    BY StripesRead DEF StripeStates
  <2>2. s0 \in [p : Nat, i : Nat \ {0}, seed : Seq(StepSet)]
    BY <2>1, NoSteps DEF BlocksStart
  <2>3. s0.p + s0.i = len /\ from <= s0.p /\ BytesIn(s0.seed) = from..(s0.p - 1)
    <3>1. s0.p = from /\ s0.i = Stripes(len).i /\ BytesIn(s0.seed) = {}
      BY NoSteps DEF BlocksStart
    <3> HIDE DEF from, s0
    <3> QED BY <2>1, <3>1
  <2> HIDE DEF s0, from
  <2> QED BY <2>1, <2>2, <2>3 DEF BlockStates
<1> HIDE DEF from
<1>2. g \in [Nat -> [S -> S]]
  BY <1>1, BlockReads
<1>3. \E f : Is(f)
  <2> HIDE DEF S, N, s0, g
  <2>1. PICK f \in [0..N -> S] : Recurs(f, 0..N, s0, g)
    BY <1>0, <1>1, <1>2, RoundsExist
  <2>2. \A n \in 0..N : n # 0 => g[n][f[n - 1]] = WhileBlocks(f[n - 1])
    BY <1>0 DEF g
  <2>3. Is(f)
    BY <2>1, <2>2 DEF Recurs
  <2> QED BY <2>3
<1>4. PICK f : Is(f) /\ Blocks(len) = f[N]
  <2>1. Blocks(len) = (CHOOSE f : Is(f))[N]
    BY DEF Blocks, BlocksStart, from
  <2> HIDE DEF Is
  <2> QED BY <1>3, <2>1
<1>5. f[0] = s0 /\ \A n \in 1..N : f[n] = WhileBlocks(f[n - 1])
  <2> HIDE DEF s0, N
  <2> QED BY <1>0, <1>4
<1> QED BY <1>1, <1>4, <1>5 DEF from

LEMMA BlocksRead ==
  ASSUME NEW len \in Nat \ {0}
  PROVE  /\ Blocks(len) \in BlockStates(len, Stripes(len).p)
         /\ Blocks(len).i <= 16
<1> DEFINE from == Stripes(len).p
           S == BlockStates(len, from)
           N == Rounds(len)
<1>0. N \in Nat /\ len < 16 * N + 16 /\ len \in Nat
  BY RoundsEnough
<1>1. from \in Nat /\ BlocksStart(len) \in S /\ BlocksStart(len).p = from
  BY BlocksLoop DEF BlocksStart
<1>4. PICK f : f[0] = BlocksStart(len) /\ Blocks(len) = f[N]
               /\ \A n \in 1..N : f[n] = WhileBlocks(f[n - 1])
  BY BlocksLoop
<1> HIDE DEF from
<1>6. \A n \in 0..N : f[n] \in S
  <2> HIDE DEF S, N
  <2>1. \A n \in 1..N : f[n - 1] \in S => f[n] \in S
    BY <1>1, <1>4, BlockReads DEF S
  <2> QED BY <1>0, <1>1, <1>4, <2>1, RoundsStay
<1>7. \A n \in 0..N : f[n].i <= 16 \/ f[n].p >= 16 * n
  <2> DEFINE T == {n \in 0..N : f[n].i <= 16 \/ f[n].p >= 16 * n}
  <2>1. 0 \in T
    BY <1>0, <1>1, <1>4
  <2>2. ASSUME NEW n \in 0..(N - 1), n \in T PROVE n + 1 \in T
    <3>1. n + 1 \in 1..N /\ n \in 0..N
      BY <1>0
    <3>2. f[n + 1] = WhileBlocks(f[n])
      BY <1>4, <3>1
    <3>3. f[n].p \in Nat /\ f[n].i \in Nat
      BY <1>6, <3>1 DEF BlockStates
    <3>4. /\ f[n].i <= 16 => f[n + 1].i = f[n].i
          /\ f[n].i > 16 => f[n + 1].p = f[n].p + 16
      BY <3>2, <3>3 DEF WhileBlocks
    <3> HIDE DEF N
    <3> QED BY <2>2, <3>1, <3>3, <3>4
  <2>3. \A n \in 0..N : n \in T
    <3> HIDE DEF T, N
    <3> QED BY <1>0, <2>1, <2>2, UpTo
  <2> QED BY <2>3
<1>8. f[N] \in S /\ (f[N].i <= 16 \/ f[N].p >= 16 * N)
  <2> HIDE DEF N, S
  <2> QED BY <1>0, <1>6, <1>7
<1>9. f[N].p \in Nat /\ f[N].i \in Nat /\ f[N].p + f[N].i = len
  BY <1>8 DEF BlockStates
<1>10. f[N].i <= 16
  <2> HIDE DEF N
  <2> QED BY <1>0, <1>8, <1>9
<1> HIDE DEF S, N
<1> QED BY <1>4, <1>8, <1>10 DEF S, from

\* A word put together from two halves, and the bytes of two such words.
LEMMA Halves ==
  ASSUME NEW a \in Int, NEW b \in Int
  PROVE  Load32(a) \o Load32(b) = [j \in 1..8 |-> IF j <= 4 THEN a + 4 - j ELSE b + 8 - j]
<1>1. PICK s : s = Load32(a)
  OBVIOUS
<1>2. PICK t : t = Load32(b)
  OBVIOUS
<1>3. /\ s \in Seq(Int) /\ Len(s) = 4 /\ \A j \in 1..4 : s[j] = a + 4 - j
      /\ t \in Seq(Int) /\ Len(t) = 4 /\ \A j \in 1..4 : t[j] = b + 4 - j
  BY <1>1, <1>2 DEF Load32
<1>4. PICK w : w = s \o t
  OBVIOUS
<1>5. /\ w \in Seq(Int) /\ Len(w) = 8
      /\ \A j \in 1..8 : w[j] = IF j <= 4 THEN s[j] ELSE t[j - 4]
  <2>1. s \in Seq(Int) /\ t \in Seq(Int)
    BY <1>3
  <2>2. /\ w \in Seq(Int) /\ Len(w) = Len(s) + Len(t)
        /\ \A j \in 1..(Len(s) + Len(t)) : w[j] = IF j <= Len(s) THEN s[j] ELSE t[j - Len(s)]
    BY ONLY <1>4, <2>1, ConcatProperties
  <2> QED BY <1>3, <2>2
<1>6. w = [j \in 1..8 |-> w[j]]
  BY <1>5
<1>7. \A j \in 1..8 : w[j] = IF j <= 4 THEN a + 4 - j ELSE b + 8 - j
  <2> TAKE j \in 1..8
  <2>1. CASE j <= 4
    <3>1. j \in 1..4
      BY <2>1
    <3>2. w[j] = s[j]
      BY <1>5, <2>1
    <3>3. \A k \in 1..4 : s[k] = a + 4 - k
      BY <1>3
    <3>4. s[j] = a + 4 - j
      BY ONLY <3>1, <3>3
    <3> QED BY <2>1, <3>2, <3>4
  <2>2. CASE j > 4
    <3>1. j - 4 \in 1..4 /\ b + 4 - (j - 4) = b + 8 - j
      BY <2>2
    <3>2. w[j] = t[j - 4]
      BY <1>5, <2>2
    <3>3. \A k \in 1..4 : t[k] = b + 4 - k
      BY <1>3
    <3>4. t[j - 4] = b + 4 - (j - 4)
      BY ONLY <3>1, <3>3
    <3> QED BY <2>2, <3>1, <3>2, <3>4
  <2> QED BY <2>1, <2>2
<1>8. w = [j \in 1..8 |-> IF j <= 4 THEN a + 4 - j ELSE b + 8 - j]
  BY ONLY <1>6, <1>7
<1> QED BY <1>1, <1>2, <1>4, <1>8

FromHalves(a, b, c, d) == <<Load32(a) \o Load32(b), Load32(c) \o Load32(d)>>

LEMMA FourHalves ==
  ASSUME NEW a \in Nat, NEW b \in Nat, NEW c \in Nat, NEW d \in Nat
  PROVE  BytesOf(FromHalves(a, b, c, d)) =
           a..(a + 3) \cup b..(b + 3) \cup c..(c + 3) \cup d..(d + 3)
<1> DEFINE w == FromHalves(a, b, c, d)
<1>1. /\ w[1] = [j \in 1..8 |-> IF j <= 4 THEN a + 4 - j ELSE b + 8 - j]
      /\ w[2] = [j \in 1..8 |-> IF j <= 4 THEN c + 4 - j ELSE d + 8 - j]
  <2>1. PICK x : x = Load32(a) \o Load32(b)
    OBVIOUS
  <2>2. PICK y : y = Load32(c) \o Load32(d)
    OBVIOUS
  <2>3. w[1] = x /\ w[2] = y
    BY <2>1, <2>2 DEF FromHalves
  <2>4. a \in Int /\ b \in Int /\ c \in Int /\ d \in Int
    OBVIOUS
  <2> HIDE DEF w
  <2> QED BY <2>1, <2>2, <2>3, <2>4, Halves
<1> HIDE DEF w
<1>2. \A x : x \in BytesOf(w) <=>
        x # Zero /\ (\E j \in 1..8 : x = w[1][j] \/ x = w[2][j])
  <2>1. \A n : n \in 1..2 <=> n = 1 \/ n = 2
    OBVIOUS
  <2> QED BY <2>1 DEF BytesOf
<1>3. ASSUME NEW j \in 1..8
      PROVE  /\ w[1][j] # Zero /\ w[1][j] \in a..(a + 3) \cup b..(b + 3)
             /\ w[2][j] # Zero /\ w[2][j] \in c..(c + 3) \cup d..(d + 3)
  BY <1>1 DEF Zero
<1>4. ASSUME NEW x \in a..(a + 3) PROVE x # Zero /\ \E j \in 1..8 : w[1][j] = x
  <2>1. a + 4 - x \in 1..8 /\ w[1][a + 4 - x] = x
    BY <1>1
  <2> QED BY <2>1 DEF Zero
<1>5. ASSUME NEW x \in b..(b + 3) PROVE x # Zero /\ \E j \in 1..8 : w[1][j] = x
  <2>1. b + 8 - x \in 1..8 /\ w[1][b + 8 - x] = x
    BY <1>1
  <2> QED BY <2>1 DEF Zero
<1>6. ASSUME NEW x \in c..(c + 3) PROVE x # Zero /\ \E j \in 1..8 : w[2][j] = x
  <2>1. c + 4 - x \in 1..8 /\ w[2][c + 4 - x] = x
    BY <1>1
  <2> QED BY <2>1 DEF Zero
<1>7. ASSUME NEW x \in d..(d + 3) PROVE x # Zero /\ \E j \in 1..8 : w[2][j] = x
  <2>1. d + 8 - x \in 1..8 /\ w[2][d + 8 - x] = x
    BY <1>1
  <2> QED BY <2>1 DEF Zero
<1>8. BytesOf(w) = a..(a + 3) \cup b..(b + 3) \cup c..(c + 3) \cup d..(d + 3)
  BY <1>2, <1>3, <1>4, <1>5, <1>6, <1>7
<1> QED BY <1>8 DEF w

LEMMA NoBytes == BytesIn(<< >>) = {} /\ LaneBytes(<< << >>, << >>, << >> >>) = {}
BY NoSteps, NoLanes DEF LaneBytes

\* Eight bytes take a path of their own to the same two words.
LEMMA EightBytes == FastWords = ShortWords(8)
<1>1. Load64(0) = [j \in 1..8 |-> 8 - j]
  BY DEF Load64
<1>2. PICK b : b = Load64(0)
  OBVIOUS
<1>3. b \in Seq(Int) /\ Len(b) = 8 /\ \A j \in 1..8 : b[j] = 8 - j
  <2>1. b = [j \in 1..8 |-> 0 + 8 - j]
    BY <1>2 DEF Load64
  <2>2. b \in Seq(Int)
    BY <2>1
  <2>3. Len(b) = 8
    BY <2>1
  <2> QED BY <2>1, <2>2, <2>3
<1>4. SubSeq(b, 5, 8) = Load32(0) /\ SubSeq(b, 1, 4) = Load32(4)
  <2>1. /\ SubSeq(b, 5, 8) = [j \in 1..4 |-> b[j + 4]]
        /\ SubSeq(b, 1, 4) = [j \in 1..4 |-> b[j]]
    BY <1>3
  <2>2. \A j \in 1..4 : b[j + 4] = 4 - j /\ b[j] = 8 - j
    BY <1>3
  <2>3. Load32(0) = [j \in 1..4 |-> 4 - j] /\ Load32(4) = [j \in 1..4 |-> 8 - j]
    BY DEF Load32
  <2> QED BY <2>1, <2>2, <2>3
<1>5. b = Load32(4) \o Load32(0)
  <2>1. Load32(4) \o Load32(0) = [j \in 1..8 |-> IF j <= 4 THEN 4 + 4 - j ELSE 0 + 8 - j]
    BY Halves, 4 \in Int, 0 \in Int
  <2>2. [j \in 1..8 |-> IF j <= 4 THEN 4 + 4 - j ELSE 0 + 8 - j] = [j \in 1..8 |-> 8 - j]
    OBVIOUS
  <2> QED BY <1>1, <1>2, <2>1, <2>2
<1>6. FastWords = <<Load32(0) \o Load32(4), Load32(4) \o Load32(0)>>
  BY <1>2, <1>4, <1>5 DEF FastWords
<1>7. ShortWords(8) = <<Load32(0) \o Load32(4), Load32(4) \o Load32(0)>>
  <2>1. (8 \div 8) * 4 = 4 /\ 8 - 4 = 4 /\ (8 - 4) - 4 = 0
    OBVIOUS
  <2> QED BY <2>1 DEF ShortWords
<1> QED BY <1>6, <1>7

\* The words of a short key are its bytes.
LEMMA ShortReads ==
  ASSUME NEW len \in 0..16
  PROVE  BytesOf(ShortWords(len)) = 0..(len - 1)
<1> DEFINE q == (len \div 8) * 4
<1>1. CASE len >= 4
  <2>1. q \in Nat /\ len - 4 \in Nat /\ len - 4 - q \in Nat
    BY <1>1
  <2>2. \/ q = 0 /\ len <= 7
        \/ q = 4 /\ 8 <= len /\ len <= 15
        \/ q = 8 /\ len = 16
    BY <1>1
  <2> HIDE DEF q
  <2>3. ShortWords(len) = FromHalves(0, q, len - 4, len - 4 - q)
    BY <1>1 DEF ShortWords, FromHalves, q
  <2>4. BytesOf(ShortWords(len)) =
          0..(0 + 3) \cup q..(q + 3) \cup (len - 4)..(len - 4 + 3)
            \cup (len - 4 - q)..(len - 4 - q + 3)
    <3>1. PICK z \in Nat, c \in Nat, d \in Nat : z = 0 /\ c = len - 4 /\ d = len - 4 - q
      BY <2>1
    <3>2. BytesOf(FromHalves(z, q, c, d))
            = z..(z + 3) \cup q..(q + 3) \cup c..(c + 3) \cup d..(d + 3)
      BY <2>1, FourHalves
    <3> QED BY <2>3, <3>1, <3>2
  <2>5. 0..(0 + 3) \cup q..(q + 3) \cup (len - 4)..(len - 4 + 3)
          \cup (len - 4 - q)..(len - 4 - q + 3) = 0..(len - 1)
    BY <1>1, <2>2
  <2> QED BY <2>4, <2>5
<1>2. CASE len = 0
  <2>1. ShortWords(len) = <<Zeros, Zeros>>
    BY <1>2 DEF ShortWords
  <2>2. \A n \in 1..2, j \in 1..8 : <<Zeros, Zeros>>[n][j] = Zero
    BY DEF Zeros
  <2>3. BytesOf(<<Zeros, Zeros>>) = {}
    BY <2>2 DEF BytesOf
  <2> QED BY <1>2, <2>1, <2>3
<1>3. CASE len \in 1..3
  <2>1. ShortWords(len) = <<Load3(len), Zeros>>
    BY <1>3 DEF ShortWords
  <2> DEFINE w == <<Load3(len), Zeros>>
  <2>2. /\ \A j \in 1..5 : w[1][j] = Zero
        /\ w[1][6] = 0 /\ w[1][7] = len \div 2 /\ w[1][8] = len - 1
        /\ \A j \in 1..8 : w[2][j] = Zero
    BY DEF Load3, Zeros
  <2> HIDE DEF w
  <2>3. BytesOf(w) = {0, len \div 2, len - 1}
    <3>1. \A n \in 1..2, j \in 1..8 :
            \/ w[n][j] = Zero
            \/ w[n][j] \in {0, len \div 2, len - 1}
      BY <2>2
    <3>2. 1 \in 1..2 /\ 6 \in 1..8 /\ 7 \in 1..8 /\ 8 \in 1..8
      OBVIOUS
    <3>3. 0 # Zero /\ len \div 2 # Zero /\ len - 1 # Zero
      BY <1>3 DEF Zero
    <3> QED BY <2>2, <3>1, <3>2, <3>3 DEF BytesOf
  <2>4. {0, len \div 2, len - 1} = 0..(len - 1)
    <3>1. len = 1 \/ len = 2 \/ len = 3
      BY <1>3
    <3> QED BY <3>1
  <2> QED BY <2>1, <2>3, <2>4 DEF w
<1> QED BY <1>1, <1>2, <1>3

LEMMA DigestReads ==
  ASSUME NEW len \in Nat
  PROVE  BytesRead(Digest(len)) = 0..(len - 1)
<1>1. CASE len <= 16
  <2>1. (IF len = 8 THEN FastWords ELSE ShortWords(len)) = ShortWords(len)
    BY EightBytes
  <2>2. Digest(len) = [lanes |-> << << >>, << >>, << >> >>, seed |-> << >>, last |-> ShortWords(len)]
    BY <1>1, <2>1 DEF Digest, Short
  <2>3. BytesRead(Digest(len)) = BytesOf(ShortWords(len))
    BY <2>2, NoBytes DEF BytesRead, LaneBytes
  <2>4. len \in 0..16
    BY <1>1
  <2> QED BY <2>3, <2>4, ShortReads
<1>2. CASE len > 16
  <2> DEFINE s == Stripes(len)
             b == Blocks(len)
  <2>1. LaneBytes(s.lanes) = 0..(s.p - 1) /\ s.p \in Nat
    BY <1>2, StripesRead DEF StripeStates
  <2>2. /\ b.p \in Nat /\ b.i \in Nat \ {0} /\ b.i <= 16 /\ b.p + b.i = len /\ s.p <= b.p
        /\ BytesIn(b.seed) = s.p..(b.p - 1)
    BY <1>2, BlocksRead DEF BlockStates
  <2> HIDE DEF s, b
  <2>3. BytesOf(TailWords(b.p, b.i)) = (len - 16)..(len - 1)
    <3>1. len - 16 \in Nat /\ b.p + b.i - 16 = len - 16 /\ b.p + b.i - 8 = (len - 16) + 8
      BY <1>2, <2>2
    <3>2. TailWords(b.p, b.i) = <<Load64(len - 16), Load64((len - 16) + 8)>>
      BY <3>1 DEF TailWords
    <3>3. BytesOf(<<Load64(len - 16), Load64((len - 16) + 8)>>) = (len - 16)..((len - 16) + 15)
      BY <3>1, PairOfWords
    <3> QED BY <1>2, <3>2, <3>3
  <2>4. BytesRead(Digest(len)) = (len - 16)..(len - 1) \cup s.p..(b.p - 1) \cup 0..(s.p - 1)
    <3>1. Digest(len) = [lanes |-> s.lanes, seed |-> b.seed, last |-> TailWords(b.p, b.i)]
      BY <1>2 DEF Digest, s, b
    <3> QED BY <2>1, <2>2, <2>3, <3>1 DEF BytesRead, LaneBytes
  <2>5. (len - 16)..(len - 1) \cup s.p..(b.p - 1) \cup 0..(s.p - 1) = 0..(len - 1)
    <3>1. PICK p \in Nat, m \in Nat : p = s.p /\ m = b.p /\ p <= m /\ len - 16 <= m /\ m < len
      BY <1>2, <2>1, <2>2
    <3>2. (len - 16)..(len - 1) \cup p..(m - 1) \cup 0..(p - 1) = 0..(len - 1)
      BY <1>2, <3>1
    <3> QED BY <3>1, <3>2
  <2> QED BY <2>4, <2>5
<1> QED BY <1>1, <1>2

\* The one-pass pair.  Each of its two hashes, looked at alone, is a single hash.
Lanes(seed, see1, see2) == <<seed, see1, see2>>
First(st)  == [p |-> st.p, i |-> st.i, lanes |-> Lanes(st.seed1, st.see1_1, st.see2_1)]
Second(st) == [p |-> st.p, i |-> st.i, lanes |-> Lanes(st.seed2, st.see1_2, st.see2_2)]

DualStates ==
  [p : Nat, i : Int, seed1 : Seq(StepSet), see1_1 : Seq(StepSet), see2_1 : Seq(StepSet),
   seed2 : Seq(StepSet), see1_2 : Seq(StepSet), see2_2 : Seq(StepSet)]

\* A stripe of three lanes, spelled out.
LEMMA StripeOfLanes ==
  ASSUME NEW p \in Nat, NEW r \in Int, NEW s1, NEW s2, NEW s3
  PROVE  Stripe([p |-> p, i |-> r, lanes |-> Lanes(s1, s2, s3)]) =
           [p |-> p + 48, i |-> r - 48,
            lanes |-> Lanes(Append(s1, Step(<<Load64(p + 8 * 0), Load64(p + 8 * 1)>>, 1)),
                            Append(s2, Step(<<Load64(p + 8 * 2), Load64(p + 8 * 3)>>, 2)),
                            Append(s3, Step(<<Load64(p + 8 * 4), Load64(p + 8 * 5)>>, 3)))]
<1> DEFINE w(n) == <<Load64(p + 16 * (n - 1)), Load64(p + 16 * (n - 1) + 8)>>
           ls == Lanes(s1, s2, s3)
           new == [n \in 1..3 |-> Append(ls[n], Step(w(n), n))]
<1>1. /\ w(1) = <<Load64(p + 8 * 0), Load64(p + 8 * 1)>>
      /\ w(2) = <<Load64(p + 8 * 2), Load64(p + 8 * 3)>>
      /\ w(3) = <<Load64(p + 8 * 4), Load64(p + 8 * 5)>>
  <2>1. /\ p + 16 * (1 - 1) = p + 8 * 0 /\ p + 16 * (1 - 1) + 8 = p + 8 * 1
        /\ p + 16 * (2 - 1) = p + 8 * 2 /\ p + 16 * (2 - 1) + 8 = p + 8 * 3
        /\ p + 16 * (3 - 1) = p + 8 * 4 /\ p + 16 * (3 - 1) + 8 = p + 8 * 5
    OBVIOUS
  <2> QED BY <2>1
<1>2. Stripe([p |-> p, i |-> r, lanes |-> ls]) = [p |-> p + 48, i |-> r - 48, lanes |-> new]
  BY DEF Stripe
<1> HIDE DEF w
<1>3. ls[1] = s1 /\ ls[2] = s2 /\ ls[3] = s3
  BY DEF Lanes
<1> HIDE DEF ls
<1>4. new = Lanes(Append(s1, Step(w(1), 1)), Append(s2, Step(w(2), 2)), Append(s3, Step(w(3), 3)))
  <2>1. PICK a, b, c : /\ a = Append(ls[1], Step(w(1), 1)) /\ b = Append(ls[2], Step(w(2), 2))
                       /\ c = Append(ls[3], Step(w(3), 3))
    OBVIOUS
  <2>2. new = [n \in 1..3 |-> new[n]] /\ new[1] = a /\ new[2] = b /\ new[3] = c
    BY <2>1
  <2> HIDE DEF new
  <2>3. new = <<a, b, c>>
    BY <2>2
  <2> QED BY <1>3, <2>1, <2>3 DEF Lanes
<1> HIDE DEF new
<1> QED BY <1>1, <1>2, <1>4 DEF ls

\* A round of the pair is a round of each.
LEMMA DualStripeIsTwo ==
  ASSUME NEW st \in DualStates
  PROVE  /\ WhileDualStripes(st) \in DualStates
         /\ WhileStripes(First(st)) = First(WhileDualStripes(st))
         /\ WhileStripes(Second(st)) = Second(WhileDualStripes(st))
<1>1. CASE ~(st.i > 48)
  BY <1>1 DEF WhileDualStripes, WhileStripes, First, Second
<1>2. CASE st.i > 48
  <2> DEFINE l(n) == Load64(st.p + 8 * n)
             w1 == <<l(0), l(1)>>
             w2 == <<l(2), l(3)>>
             w3 == <<l(4), l(5)>>
  <2>0. st.p \in Nat /\ st.i \in Int
    BY DEF DualStates
  <2>1. \A w \in {w1, w2, w3} : w \in [1..2 -> [1..8 -> Int]]
    BY <2>0 DEF Load64
  <2>2. WhileDualStripes(st) =
          [p |-> st.p + 48, i |-> st.i - 48,
           seed1  |-> Append(st.seed1,  Step(w1, 1)),
           see1_1 |-> Append(st.see1_1, Step(w2, 2)),
           see2_1 |-> Append(st.see2_1, Step(w3, 3)),
           seed2  |-> Append(st.seed2,  Step(w1, 1)),
           see1_2 |-> Append(st.see1_2, Step(w2, 2)),
           see2_2 |-> Append(st.see2_2, Step(w3, 3))]
    BY <1>2 DEF WhileDualStripes, DualStripe
  <2>3. /\ WhileStripes(First(st)) = Stripe(First(st))
        /\ WhileStripes(Second(st)) = Stripe(Second(st))
    BY <1>2 DEF WhileStripes, First, Second
  <2>4. /\ Stripe(First(st)) =
             [p |-> st.p + 48, i |-> st.i - 48,
              lanes |-> Lanes(Append(st.seed1, Step(w1, 1)), Append(st.see1_1, Step(w2, 2)),
                              Append(st.see2_1, Step(w3, 3)))]
        /\ Stripe(Second(st)) =
             [p |-> st.p + 48, i |-> st.i - 48,
              lanes |-> Lanes(Append(st.seed2, Step(w1, 1)), Append(st.see1_2, Step(w2, 2)),
                              Append(st.see2_2, Step(w3, 3)))]
    BY <2>0, StripeOfLanes DEF First, Second
  <2> HIDE DEF w1, w2, w3, l
  <2>5. WhileDualStripes(st) \in DualStates
    <3>1. \A q \in Seq(StepSet) :
            /\ Append(q, Step(w1, 1)) \in Seq(StepSet) /\ Append(q, Step(w2, 2)) \in Seq(StepSet)
            /\ Append(q, Step(w3, 3)) \in Seq(StepSet)
      <4>1. 1 \in Nat /\ 2 \in Nat /\ 3 \in Nat
        OBVIOUS
      <4> QED BY <2>1, <4>1, StepMore
    <3>2. st.p + 48 \in Nat /\ st.i - 48 \in Int
      BY <2>0
    <3> QED BY <2>2, <3>1, <3>2 DEF DualStates
  <2> QED BY <2>2, <2>3, <2>4, <2>5 DEF First, Second
<1> QED BY <1>1, <1>2

LEMMA DualStripesLoop ==
  ASSUME NEW len \in Nat \ {0}
  PROVE  /\ DualStart(len) \in DualStates
         /\ \E f : /\ f[0] = DualStart(len) /\ DualStripes(len) = f[Rounds(len)]
                  /\ \A n \in 1..Rounds(len) : f[n] = WhileDualStripes(f[n - 1])
<1> DEFINE S  == DualStates
           N  == Rounds(len)
           s0 == DualStart(len)
           g  == [n \in Nat |-> [st \in S |-> WhileDualStripes(st)]]
           Is(f) == f = [n \in 0..N |-> IF n = 0 THEN s0 ELSE WhileDualStripes(f[n - 1])]
<1>0. N \in Nat
  BY RoundsEnough
<1>1. s0 \in S
  BY NoSteps DEF DualStart, DualStates
<1>2. g \in [Nat -> [S -> S]]
  BY DualStripeIsTwo
<1>3. \E f : Is(f)
  <2> HIDE DEF S, N, s0, g
  <2>1. PICK f \in [0..N -> S] : Recurs(f, 0..N, s0, g)
    BY <1>0, <1>1, <1>2, RoundsExist
  <2>2. \A n \in 0..N : n # 0 => g[n][f[n - 1]] = WhileDualStripes(f[n - 1])
    BY <1>0 DEF g
  <2>3. Is(f)
    BY <2>1, <2>2 DEF Recurs
  <2> QED BY <2>3
<1>4. PICK f : Is(f) /\ DualStripes(len) = f[N]
  <2>1. DualStripes(len) = (CHOOSE f : Is(f))[N]
    BY DEF DualStripes
  <2> HIDE DEF Is
  <2> QED BY <1>3, <2>1
<1>5. f[0] = s0 /\ \A n \in 1..N : f[n] = WhileDualStripes(f[n - 1])
  <2> HIDE DEF s0, N
  <2> QED BY <1>0, <1>4
<1> QED BY <1>1, <1>4, <1>5

\* All its rounds are all the rounds of each.
LEMMA DualStripesAreTwo ==
  ASSUME NEW len \in Nat \ {0}
  PROVE  /\ DualStripes(len) \in DualStates
         /\ First(DualStripes(len)) = Stripes(len) /\ Second(DualStripes(len)) = Stripes(len)
<1> DEFINE N == Rounds(len)
<1>0. N \in Nat
  BY RoundsEnough
<1>1. PICK d : d[0] = DualStart(len) /\ DualStripes(len) = d[N]
               /\ \A n \in 1..N : d[n] = WhileDualStripes(d[n - 1])
  BY DualStripesLoop
<1>2. PICK f : f[0] = StripesStart(len) /\ Stripes(len) = f[N]
               /\ \A n \in 1..N : f[n] = WhileStripes(f[n - 1])
  BY StripesLoop
<1> HIDE DEF N
<1> DEFINE T == {n \in 0..N : d[n] \in DualStates /\ First(d[n]) = f[n] /\ Second(d[n]) = f[n]}
<1>3. 0 \in T
  <2>1. DualStart(len) \in DualStates
    BY DualStripesLoop
  <2>2. First(DualStart(len)) = StripesStart(len) /\ Second(DualStart(len)) = StripesStart(len)
    BY DEF First, Second, DualStart, StripesStart, Lanes
  <2> QED BY <1>0, <1>1, <1>2, <2>1, <2>2
<1>4. ASSUME NEW n \in 0..(N - 1), n \in T PROVE n + 1 \in T
  <2>1. n + 1 \in 1..N /\ (n + 1) - 1 = n /\ n + 1 \in 0..N
    BY <1>0
  <2>2. d[n + 1] = WhileDualStripes(d[n]) /\ f[n + 1] = WhileStripes(f[n])
    BY <1>1, <1>2, <2>1
  <2> QED BY <1>4, <2>1, <2>2, DualStripeIsTwo
<1>5. \A n \in 0..N : n \in T
  <2> HIDE DEF T
  <2> QED BY <1>0, <1>3, <1>4, UpTo
<1>6. N \in T
  BY <1>0, <1>5
<1> QED BY <1>1, <1>2, <1>6

FirstSeed(st)  == [p |-> st.p, i |-> st.i, seed |-> st.seed1]
SecondSeed(st) == [p |-> st.p, i |-> st.i, seed |-> st.seed2]
DualBlockStates == [p : Nat, i : Int, seed1 : Seq(StepSet), seed2 : Seq(StepSet)]

LEMMA DualBlockIsTwo ==
  ASSUME NEW st \in DualBlockStates
  PROVE  /\ WhileDualBlocks(st) \in DualBlockStates
         /\ WhileBlocks(FirstSeed(st)) = FirstSeed(WhileDualBlocks(st))
         /\ WhileBlocks(SecondSeed(st)) = SecondSeed(WhileDualBlocks(st))
<1>1. CASE ~(st.i > 16)
  BY <1>1 DEF WhileDualBlocks, WhileBlocks, FirstSeed, SecondSeed
<1>2. CASE st.i > 16
  <2> DEFINE w == <<Load64(st.p), Load64(st.p + 8)>>
  <2>0. st.p \in Nat /\ st.i \in Int /\ st.seed1 \in Seq(StepSet) /\ st.seed2 \in Seq(StepSet)
    BY DEF DualBlockStates
  <2>1. w \in [1..2 -> [1..8 -> Int]]
    BY <2>0, PairOfWords
  <2>2. WhileDualBlocks(st) = [p |-> st.p + 16, i |-> st.i - 16,
                               seed1 |-> Append(st.seed1, Step(w, 1)),
                               seed2 |-> Append(st.seed2, Step(w, 1))]
    BY <1>2 DEF WhileDualBlocks
  <2>3. /\ WhileBlocks(FirstSeed(st)) = [p |-> st.p + 16, i |-> st.i - 16,
                                         seed |-> Append(st.seed1, Step(w, 1))]
        /\ WhileBlocks(SecondSeed(st)) = [p |-> st.p + 16, i |-> st.i - 16,
                                          seed |-> Append(st.seed2, Step(w, 1))]
    BY <1>2 DEF WhileBlocks, FirstSeed, SecondSeed
  <2> HIDE DEF w
  <2>4. Append(st.seed1, Step(w, 1)) \in Seq(StepSet) /\ Append(st.seed2, Step(w, 1)) \in Seq(StepSet)
    BY <2>0, <2>1, StepMore, 1 \in Nat
  <2>5. st.p + 16 \in Nat /\ st.i - 16 \in Int
    BY <2>0
  <2>6. WhileDualBlocks(st) \in DualBlockStates
    BY <2>2, <2>4, <2>5 DEF DualBlockStates
  <2> QED BY <2>2, <2>3, <2>6 DEF FirstSeed, SecondSeed
<1> QED BY <1>1, <1>2

LEMMA DualBlocksAreTwo ==
  ASSUME NEW len \in Nat \ {0}
  PROVE  FirstSeed(DualBlocks(len)) = Blocks(len) /\ SecondSeed(DualBlocks(len)) = Blocks(len)
<1> DEFINE S  == DualBlockStates
           N  == Rounds(len)
           ds == DualStripes(len)
           s0 == [p |-> ds.p, i |-> ds.i, seed1 |-> << >>, seed2 |-> << >>]
           g  == [n \in Nat |-> [st \in S |-> WhileDualBlocks(st)]]
           Is(d) == d = [n \in 0..N |-> IF n = 0 THEN s0 ELSE WhileDualBlocks(d[n - 1])]
<1>0. N \in Nat
  BY RoundsEnough
<1>1. s0 \in S /\ ds.p = Stripes(len).p /\ ds.i = Stripes(len).i
  <2>1. ds \in DualStates /\ First(ds) = Stripes(len)
    BY DualStripesAreTwo
  <2> HIDE DEF ds
  <2>2. ds.p \in Nat /\ ds.i \in Int
    BY <2>1 DEF DualStates
  <2> QED BY <2>1, <2>2, NoSteps DEF DualBlockStates, First
<1>2. g \in [Nat -> [S -> S]]
  BY DualBlockIsTwo
<1>3. \E d : Is(d)
  <2> HIDE DEF S, N, s0, g
  <2>1. PICK d \in [0..N -> S] : Recurs(d, 0..N, s0, g)
    BY <1>0, <1>1, <1>2, RoundsExist
  <2>2. \A n \in 0..N : n # 0 => g[n][d[n - 1]] = WhileDualBlocks(d[n - 1])
    BY <1>0 DEF g
  <2>3. Is(d)
    BY <2>1, <2>2 DEF Recurs
  <2> QED BY <2>3
<1>4. PICK d : Is(d) /\ DualBlocks(len) = d[N]
  <2>1. DualBlocks(len) = (CHOOSE d : Is(d))[N]
    BY DEF DualBlocks
  <2> HIDE DEF Is
  <2> QED BY <1>3, <2>1
<1>5. d[0] = s0 /\ \A n \in 1..N : d[n] = WhileDualBlocks(d[n - 1])
  <2> HIDE DEF s0, N
  <2> QED BY <1>0, <1>4
<1>6. PICK f : f[0] = BlocksStart(len) /\ Blocks(len) = f[N]
               /\ \A n \in 1..N : f[n] = WhileBlocks(f[n - 1])
  BY BlocksLoop
<1> DEFINE T == {n \in 0..N : d[n] \in S /\ FirstSeed(d[n]) = f[n] /\ SecondSeed(d[n]) = f[n]}
<1>7. 0 \in T
  <2>1. FirstSeed(s0) = BlocksStart(len) /\ SecondSeed(s0) = BlocksStart(len)
    BY <1>1 DEF FirstSeed, SecondSeed, BlocksStart
  <2> HIDE DEF s0, S, N
  <2> QED BY <1>0, <1>1, <1>5, <1>6, <2>1
<1> HIDE DEF N, s0
<1>8. ASSUME NEW n \in 0..(N - 1), n \in T PROVE n + 1 \in T
  <2>1. n + 1 \in 1..N /\ (n + 1) - 1 = n /\ n + 1 \in 0..N
    BY <1>0
  <2>2. d[n + 1] = WhileDualBlocks(d[n]) /\ f[n + 1] = WhileBlocks(f[n])
    BY <1>5, <1>6, <2>1
  <2> QED BY <1>8, <2>1, <2>2, DualBlockIsTwo
<1>9. \A n \in 0..N : n \in T
  <2> HIDE DEF T
  <2> QED BY <1>0, <1>7, <1>8, UpTo
<1>10. N \in T
  BY <1>0, <1>9
<1> QED BY <1>4, <1>6, <1>10

LEMMA DualIsDigest ==
  ASSUME NEW len \in Nat, NEW n \in 1..2
  PROVE  DualDigest(len)[n] = Digest(len)
<1>1. CASE len <= 16
  <2>1. DualDigest(len) = <<Short(len), Short(len)>> /\ Digest(len) = Short(len)
    BY <1>1 DEF DualDigest, Digest
  <2> QED BY <2>1
<1>2. CASE len > 16
  <2> DEFINE s == DualStripes(len)
             b == DualBlocks(len)
  <2>1. /\ b.p = Blocks(len).p /\ b.i = Blocks(len).i
        /\ b.seed1 = Blocks(len).seed /\ b.seed2 = Blocks(len).seed
    BY <1>2, DualBlocksAreTwo DEF FirstSeed, SecondSeed
  <2>2. /\ <<s.seed1, s.see1_1, s.see2_1>> = Stripes(len).lanes
        /\ <<s.seed2, s.see1_2, s.see2_2>> = Stripes(len).lanes
    BY <1>2, DualStripesAreTwo DEF First, Second, Lanes
  <2>3. Digest(len) = [lanes |-> Stripes(len).lanes, seed |-> Blocks(len).seed,
                       last |-> TailWords(Blocks(len).p, Blocks(len).i)]
    BY <1>2 DEF Digest
  <2>4. DualDigest(len) =
          <<[lanes |-> <<s.seed1, s.see1_1, s.see2_1>>, seed |-> b.seed1, last |-> TailWords(b.p, b.i)],
            [lanes |-> <<s.seed2, s.see1_2, s.see2_2>>, seed |-> b.seed2, last |-> TailWords(b.p, b.i)]>>
    BY <1>2 DEF DualDigest
  <2> HIDE DEF s, b
  <2>5. DualDigest(len) = <<Digest(len), Digest(len)>>
    BY <2>1, <2>2, <2>3, <2>4
  <2> QED BY <2>5
<1> QED BY <1>1, <1>2

\* Every byte of the key goes into the digest, and nothing past its end is read,
\* however long the key.
THEOREM HashReadsEveryKey == Requests => []HashReadsKey
<1>1. Request => HashReadsKey
  <2>1. Request => size \in Nat
    BY DEF Request
  <2> QED BY <2>1, DigestReads DEF HashReadsKey
<1> QED BY <1>1, AlwaysRequest, PTL

\* The fast path and the one-pass pair of hashes mix the same words in the same order
\* as the hash they stand for, however long the key.
THEOREM CopiesOfHashAgree == Requests => []CopiesAgree
<1>1. Request => CopiesAgree
  <2>1. Request => size \in Nat
    BY DEF Request
  <2> QED BY <2>1, EightBytes, DualIsDigest DEF CopiesAgree
<1> QED BY <1>1, AlwaysRequest, PTL

-----------------------------------------------------------------------------
(* Powers of two, and the bits of a word.                                  *)

\* A quotient is known by the remainder it leaves.
LEMMA Quotient ==
  ASSUME NEW m \in Nat \ {0}, NEW q \in Int, NEW r \in 0..(m - 1), NEW a, a = m * q + r
  PROVE  a \div m = q /\ a % m = r
<1>1. a \in Int
  OBVIOUS
<1>2. PICK k \in Int : k = a \div m
  BY <1>1, Division
<1>3. PICK s \in 0..(m - 1) : s = a % m
  BY <1>1, Division
<1>4. a = m * k + s
  BY <1>1, <1>2, <1>3, Division
<1>5. m * k <= m * q /\ m * q <= m * k
  <2>1. m * k < m * q + m /\ m * q < m * k + m
    BY <1>4
  <2> QED BY <2>1, MultipleAbove
<1>6. m * k = m * q
  BY <1>5
<1>7. k = q
  <2>1. m * (k - q) = 0
    BY <1>6
  <2> QED BY ONLY <2>1, m \in Nat \ {0}, k \in Int, q \in Int
<1>8. s = r
  BY <1>4, <1>6
<1> QED BY <1>2, <1>3, <1>7, <1>8

\* Pow2 is what it is meant to be.
LEMMA PowersOfTwo ==
  /\ Pow2 \in [Nat -> Nat \ {0}]
  /\ Pow2[0] = 1 /\ \A n \in Nat : Pow2[n + 1] = 2 * Pow2[n]
<1> DEFINE g == [n \in Nat |-> [x \in Nat \ {0} |-> 2 * x]]
<1>1. g \in [Nat -> [Nat \ {0} -> Nat \ {0}]] /\ 1 \in Nat \ {0}
  OBVIOUS
<1>2. \A n \in Nat, x \in Nat \ {0} : g[n][x] = 2 * x
  OBVIOUS
<1> HIDE DEF g
<1>3. PICK f : Recurs(f, Nat, 1, g)
  BY <1>1, Recursion
<1>4. f \in [Nat -> Nat \ {0}]
  BY <1>1, <1>3, Recursion
<1>5. f = [n \in Nat |-> IF n = 0 THEN 1 ELSE 2 * f[n - 1]]
  <2>1. \A n \in Nat : n # 0 => g[n][f[n - 1]] = 2 * f[n - 1]
    BY <1>2, <1>4
  <2> QED BY <1>3, <2>1 DEF Recurs
<1>6. Pow2 = [n \in Nat |-> IF n = 0 THEN 1 ELSE 2 * Pow2[n - 1]]
  <2> DEFINE P == CHOOSE p : p = [n \in Nat |-> IF n = 0 THEN 1 ELSE 2 * p[n - 1]]
  <2>1. P = [n \in Nat |-> IF n = 0 THEN 1 ELSE 2 * P[n - 1]]
    BY <1>5
  <2> QED BY <2>1 DEF Pow2
<1>7. Pow2[0] = 1 /\ \A n \in Nat : Pow2[n + 1] = 2 * Pow2[n]
  <2>1. 0 \in Nat /\ \A n \in Nat : n + 1 \in Nat /\ n + 1 # 0 /\ (n + 1) - 1 = n
    OBVIOUS
  <2> QED BY ONLY <1>6, <2>1
<1>8. \A n \in Nat : Pow2[n] \in Nat \ {0}
  <2> DEFINE T == {n \in Nat : Pow2[n] \in Nat \ {0}}
  <2>1. 0 \in T /\ \A n \in Nat : n \in T => n + 1 \in T
    BY <1>7
  <2>2. \A n \in Nat : n \in T
    <3> HIDE DEF T
    <3> QED BY <2>1, Upwards
  <2> QED BY <2>2
<1>9. Pow2 \in [Nat -> Nat \ {0}]
  BY ONLY <1>6, <1>8
<1> QED BY <1>7, <1>9

\* A larger power is a multiple of a smaller one.
LEMMA PowerSum ==
  ASSUME NEW a \in Nat, NEW b \in Nat
  PROVE  Pow2[a + b] = Pow2[a] * Pow2[b]
<1> DEFINE T == {n \in Nat : Pow2[a + n] = Pow2[a] * Pow2[n]}
<1>1. 0 \in T
  BY PowersOfTwo
<1>2. ASSUME NEW n \in Nat, n \in T PROVE n + 1 \in T
  <2>0. PICK x \in Nat \ {0}, y \in Nat \ {0} : x = Pow2[a] /\ y = Pow2[n]
    BY PowersOfTwo
  <2>1. PICK z \in Nat \ {0} : z = Pow2[a + n]
    <3>1. a + n \in Nat
      OBVIOUS
    <3> QED BY <3>1, PowersOfTwo
  <2>2. Pow2[n + 1] = 2 * y /\ Pow2[a + (n + 1)] = 2 * z
    <3>1. a + n \in Nat /\ a + (n + 1) = (a + n) + 1
      OBVIOUS
    <3> QED BY <2>0, <2>1, <3>1, PowersOfTwo
  <2>3. z = x * y
    BY <1>2, <2>0, <2>1
  <2>4. 2 * z = x * (2 * y)
    BY ONLY <2>3, x \in Nat, y \in Nat, z \in Nat
  <2> QED BY <2>0, <2>2, <2>4
<1>3. \A n \in Nat : n \in T
  <2> HIDE DEF T
  <2> QED BY <1>1, <1>2, Upwards
<1> QED BY <1>3

LEMMA PowersGrow ==
  ASSUME NEW a \in Nat, NEW b \in Nat, a < b
  PROVE  Pow2[a] < Pow2[b] /\ 2 * Pow2[a] <= Pow2[b]
<1>1. PICK k \in Nat : b = (a + 1) + k
  <2>1. b - (a + 1) \in Nat /\ b = (a + 1) + (b - (a + 1))
    OBVIOUS
  <2> QED BY <2>1
<1>2. PICK x, z \in Nat \ {0} : x = Pow2[a] /\ z = Pow2[k]
  BY PowersOfTwo
<1>3. Pow2[a + 1] = 2 * x
  BY <1>2, PowersOfTwo
<1>4. Pow2[b] = (2 * x) * z
  <2>1. a + 1 \in Nat
    OBVIOUS
  <2> QED BY <1>1, <1>2, <1>3, <2>1, PowerSum
<1>5. 2 * x <= (2 * x) * z /\ x < 2 * x
  <2>1. z - 1 \in Nat /\ (2 * x) * (z - 1) >= 0
    OBVIOUS
  <2>2. (2 * x) * z = (2 * x) * (z - 1) + 2 * x
    OBVIOUS
  <2> QED BY <2>1, <2>2
<1> QED BY <1>2, <1>4, <1>5

\* Half of a quotient is the quotient by twice as much.
LEMMA HalfQuotient ==
  ASSUME NEW x \in Nat, NEW m \in Nat \ {0}
  PROVE  /\ x \div (2 * m) \in Nat
         /\ x \div m = 2 * (x \div (2 * m)) + ((x \div m) % 2)
<1>1. PICK q \in Nat, r \in 0..(m - 1) : q = x \div m /\ r = x % m /\ x = m * q + r
  BY NaturalDivision
<1>4. PICK h \in Nat, b \in 0..1 : q = 2 * h + b /\ b = q % 2
  <2>1. q \div 2 \in Nat /\ q % 2 \in 0..1 /\ q = 2 * (q \div 2) + (q % 2)
    OBVIOUS
  <2> QED BY <2>1
<1>5. x = (2 * m) * h + (m * b + r) /\ m * b + r \in 0..(2 * m - 1)
  <2>1. x = (2 * m) * h + (m * b + r)
    <3>1. m * q = (2 * m) * h + m * b
      BY <1>4
    <3> QED BY <1>1, <3>1
  <2>2. m * b \in {0, m}
    OBVIOUS
  <2> QED BY <2>1, <2>2
<1>6. x \div (2 * m) = h
  <2>1. 2 * m \in Nat \ {0}
    OBVIOUS
  <2>2. PICK c \in 0..(2 * m - 1) : c = m * b + r
    BY <1>5
  <2> QED BY <1>5, <2>1, <2>2, Quotient
<1> QED BY <1>1, <1>4, <1>6

\* The leading n bits of the word with the 1 bits B, for every n up to its width.
IsTop(top, B, w) ==
  /\ top \in [0..w -> Nat]
  /\ top[0] = 0 /\ Number(B, w) = top[w]
  /\ \A n \in 1..w : top[n] = 2 * top[n - 1] + (IF w - n \in B THEN 1 ELSE 0)

LEMMA NumberLoop ==
  ASSUME NEW B, NEW w \in Nat
  PROVE  \E top : IsTop(top, B, w)
<1> DEFINE g == [n \in Nat |-> [x \in Nat |-> 2 * x + (IF w - n \in B THEN 1 ELSE 0)]]
           Is(f) == f = [n \in 0..w |-> IF n = 0 THEN 0
                                        ELSE 2 * f[n - 1] + (IF w - n \in B THEN 1 ELSE 0)]
<1>1. g \in [Nat -> [Nat -> Nat]] /\ 0 \in Nat
  OBVIOUS
<1>2. \A n \in Nat, x \in Nat : g[n][x] = 2 * x + (IF w - n \in B THEN 1 ELSE 0)
  OBVIOUS
<1> HIDE DEF g
<1>3. \E f : Is(f)
  <2>1. PICK f \in [0..w -> Nat] : Recurs(f, 0..w, 0, g)
    BY <1>1, RoundsExist
  <2>2. \A n \in 0..w : n # 0 => g[n][f[n - 1]] = 2 * f[n - 1] + (IF w - n \in B THEN 1 ELSE 0)
    <3>1. \A n \in 0..w : n # 0 => n \in Nat /\ f[n - 1] \in Nat
      BY <2>1
    <3> QED BY <1>2, <3>1
  <2> QED BY ONLY <2>1, <2>2, ZenonT(30) DEF Recurs
<1>4. PICK top : Is(top) /\ Number(B, w) = top[w]
  <2>1. Number(B, w) = (CHOOSE f : Is(f))[w]
    BY DEF Number
  <2> HIDE DEF Is
  <2> QED BY <1>3, <2>1
<1>5. top[0] = 0
  BY <1>4
<1>6. \A n \in 1..w : top[n] = 2 * top[n - 1] + (IF w - n \in B THEN 1 ELSE 0)
  BY <1>4
<1>7. \A n \in 0..w : top[n] \in Nat
  <2>1. \A n \in 1..w : top[n - 1] \in Nat => top[n] \in Nat
    BY <1>6
  <2>2. PICK S : S = Nat
    OBVIOUS
  <2>3. top[0] \in S /\ \A n \in 1..w : top[n - 1] \in S => top[n] \in S
    BY <1>5, <2>1, <2>2
  <2> QED BY <2>2, <2>3, RoundsStay
<1>8. top \in [0..w -> Nat]
  <2> DEFINE F == [n \in 0..w |-> IF n = 0 THEN 0
                                 ELSE 2 * top[n - 1] + (IF w - n \in B THEN 1 ELSE 0)]
  <2>1. top = F /\ F = [n \in 0..w |-> F[n]]
    BY <1>4
  <2> HIDE DEF F
  <2>2. top = [n \in 0..w |-> top[n]]
    BY <2>1
  <2> QED BY <1>7, <2>2
<1>9. IsTop(top, B, w)
  BY <1>4, <1>5, <1>6, <1>8 DEF IsTop
<1> QED BY <1>9

\* A word is the number of its bits.
LEMMA NumberOfBits ==
  ASSUME NEW w \in Nat, NEW x \in 0..(Pow2[w] - 1)
  PROVE  Number(BitsOf(x, w), w) = x
<1>0. PICK B : B = BitsOf(x, w)
  OBVIOUS
<1>1. PICK top : IsTop(top, B, w)
  BY NumberLoop
<1>2. Pow2[w] \in Nat \ {0} /\ x \in Nat
  BY PowersOfTwo
<1> DEFINE T == {n \in 0..w : top[n] = x \div Pow2[w - n]}
<1>3. 0 \in T
  <2>1. x = Pow2[w] * 0 + x
    BY <1>2
  <2>2. x \div Pow2[w] = 0
    BY <1>2, <2>1, Quotient, 0 \in Int
  <2> QED BY <1>1, <2>2 DEF IsTop
<1>4. ASSUME NEW n \in 0..(w - 1), n \in T PROVE n + 1 \in T
  <2>1. PICK k \in 0..(w - 1) : k = w - (n + 1)
    OBVIOUS
  <2>2. w - n = k + 1 /\ n + 1 \in 1..w /\ (n + 1) - 1 = n /\ k \in Nat
    BY <2>1
  <2>3. PICK m \in Nat \ {0} : m = Pow2[k] /\ Pow2[k + 1] = 2 * m
    BY <2>2, PowersOfTwo
  <2>4. top[n] = x \div (2 * m)
    BY <1>4, <2>2, <2>3
  <2>5. (x \div m) % 2 = IF k \in B THEN 1 ELSE 0
    <3>1. (x \div m) % 2 \in 0..1
      BY <1>2, Division
    <3> QED BY <1>0, <2>1, <2>3, <3>1 DEF BitsOf
  <2>6. top[n + 1] = 2 * top[n] + (IF k \in B THEN 1 ELSE 0)
    BY <1>1, <2>1, <2>2 DEF IsTop
  <2>7. x \div m = 2 * (x \div (2 * m)) + ((x \div m) % 2)
    BY <1>2, HalfQuotient
  <2>8. top[n + 1] = x \div m
    BY <2>4, <2>5, <2>6, <2>7
  <2> QED BY <2>1, <2>2, <2>3, <2>8
<1>5. \A n \in 0..w : n \in T
  <2> HIDE DEF T
  <2> QED BY <1>3, <1>4, UpTo
<1>6. top[w] = x \div Pow2[0]
  BY <1>5
<1>7. x \div 1 = x
  BY <1>2
<1> QED BY <1>0, <1>1, <1>6, <1>7, PowersOfTwo DEF IsTop

-----------------------------------------------------------------------------
(* The multiplication.                                                     *)

\* Schoolbook multiplication with halves of H values: the middle column does not
\* wrap, its carry goes into the high word, and the high word does not wrap either.
LEMMA WymumExact ==
  ASSUME NEW half \in Nat, NEW W, W = Pow2[half] * Pow2[half],
         NEW a \in 0..(W - 1), NEW b \in 0..(W - 1)
  PROVE  /\ Wymum(a, b, half).lo \in 0..(W - 1) /\ Wymum(a, b, half).hi \in 0..(W - 1)
         /\ Wymum(a, b, half).hi * W + Wymum(a, b, half).lo = a * b
<1>1. PICK H \in Nat \ {0} : H = Pow2[half]
  BY PowersOfTwo
<1>2. PICK G \in Nat \ {0} : G = H * H /\ G = W
  <2>1. H * H \in Nat \ {0}
    OBVIOUS
  <2> QED BY <1>1, <2>1
<1>3. \A x \in 0..(G - 1) : \E l \in 0..(H - 1), h \in 0..(H - 1) :
        l = x % H /\ h = x \div H /\ x = H * h + l
  <2> SUFFICES ASSUME NEW x \in 0..(G - 1)
               PROVE  \E l \in 0..(H - 1), h \in 0..(H - 1) : l = x % H /\ h = x \div H /\ x = H * h + l
    OBVIOUS
  <2>1. PICK h \in Nat, l \in 0..(H - 1) : h = x \div H /\ l = x % H /\ x = H * h + l
    <3>1. x \in Nat
      OBVIOUS
    <3> QED BY <3>1, NaturalDivision
  <2>3. ~ (h >= H)
    <3>1. SUFFICES ASSUME h >= H PROVE FALSE
      OBVIOUS
    <3>2. H * (h - H) >= 0 /\ H * h = G + H * (h - H)
      BY <1>2, <3>1
    <3> QED BY <2>1, <3>2
  <2> QED BY <2>1, <2>3
<1>4. PICK al \in 0..(H - 1), ah \in 0..(H - 1) : al = a % H /\ ah = a \div H /\ a = H * ah + al
  BY <1>2, <1>3
<1>5. PICK bl \in 0..(H - 1), bh \in 0..(H - 1) : bl = b % H /\ bh = b \div H /\ b = H * bh + bl
  BY <1>2, <1>3
<1>6. \A x \in Nat : \E h \in Nat, l \in 0..(H - 1) : h = x \div H /\ l = x % H /\ x = H * h + l
  BY NaturalDivision
<1>7. al * bl \in Nat /\ al * bh \in Nat /\ ah * bl \in Nat
  OBVIOUS
<1>8. PICK p0 \in 0..(H - 1), p1 \in Nat :
        p0 = (al * bl) % H /\ p1 = (al * bl) \div H /\ al * bl = H * p1 + p0
  BY <1>6, <1>7
<1>9. PICK q0 \in 0..(H - 1), q1 \in Nat :
        q0 = (al * bh) % H /\ q1 = (al * bh) \div H /\ al * bh = H * q1 + q0
  BY <1>6, <1>7
<1>10. PICK r0 \in 0..(H - 1), r1 \in Nat :
         r0 = (ah * bl) % H /\ r1 = (ah * bl) \div H /\ ah * bl = H * r1 + r0
  BY <1>6, <1>7
<1>11. PICK c \in Nat : c = p1 + q0 + r0
  OBVIOUS
<1>12. PICK m0 \in 0..(H - 1), m1 \in Nat : m0 = c % H /\ m1 = c \div H /\ c = H * m1 + m0
  BY <1>6
<1>13. /\ c \in 0..(G - 1) /\ H * m0 + p0 \in 0..(G - 1)
       /\ c * H + p0 = G * m1 + (H * m0 + p0)
       /\ ah * bh + q1 + r1 + m1 \in 0..(G - 1)
       /\ (ah * bh + q1 + r1 + m1) * G + (H * m0 + p0) = a * b
  <2>1. p1 + q0 + r0 = H * m1 + m0
    BY <1>11, <1>12
  <2>2. G = H * H
    BY <1>2
  <2>3. al * bl = H * p1 + p0
    BY <1>8
  <2>4. al * bh = H * q1 + q0
    BY <1>9
  <2>5. ah * bl = H * r1 + r0
    BY <1>10
  <2> USE <2>1, <2>2, <2>3, <2>4, <2>5
  <2>6. \A x, y \in 0..(H - 1) : x * y <= (H - 1) * (H - 1) /\ x * y \in Nat
    <3> SUFFICES ASSUME NEW x \in 0..(H - 1), NEW y \in 0..(H - 1)
                 PROVE  x * y <= (H - 1) * (H - 1) /\ x * y \in Nat
      OBVIOUS
    <3>1. x * ((H - 1) - y) >= 0 /\ ((H - 1) - x) * (H - 1) >= 0 /\ x * y >= 0
      OBVIOUS
    <3>2. (H - 1) * (H - 1) = x * y + x * ((H - 1) - y) + ((H - 1) - x) * (H - 1)
      OBVIOUS
    <3> QED BY <3>1, <3>2
  <2>7. G = (H - 1) * (H - 1) + 2 * (H - 1) + 1
    OBVIOUS
  <2>8. PICK t \in Nat, s \in Nat : t = ah * bh /\ s = (H - 1) * (H - 1) /\ t <= s /\ al * bl <= s
    BY <2>6
  <2>9. p1 <= H - 1 /\ (H > 1 => p1 <= H - 2)
    <3>1. H * p1 < H * (H - 1) + H /\ (H > 1 => H * p1 < H * (H - 2) + H)
      BY <2>8
    <3>2. ~ (p1 >= H) /\ (H > 1 => ~ (p1 >= H - 1))
      <4>1. ASSUME NEW k \in Nat, p1 >= k PROVE H * p1 >= H * k
        <5>1. H * (p1 - k) >= 0
          BY <4>1
        <5> QED BY <5>1
      <4>2. p1 >= H => H * p1 >= H * H
        BY <4>1
      <4>3. H > 1 /\ p1 >= H - 1 => H * p1 >= H * (H - 1)
        BY <4>1
      <4> QED BY <3>1, <4>2, <4>3
    <3> QED BY <3>2
  <2>10. p1 + q0 + r0 \in 0..(G - 1)
    <3>1. CASE H = 1
      BY <2>9, <3>1
    <3>2. CASE H > 1
      <4>1. p1 + q0 + r0 <= 3 * (H - 1) - 1
        BY <2>9, <3>2
      <4>2. s >= H - 1
        <5>1. (H - 1) * (H - 2) >= 0
          BY <3>2
        <5> QED BY <2>8, <5>1
      <4> QED BY <2>7, <2>8, <4>1, <4>2
    <3> QED BY <3>1, <3>2
  <2>11. H * m0 + p0 \in 0..(G - 1)
    <3>1. H * ((H - 1) - m0) >= 0 /\ H * m0 >= 0
      OBVIOUS
    <3> QED BY <3>1
  <2>12. (p1 + q0 + r0) * H + p0 = G * m1 + (H * m0 + p0)
    <3>1. (H * m1 + m0) * H = (H * H) * m1 + H * m0
      OBVIOUS
    <3> QED BY <3>1
  <2>13. (t + q1 + r1 + m1) * G + (H * m0 + p0) = (H * ah + al) * (H * bh + bl)
    <3>1. (H * ah + al) * (H * bh + bl) = t * G + H * (al * bh) + H * (ah * bl) + al * bl
      BY <2>8
    <3>2. H * (al * bh) = G * q1 + H * q0 /\ H * (ah * bl) = G * r1 + H * r0
      OBVIOUS
    <3>3. (t + q1 + r1 + m1) * G = t * G + G * q1 + G * r1 + G * m1
      OBVIOUS
    <3>4. (p1 + q0 + r0) * H = H * p1 + H * q0 + H * r0
      OBVIOUS
    <3> QED BY <2>12, <3>1, <3>2, <3>3, <3>4
  <2>14. t + q1 + r1 + m1 \in 0..(G - 1)
    <3>1. H * ah + al \in 0..(G - 1) /\ H * bh + bl \in 0..(G - 1)
      <4>1. H * ((H - 1) - ah) >= 0 /\ H * ah >= 0 /\ H * ((H - 1) - bh) >= 0 /\ H * bh >= 0
        OBVIOUS
      <4> QED BY <4>1
    <3>2. PICK x \in 0..(G - 1), y \in 0..(G - 1) : x = H * ah + al /\ y = H * bh + bl
      BY <3>1
    <3>3. x * y < G * G
      <4>1. x * (G - y) >= 0 /\ (G - x) * G > 0
        OBVIOUS
      <4>2. G * G = x * y + x * (G - y) + (G - x) * G
        OBVIOUS
      <4> QED BY <4>1, <4>2
    <3>4. PICK h \in Nat, l \in Nat : h = t + q1 + r1 + m1 /\ l = H * m0 + p0
      BY <2>11
    <3>5. h * G + l = x * y
      BY <2>13, <3>2, <3>4
    <3>6. ~ (h >= G)
      <4>1. SUFFICES ASSUME h >= G PROVE FALSE
        OBVIOUS
      <4>2. (h - G) * G >= 0 /\ h * G = G * G + (h - G) * G
        BY <4>1
      <4> QED BY <3>3, <3>5, <4>2
    <3> QED BY <3>4, <3>6
  <2> QED BY <1>4, <1>5, <1>11, <2>8, <2>10, <2>11, <2>12, <2>13, <2>14
<1>14. PICK lo \in 0..(G - 1), hi \in 0..(G - 1) :
         lo = H * m0 + p0 /\ hi = ah * bh + q1 + r1 + m1
  BY <1>13
<1>15. c % G = c /\ hi % G = hi /\ (c * H + p0) % G = lo
  <2>1. c % G = c /\ hi % G = hi
    BY <1>13, SmallRemainder
  <2>2. c * H + p0 = G * m1 + lo
    BY <1>13, <1>14
  <2>3. PICK x : x = c * H + p0
    OBVIOUS
  <2>4. x = G * m1 + lo /\ m1 \in Int /\ lo \in 0..(G - 1) /\ G \in Nat \ {0}
    BY <2>2, <2>3
  <2>5. x % G = lo
    BY ONLY <2>4, Quotient
  <2> QED BY <2>1, <2>3, <2>5
<1>16. Wymum(a, b, half) = [lo |-> lo, hi |-> hi]
  <2>1. Wymum(a, b, half) =
          LET mid == (((al * bl) \div H) + ((al * bh) % H) + ((ah * bl) % H)) % G
          IN  [lo |-> (mid * H + ((al * bl) % H)) % G,
               hi |-> (ah * bh + ((al * bh) \div H) + ((ah * bl) \div H) + (mid \div H)) % G]
    BY <1>1, <1>2, <1>4, <1>5 DEF Wymum
  <2>2. Wymum(a, b, half) =
          LET mid == c % G
          IN  [lo |-> (mid * H + p0) % G, hi |-> (ah * bh + q1 + r1 + (mid \div H)) % G]
    BY <2>1, <1>8, <1>9, <1>10, <1>11
  <2>3. Wymum(a, b, half) = [lo |-> (c * H + p0) % G, hi |-> (ah * bh + q1 + r1 + m1) % G]
    BY <2>2, <1>12, <1>15
  <2> QED BY <2>3, <1>14, <1>15
<1>17. hi * G + lo = a * b
  BY <1>13, <1>14
<1> DEFINE m == Wymum(a, b, half)
<1>18. m.lo = lo /\ m.hi = hi
  BY <1>16
<1> HIDE DEF m
<1>19. m.lo \in 0..(W - 1) /\ m.hi \in 0..(W - 1) /\ m.hi * W + m.lo = a * b
  BY <1>2, <1>17, <1>18
<1> QED BY <1>19 DEF m

\* Zero has no bits, and mixed in by exclusive or it changes nothing.
LEMMA XorZero ==
  ASSUME NEW w \in Nat, NEW x \in 0..(Pow2[w] - 1)
  PROVE  Xor(x, 0, w) = x /\ Xor(0, x, w) = x
<1>1. BitsOf(0, w) = {}
  <2>1. \A n \in 0..(w - 1) : (0 \div Pow2[n]) % 2 = 0
    <3> SUFFICES ASSUME NEW n \in 0..(w - 1) PROVE (0 \div Pow2[n]) % 2 = 0
      OBVIOUS
    <3>1. PICK m \in Nat \ {0} : m = Pow2[n]
      BY PowersOfTwo
    <3>2. 0 \div m = 0
      <4>1. 0 = m * 0 + 0 /\ 0 \in 0..(m - 1) /\ 0 \in Int
        OBVIOUS
      <4> QED BY <4>1, Quotient
    <3> QED BY <3>1, <3>2
  <2> QED BY <2>1 DEF BitsOf
<1>2. PICK B : B = BitsOf(x, w)
  OBVIOUS
<1>3. Xor(x, 0, w) = Number(B, w) /\ Xor(0, x, w) = Number(B, w)
  <2>1. (B \cup {}) \ (B \cap {}) = B /\ ({} \cup B) \ ({} \cap B) = B
    OBVIOUS
  <2> QED BY <1>1, <1>2, <2>1 DEF Xor
<1> QED BY <1>2, <1>3, NumberOfBits

\* The widths of the words are those of the sizes.
LEMMA WordIsPower ==
  ASSUME SizingAssumption
  PROVE  /\ HalfBits \in Nat \ {0} /\ U32 = Pow2[HalfBits] /\ U64 = Pow2[2 * HalfBits]
         /\ U32 \in Nat \ {0} /\ U64 \in Nat \ {0}
<1>1. HalfBits \in Nat \ {0} /\ U32 = Pow2[HalfBits]
  BY DEF SizingAssumption
<1>2. Pow2[HalfBits + HalfBits] = U32 * U32
  BY <1>1, PowerSum
<1>3. HalfBits + HalfBits = 2 * HalfBits /\ 2 * HalfBits \in Nat
  BY <1>1
<1> QED BY <1>1, <1>2, <1>3, PowersOfTwo DEF U64

\* The product is exact in both halves, and a zero on either side erases nothing,
\* however wide the words.
THEOREM MixingIsExact == Requests => []MixKeepsOperands
<1>1. Request => MixKeepsOperands
  <2> SUFFICES ASSUME Request PROVE MixKeepsOperands
    OBVIOUS
  <2>1. /\ HalfBits \in Nat \ {0} /\ U32 = Pow2[HalfBits] /\ U64 = Pow2[2 * HalfBits]
        /\ U32 \in Nat \ {0} /\ U64 \in Nat \ {0} /\ U64 = U32 * U32
    BY SizingAssumption, WordIsPower DEF U64
  <2>2. size \in 0..(U64 - 1) /\ blocks \in 0..(U32 - 1) /\ 0 \in 0..(U64 - 1)
    BY <2>1 DEF Request
  <2>3. \A a, b \in 0..(U64 - 1) :
          /\ Wymum(a, b, HalfBits).lo \in 0..(U64 - 1)
          /\ Wymum(a, b, HalfBits).hi \in 0..(U64 - 1)
          /\ Wymum(a, b, HalfBits).hi * U64 + Wymum(a, b, HalfBits).lo = a * b
    <3>1. HalfBits \in Nat /\ U64 = Pow2[HalfBits] * Pow2[HalfBits]
      BY <2>1
    <3> QED BY <3>1, WymumExact
  <2>4. \A low \in 0..(U32 - 1) : blocks * U32 + low \in 0..(U64 - 1)
    <3> SUFFICES ASSUME NEW low \in 0..(U32 - 1) PROVE blocks * U32 + low \in 0..(U64 - 1)
      OBVIOUS
    <3>1. PICK k \in 0..(U32 - 1) : k = blocks
      BY <2>2
    <3>2. k * U32 >= 0 /\ ((U32 - 1) - k) * U32 >= 0
      BY <2>1
    <3>3. U64 = k * U32 + ((U32 - 1) - k) * U32 + U32
      BY <2>1
    <3> QED BY <2>1, <3>1, <3>2, <3>3
  <2>5. \A low \in 0..(U32 - 1) :
          LET b == blocks * U32 + low
              m == Wymum(size, b, HalfBits)
          IN  m.hi * U64 + m.lo = size * b
    BY <2>2, <2>3, <2>4
  <2>6. \A x \in 0..(U64 - 1) : Wymix(x, 0, HalfBits) = x /\ Wymix(0, x, HalfBits) = x
    <3> SUFFICES ASSUME NEW x \in 0..(U64 - 1)
                 PROVE  Wymix(x, 0, HalfBits) = x /\ Wymix(0, x, HalfBits) = x
      OBVIOUS
    <3>1. \A lo, hi \in 0..(U64 - 1) : hi * U64 + lo = 0 => hi = 0 /\ lo = 0
      <4> SUFFICES ASSUME NEW lo \in 0..(U64 - 1), NEW hi \in 0..(U64 - 1), hi * U64 + lo = 0
                   PROVE  hi = 0 /\ lo = 0
        OBVIOUS
      <4>1. PICK W \in Nat \ {0} : W = U64
        BY <2>1
      <4>2. hi \in Nat /\ lo \in Nat /\ hi * W + lo = 0
        BY <4>1
      <4>3. hi * (W - 1) >= 0 /\ hi * W = hi * (W - 1) + hi
        BY <4>2
      <4> QED BY <4>2, <4>3
    <3>2. x * 0 = 0 /\ 0 * x = 0
      <4>1. \A n \in Int : n * 0 = 0 /\ 0 * n = 0
        OBVIOUS
      <4>2. x \in Int
        BY <2>1
      <4> QED BY <4>1, <4>2
    <3>3. /\ Wymum(x, 0, HalfBits).lo = 0 /\ Wymum(x, 0, HalfBits).hi = 0
          /\ Wymum(0, x, HalfBits).lo = 0 /\ Wymum(0, x, HalfBits).hi = 0
      <4> DEFINE m == Wymum(x, 0, HalfBits)
                 n == Wymum(0, x, HalfBits)
      <4>1. /\ m.lo \in 0..(U64 - 1) /\ m.hi \in 0..(U64 - 1) /\ m.hi * U64 + m.lo = 0
            /\ n.lo \in 0..(U64 - 1) /\ n.hi \in 0..(U64 - 1) /\ n.hi * U64 + n.lo = 0
        BY <2>2, <2>3, <3>2
      <4> HIDE DEF m, n
      <4>2. m.lo = 0 /\ m.hi = 0 /\ n.lo = 0 /\ n.hi = 0
        BY <3>1, <4>1
      <4> QED BY <4>2 DEF m, n
    <3>4. /\ Xor(x, 0, 2 * HalfBits) = x /\ Xor(0, x, 2 * HalfBits) = x
          /\ Xor(0, 0, 2 * HalfBits) = 0
      <4>1. 2 * HalfBits \in Nat
        BY <2>1
      <4> QED BY <2>1, <2>2, <4>1, XorZero
    <3> QED BY <3>3, <3>4 DEF Wymix
  <2> QED BY <2>2, <2>5, <2>6 DEF MixKeepsOperands
<1> QED BY <1>1, AlwaysRequest, PTL

-----------------------------------------------------------------------------
(* The descent register.                                                   *)

\* The registers a walk goes through are what is left of the digest, shifted up: m is
\* the value of the pair of bits below the n pairs taken, p that of their distance
\* from the top.
Remaining(reg, m, p) == (reg % (4 * m)) * p

LEMMA PairTaken ==
  ASSUME NEW m \in Nat \ {0}, NEW p \in Nat \ {0}, NEW reg \in Nat
  PROVE  /\ (Remaining(reg, m, p) * 4) % (4 * m * p) = (reg % m) * (4 * p)
         /\ Remaining(reg, m, p) \div (m * p) = (reg \div m) % 4
<1>0. PICK M \in Nat \ {0}, left \in Nat :
        M = 4 * m * p /\ left = (reg % (4 * m)) * p
  <2>1. 4 * m * p \in Nat \ {0}
    OBVIOUS
  <2>2. reg % (4 * m) \in Nat
    OBVIOUS
  <2>3. (reg % (4 * m)) * p \in Nat
    BY ONLY <2>2, p \in Nat \ {0}
  <2> QED BY <2>1, <2>3
<1>1. PICK q \in Nat, r \in 0..(4 * m - 1) :
        q = reg \div (4 * m) /\ r = reg % (4 * m) /\ reg = (4 * m) * q + r
  <2>1. 4 * m \in Nat \ {0}
    OBVIOUS
  <2> QED BY <2>1, NaturalDivision
<1>2. PICK b \in Nat, s \in 0..(m - 1) : b = r \div m /\ s = r % m /\ r = m * b + s
  <2>1. r \in Nat
    OBVIOUS
  <2> QED BY <2>1, NaturalDivision
<1>3. b \in 0..3
  <2>1. SUFFICES ASSUME b >= 4 PROVE FALSE
    BY <2>1
  <2>2. m * (b - 4) >= 0 /\ m * b = 4 * m + m * (b - 4)
    BY <2>1
  <2> QED BY <1>2, <2>2
<1>4. reg \div m = 4 * q + b /\ reg % m = s
  <2>1. PICK c \in Int : c = 4 * q + b
    OBVIOUS
  <2>2. PICK y \in Int, z \in Int : y = (4 * m) * q /\ z = m * b /\ m * c = y + z
    BY <2>1
  <2>3. PICK x \in Int : x = reg /\ x = m * c + s
    <3>1. reg = y + r /\ r = z + s
      BY <1>1, <1>2, <2>2
    <3>2. reg = m * c + s
      BY <2>2, <3>1
    <3> QED BY <3>2
  <2>4. x \div m = c /\ x % m = s
    BY ONLY <2>3, m \in Nat \ {0}, c \in Int, s \in 0..(m - 1), Quotient
  <2> QED BY <2>1, <2>3, <2>4
<1>5. (reg \div m) % 4 = b
  <2>1. 4 * q + b = 4 * q + b /\ q \in Int /\ b \in 0..(4 - 1) /\ 4 \in Nat \ {0}
    BY <1>3
  <2>2. (4 * q + b) % 4 = b
    BY ONLY <2>1, Quotient
  <2> QED BY <1>4, <2>2
<1>6. left = (m * b + s) * p /\ left = (m * p) * b + s * p
  <2>1. left = r * p
    BY <1>0, <1>1
  <2>2. (m * b + s) * p = (m * p) * b + s * p
    OBVIOUS
  <2> QED BY <1>2, <2>1, <2>2
<1>7. s * p \in 0..(m * p - 1) /\ m * p \in Nat \ {0}
  <2>1. s * p >= 0 /\ ((m - 1) - s) * p >= 0 /\ m * p = s * p + ((m - 1) - s) * p + p
    OBVIOUS
  <2> QED BY <2>1
<1>8. left \div (m * p) = b
  <2>1. PICK u \in Nat \ {0} : u = m * p
    BY <1>7
  <2>2. PICK v \in 0..(u - 1) : v = s * p
    BY <1>7, <2>1
  <2>3. left = u * b + v /\ b \in Int
    BY <1>6, <2>1, <2>2
  <2>4. left \div u = b
    BY <2>3, Quotient
  <2> QED BY <2>1, <2>4
<1>9. (left * 4) % M = s * (4 * p)
  <2>1. left * 4 = M * b + s * (4 * p)
    BY <1>0, <1>6
  <2>2. PICK v \in 0..(M - 1) : v = s * (4 * p)
    BY <1>0, <1>7
  <2>3. PICK x : x = left * 4
    OBVIOUS
  <2>4. x = M * b + v /\ b \in Int
    BY <2>1, <2>2, <2>3
  <2>5. x % M = v
    BY ONLY <2>4, M \in Nat \ {0}, v \in 0..(M - 1), Quotient
  <2> QED BY <2>2, <2>3, <2>5
<1> QED BY <1>0, <1>4, <1>5, <1>8, <1>9 DEF Remaining

\* The registers of a walk, and what Spends says of them.
IsWalk(left, reg, h) == left[0] = reg /\ \A n \in 1..h : left[n] = Shift(left[n - 1])

SpendsAlong(left, reg, bits) ==
  /\ \A n \in 0..(WordBits \div 2 - 1) :
       /\ Branch(left[n]) = (reg \div Pow2[WordBits - 2 * n - 2]) % 4
       /\ left[n] = 0 <=> reg % Pow2[WordBits - 2 * n] = 0
  /\ left[bits \div 2] = 0

LEMMA WalkLoop ==
  ASSUME DescentAssumption, NEW reg \in Word, NEW bits
  PROVE  \E left : /\ IsWalk(left, reg, WordBits \div 2)
                   /\ SpendsAlong(left, reg, bits) => Spends(reg, bits)
<1> DEFINE h == WordBits \div 2
           g == [n \in Nat |-> [x \in Word |-> Shift(x)]]
           Is(f) == f = [n \in 0..h |-> IF n = 0 THEN reg ELSE Shift(f[n - 1])]
<1>0. WordBits \in Nat /\ h \in Nat
  BY DEF DescentAssumption
<1>1. \A x \in Word : Shift(x) \in Word
  <2> SUFFICES ASSUME NEW x \in Word PROVE Shift(x) \in Word
    OBVIOUS
  <2>1. PICK M \in Nat \ {0} : M = Pow2[WordBits]
    BY <1>0, PowersOfTwo
  <2>2. x * 4 \in Int
    BY <2>1 DEF Word
  <2>3. (x * 4) % M \in 0..(M - 1)
    BY <2>2, Division
  <2> QED BY <2>1, <2>3 DEF Shift, Word
<1>2. g \in [Nat -> [Word -> Word]]
  BY <1>1
<1>3. \A n \in Nat, x \in Word : g[n][x] = Shift(x)
  OBVIOUS
<1>4. \E f : Is(f)
  <2> HIDE DEF g
  <2>1. PICK f \in [0..h -> Word] : Recurs(f, 0..h, reg, g)
    BY <1>0, <1>2, RoundsExist
  <2>2. \A n \in 0..h : n # 0 => g[n][f[n - 1]] = Shift(f[n - 1])
    <3>1. \A n \in 0..h : n # 0 => n \in Nat /\ n - 1 \in 0..h
      BY <1>0
    <3>2. \A n \in 0..h : n # 0 => n \in Nat /\ f[n - 1] \in Word
      BY <2>1, <3>1
    <3> QED BY <1>3, <3>2
  <2> QED BY <2>1, <2>2 DEF Recurs
<1>5. PICK left : Is(left) /\ (SpendsAlong(left, reg, bits) => Spends(reg, bits))
  <2> DEFINE l == CHOOSE f : Is(f)
  <2>1. SpendsAlong(l, reg, bits) => Spends(reg, bits)
    BY DEF SpendsAlong, Spends
  <2>2. Is(l)
    <3> HIDE DEF Is
    <3> QED BY <1>4
  <2> HIDE DEF l
  <2> QED BY <2>1, <2>2
<1>6. IsWalk(left, reg, h)
  <2> HIDE DEF h
  <2>1. left[0] = reg
    BY <1>0, <1>5
  <2>2. \A n \in 1..h : left[n] = Shift(left[n - 1])
    BY <1>0, <1>5
  <2> QED BY <2>1, <2>2 DEF IsWalk
<1> QED BY <1>5, <1>6

\* A step leaves nothing exactly of a register with nothing below its top pair.
LEMMA LastPair ==
  ASSUME NEW c \in Nat \ {0}, NEW s \in 0..(4 * c - 1)
  PROVE  (s * 4) % (4 * c) = 0 <=> s % c = 0
<1>1. PICK M \in Nat \ {0} : M = 4 * c
  OBVIOUS
<1>2. s \in Nat /\ s \in 0..(M - 1)
  BY <1>1
<1>3. s % M = s
  BY <1>2, SmallRemainder
<1>4. PICK one \in Nat \ {0} : one = 1
  OBVIOUS
<1>5. (Remaining(s, c, one) * 4) % (4 * c * one) = (s % c) * (4 * one)
  <2>1. \A m, p \in Nat \ {0}, reg \in Nat :
          (Remaining(reg, m, p) * 4) % (4 * m * p) = (reg % m) * (4 * p)
    BY ONLY PairTaken, Zenon
  <2> QED BY ONLY c \in Nat \ {0}, <1>2, <1>4, <2>1, Zenon
<1>6. s % c \in Nat
  <2>1. s % c \in 0..(c - 1)
    BY <1>2, Division
  <2> QED BY <2>1
<1>7. PICK x \in Nat : x = s % c
  BY <1>6
<1>8. 4 * c * one = M /\ 4 * one = 4 /\ Remaining(s, c, one) = s
  BY <1>1, <1>2, <1>3, <1>4 DEF Remaining
<1>9. (s * 4) % M = x * 4
  BY <1>5, <1>7, <1>8
<1> QED BY <1>1, <1>7, <1>9

\* What is left after n steps, and so what each step takes.
LEMMA WalkSpends ==
  ASSUME DescentAssumption, NEW reg \in Word, NEW bits \in Nat,
         bits % 2 = 0, bits <= WordBits, reg % Pow2[WordBits - bits] = 0
  PROVE  Spends(reg, bits)
<1>0. PICK h \in Nat \ {0} : h = WordBits \div 2 /\ WordBits = 2 * h
  BY DEF DescentAssumption
<1>1. PICK left : /\ IsWalk(left, reg, h)
                  /\ SpendsAlong(left, reg, bits) => Spends(reg, bits)
  BY <1>0, WalkLoop
<1>2. PICK M \in Nat \ {0} : M = Pow2[2 * h] /\ Word = 0..(M - 1)
  <2>1. 2 * h \in Nat
    OBVIOUS
  <2> QED BY <1>0, <2>1, PowersOfTwo DEF Word
<1>3. \A n \in 0..(h - 1) : \E m \in Nat \ {0}, p \in Nat \ {0} :
        /\ m = Pow2[2 * h - 2 * n - 2] /\ 4 * m = Pow2[2 * h - 2 * n]
        /\ p = Pow2[2 * n] /\ 4 * p = Pow2[2 * (n + 1)]
        /\ M = 4 * m * p /\ m * p = Pow2[2 * h - 2]
  <2> SUFFICES ASSUME NEW n \in 0..(h - 1)
               PROVE  \E m \in Nat \ {0}, p \in Nat \ {0} :
                        /\ m = Pow2[2 * h - 2 * n - 2] /\ 4 * m = Pow2[2 * h - 2 * n]
                        /\ p = Pow2[2 * n] /\ 4 * p = Pow2[2 * (n + 1)]
                        /\ M = 4 * m * p /\ m * p = Pow2[2 * h - 2]
    OBVIOUS
  <2>1. \A e \in Nat : Pow2[e] \in Nat \ {0} /\ Pow2[e + 2] = 4 * Pow2[e]
    <3> SUFFICES ASSUME NEW e \in Nat PROVE Pow2[e] \in Nat \ {0} /\ Pow2[e + 2] = 4 * Pow2[e]
      OBVIOUS
    <3>1. e + 1 \in Nat /\ e + 2 = (e + 1) + 1
      OBVIOUS
    <3>2. PICK x \in Nat \ {0} : x = Pow2[e]
      BY PowersOfTwo
    <3>3. Pow2[e + 1] = 2 * x /\ Pow2[e + 2] = 2 * Pow2[e + 1]
      BY <3>1, <3>2, PowersOfTwo
    <3> QED BY <3>2, <3>3
  <2>2. PICK c \in Nat, d \in Nat : c = 2 * h - 2 * n - 2 /\ d = 2 * n
    OBVIOUS
  <2>3. PICK m \in Nat \ {0}, p \in Nat \ {0} : m = Pow2[c] /\ p = Pow2[d]
    BY <2>1
  <2>4. 4 * m = Pow2[c + 2] /\ 4 * p = Pow2[d + 2]
    BY <2>1, <2>3
  <2>5. c + 2 = 2 * h - 2 * n /\ d + 2 = 2 * (n + 1) /\ c + d = 2 * h - 2 /\ (c + d) + 2 = 2 * h
    BY <2>2
  <2>6. m * p = Pow2[c + d]
    BY <2>3, PowerSum
  <2>7. Pow2[(c + d) + 2] = 4 * (m * p)
    <3>1. c + d \in Nat
      OBVIOUS
    <3> QED BY <2>1, <2>6, <3>1
  <2>8. M = 4 * m * p
    <3>1. 4 * m * p = 4 * (m * p)
      OBVIOUS
    <3> QED BY <1>2, <2>5, <2>7, <3>1
  <2> QED BY <2>2, <2>3, <2>4, <2>5, <2>6, <2>8
<1>4. reg \in Nat
  BY <1>2
<1> DEFINE T == {n \in 0..h : left[n] = (reg % Pow2[2 * h - 2 * n]) * Pow2[2 * n]}
<1>5. 0 \in T
  <2>1. reg % M = reg
    BY <1>2, SmallRemainder
  <2>2. left[0] = reg /\ 2 * h - 2 * 0 = 2 * h /\ 2 * 0 = 0 /\ reg * 1 = reg
    BY <1>1, <1>4 DEF IsWalk
  <2>3. left[0] = (reg % Pow2[2 * h]) * Pow2[0]
    BY ONLY <1>2, <2>1, <2>2, PowersOfTwo
  <2>4. left[0] = (reg % Pow2[2 * h - 2 * 0]) * Pow2[2 * 0]
    BY <2>2, <2>3
  <2> QED BY <2>4
<1>6. ASSUME NEW n \in 0..(h - 1), n \in T PROVE n + 1 \in T
  <2>1. PICK m \in Nat \ {0}, p \in Nat \ {0} :
          /\ m = Pow2[2 * h - 2 * n - 2] /\ 4 * m = Pow2[2 * h - 2 * n]
          /\ p = Pow2[2 * n] /\ 4 * p = Pow2[2 * (n + 1)] /\ M = 4 * m * p
    BY <1>3
  <2>2. PICK l : l = left[n] /\ l = (reg % (4 * m)) * p
    BY <1>6, <2>1
  <2>3. (l * 4) % M = (reg % m) * (4 * p)
    <3>1. (Remaining(reg, m, p) * 4) % (4 * m * p) = (reg % m) * (4 * p)
      BY <1>4, PairTaken
    <3>2. l = Remaining(reg, m, p)
      BY <2>2 DEF Remaining
    <3> QED BY <2>1, <3>1, <3>2
  <2>4. n + 1 \in 1..h /\ (n + 1) - 1 = n /\ 2 * h - 2 * (n + 1) = 2 * h - 2 * n - 2
    OBVIOUS
  <2>5. left[n + 1] = (left[n] * 4) % M
    BY <1>0, <1>1, <1>2, <2>4 DEF IsWalk, Shift
  <2> QED BY <2>1, <2>2, <2>3, <2>4, <2>5
<1>7. \A n \in 0..h : left[n] = (reg % Pow2[2 * h - 2 * n]) * Pow2[2 * n]
  <2> HIDE DEF T
  <2>1. \A n \in 0..h : n \in T
    BY <1>5, <1>6, UpTo
  <2> QED BY <2>1 DEF T
<1>8. ASSUME NEW n \in 0..(h - 1)
      PROVE  /\ Branch(left[n]) = (reg \div Pow2[WordBits - 2 * n - 2]) % 4
             /\ left[n] = 0 <=> reg % Pow2[WordBits - 2 * n] = 0
  <2>1. PICK m \in Nat \ {0}, p \in Nat \ {0} :
          /\ m = Pow2[2 * h - 2 * n - 2] /\ 4 * m = Pow2[2 * h - 2 * n]
          /\ p = Pow2[2 * n] /\ M = 4 * m * p /\ m * p = Pow2[2 * h - 2]
    BY ONLY <1>3, n \in 0..(h - 1)
  <2>2. PICK l : l = left[n] /\ l = (reg % (4 * m)) * p
    BY <1>7, <2>1
  <2>3. l \div (m * p) = (reg \div m) % 4
    <3>1. /\ (Remaining(reg, m, p) * 4) % (4 * m * p) = (reg % m) * (4 * p)
          /\ Remaining(reg, m, p) \div (m * p) = (reg \div m) % 4
      BY ONLY <1>4, m \in Nat \ {0}, p \in Nat \ {0}, PairTaken
    <3>2. l = Remaining(reg, m, p)
      BY <2>2 DEF Remaining
    <3> QED BY <3>1, <3>2
  <2>4. PICK x \in Nat : x = reg % (4 * m)
    <3>1. PICK c \in Nat \ {0} : c = 4 * m
      OBVIOUS
    <3>2. reg % c \in 0..(c - 1)
      BY <1>4, Division
    <3> QED BY <3>1, <3>2
  <2>5. x * p = 0 <=> x = 0
    OBVIOUS
  <2> QED BY <1>0, <2>1, <2>2, <2>3, <2>4, <2>5 DEF Branch
<1>9. left[bits \div 2] = 0
  <2>1. PICK k \in 0..h : k = bits \div 2 /\ bits = 2 * k
    BY <1>0
  <2>2. left[k] = (reg % Pow2[2 * h - bits]) * Pow2[2 * k]
    BY <1>7, <2>1
  <2>3. PICK p \in Nat \ {0} : p = Pow2[2 * k]
    <3>1. 2 * k \in Nat
      OBVIOUS
    <3> QED BY <3>1, PowersOfTwo
  <2>4. 0 * p = 0
    OBVIOUS
  <2>5. reg % Pow2[2 * h - bits] = 0
    BY <1>0
  <2>6. left[k] = 0
    BY ONLY <2>2, <2>3, <2>4, <2>5
  <2> QED BY <2>1, <2>6
<1> QED BY <1>0, <1>1, <1>8, <1>9 DEF SpendsAlong

\* The root index and the register share out the digest: the register is a multiple
\* of what it was shifted by.
Shared(h, p, m, W) ==
  \E r \in 0..(m - 1) :
    /\ (h \div m) * m + r = h
    /\ (h * p) % W = p * r /\ ((h * p) % W) \div p = r /\ ((h * p) % W) % p = 0
    /\ p * r \in 0..(W - 1)

LEMMA DigestShared ==
  ASSUME NEW p \in Nat \ {0}, NEW m \in Nat \ {0}, NEW W, W = p * m, NEW h \in 0..(W - 1)
  PROVE  Shared(h, p, m, W)
<1>0. PICK M \in Nat \ {0} : M = W /\ M = p * m
  <2>1. p * m \in Nat \ {0}
    OBVIOUS
  <2> QED BY <2>1
<1>1. PICK q \in Nat, r \in 0..(m - 1) : q = h \div m /\ r = h % m /\ h = m * q + r
  <2>1. h \in Nat
    BY <1>0
  <2> QED BY <2>1, NaturalDivision
<1>2. PICK s \in 0..(M - 1) : s = p * r
  <2>1. p * r >= 0 /\ p * ((m - 1) - r) >= 0 /\ M = p * r + p * ((m - 1) - r) + p
    BY <1>0
  <2> QED BY <2>1
<1>3. (h * p) % M = s
  <2>1. h * p = M * q + s
    <3>1. (m * q + r) * p = (p * m) * q + p * r
      OBVIOUS
    <3> QED BY <1>0, <1>1, <1>2, <3>1
  <2>2. PICK x : x = h * p
    OBVIOUS
  <2>3. x = M * q + s /\ q \in Int
    BY <2>1, <2>2
  <2>4. x % M = s
    BY ONLY <2>3, M \in Nat \ {0}, s \in 0..(M - 1), Quotient
  <2> QED BY <2>2, <2>4
<1>4. s \div p = r /\ s % p = 0
  <2>1. s = p * r + 0 /\ 0 \in 0..(p - 1) /\ r \in Int
    BY <1>2
  <2> QED BY ONLY <2>1, p \in Nat \ {0}, Quotient, ZenonT(30)
<1>5. (h \div m) * m + r = h
  BY <1>1
<1> QED BY <1>0, <1>2, <1>3, <1>4, <1>5 DEF Shared

\* An odd factor takes no power of two away.
LEMMA OddFactor ==
  ASSUME NEW s \in Nat, s % 2 = 1
  PROVE  \A n \in Nat : \A d, k \in Nat : s * d = Pow2[n] * k => \E j \in Nat : d = Pow2[n] * j
<1> DEFINE T == {n \in Nat : \A d, k \in Nat : s * d = Pow2[n] * k => \E j \in Nat : d = Pow2[n] * j}
<1>1. 0 \in T
  <2> SUFFICES ASSUME NEW d \in Nat PROVE \E j \in Nat : d = Pow2[0] * j
    OBVIOUS
  <2>1. d = 1 * d
    OBVIOUS
  <2> QED BY <2>1, PowersOfTwo
<1>2. ASSUME NEW n \in Nat, n \in T PROVE n + 1 \in T
  <2>1. PICK P \in Nat \ {0} : P = Pow2[n] /\ Pow2[n + 1] = 2 * P
    BY PowersOfTwo
  <2> SUFFICES ASSUME NEW d \in Nat, NEW k \in Nat, s * d = (2 * P) * k
               PROVE  \E j \in Nat : d = (2 * P) * j
    BY <2>1
  <2>2. PICK a \in Nat : s = 2 * a + 1
    <3>1. s \div 2 \in Nat /\ s = 2 * (s \div 2) + 1
      OBVIOUS
    <3> QED BY <3>1
  <2>3. PICK e \in Nat : d = 2 * e
    <3>1. PICK y \in Int, z \in Int : y = a * d /\ z = P * k
      OBVIOUS
    <3>2. 2 * y + d = 2 * z
      <4>1. s * d = 2 * (a * d) + d /\ (2 * P) * k = 2 * (P * k)
        BY <2>2
      <4> QED BY <3>1, <4>1
    <3>3. z - y \in Nat /\ d = 2 * (z - y)
      BY <3>2
    <3> QED BY <3>3
  <2>4. s * e = P * k
    <3>1. s * d = 2 * (s * e) /\ (2 * P) * k = 2 * (P * k)
      BY <2>3
    <3>2. PICK y \in Int, z \in Int : y = s * e /\ z = P * k
      OBVIOUS
    <3> QED BY <3>1, <3>2
  <2>5. PICK j \in Nat : e = P * j
    BY <1>2, <2>1, <2>4
  <2>6. d = (2 * P) * j
    BY <2>3, <2>5
  <2> QED BY <2>6
<1>3. \A n \in Nat : n \in T
  <2> HIDE DEF T
  <2> QED BY <1>1, <1>2, Upwards
<1> QED BY <1>3

\* So no two rounds have the same seed, before the words are used up.
LEMMA SeedsDiffer ==
  ASSUME NEW n \in Nat, NEW G, G = Pow2[n], NEW s \in Nat, s % 2 = 1,
         NEW b \in 0..(G - 1), NEW r \in 0..(b - 1)
  PROVE  (s * r) % G # (s * b) % G
<1>1. SUFFICES ASSUME (s * r) % G = (s * b) % G PROVE FALSE
  OBVIOUS
<1>2. PICK M \in Nat \ {0} : M = G /\ M = Pow2[n]
  BY PowersOfTwo
<1>3. PICK x \in Nat, y \in Nat : x = s * r /\ y = s * b
  <2>1. r \in Nat /\ b \in Nat
    BY <1>2
  <2>2. s * r \in Nat /\ s * b \in Nat
    BY <2>1
  <2> QED BY <2>2
<1>4. PICK p \in Nat, u \in 0..(M - 1) : p = x \div M /\ u = x % M /\ x = M * p + u
  BY NaturalDivision
<1>5. PICK q \in Nat, v \in 0..(M - 1) : q = y \div M /\ v = y % M /\ y = M * q + v
  BY NaturalDivision
<1>6. u = v
  BY <1>1, <1>2, <1>3, <1>4, <1>5
<1>7. PICK d \in Nat : d = b - r /\ d # 0 /\ d < M
  BY <1>2
<1>8. s * d = M * (q - p)
  <2>1. s * d = y - x
    <3>1. r \in Int /\ b \in Int
      BY <1>2
    <3>2. s * (b - r) = s * b - s * r
      BY <3>1
    <3> QED BY <1>3, <1>7, <3>2
  <2>2. PICK f \in Int, g \in Int : f = M * p /\ g = M * q /\ M * (q - p) = g - f
    OBVIOUS
  <2>3. x = f + u /\ y = g + u
    BY <1>4, <1>5, <1>6, <2>2
  <2> QED BY <2>1, <2>2, <2>3
<1>9. q - p \in Nat
  <2>1. SUFFICES ASSUME q - p <= -1 PROVE FALSE
    BY <2>1
  <2>2. M * (p - q) > 0 /\ s * d >= 0 /\ M * (q - p) = -(M * (p - q))
    BY <2>1
  <2> QED BY <1>8, <2>2
<1>10. PICK j \in Nat : d = M * j
  <2>1. PICK k \in Nat : k = q - p
    BY <1>9
  <2>2. s * d = Pow2[n] * k
    BY <1>2, <1>8, <2>1
  <2>3. \A e, l \in Nat : s * e = Pow2[n] * l => \E j \in Nat : e = Pow2[n] * j
    BY OddFactor
  <2> QED BY <1>2, <2>2, <2>3
<1>11. CASE j = 0
  BY <1>7, <1>10, <1>11
<1>12. CASE j # 0
  <2>1. M * (j - 1) >= 0 /\ M * j = M * (j - 1) + M
    BY <1>12
  <2> QED BY <1>7, <1>10, <2>1
<1> QED BY <1>11, <1>12

\* The digest is spent on the root index and the branches without overlap or gap, an
\* exhausted register is reseeded at once, and no reseed repeats another: for words and
\* a top index of any even width, and as many rounds as a counter of 32 bits counts.
THEOREM DigestsAreSpent == Requests => []DigestSpent
<1>1. Request => DigestSpent
  <2> SUFFICES ASSUME Request PROVE DigestSpent
    OBVIOUS
  <2>1. /\ WordBits \in Nat /\ TopBits \in Nat /\ WordBits % 2 = 0 /\ TopBits % 2 = 0
        /\ TopBits < WordBits /\ WordBits = 2 * HalfBits
    BY DescentAssumption, ArithmeticAssumption DEF DescentAssumption, ArithmeticAssumption
  <2>2. /\ U32 \in Nat \ {0} /\ U64 \in Nat \ {0} /\ U64 = Pow2[WordBits] /\ U32 <= U64
        /\ ListSizesAssumption
    BY <2>1, SizingAssumption, WordIsPower, ListSizesAssumption, WordSizes
  <2>3. size \in 0..(U64 - 1) /\ blocks \in 0..(U32 - 1) /\ size \in Word
    BY <2>2 DEF Request, Word
  <2>4. PICK m \in Nat \ {0}, p \in Nat \ {0} :
          m = Pow2[WordBits - TopBits] /\ p = Pow2[TopBits] /\ U64 = p * m
    <3>1. PICK w \in Nat : w = WordBits - TopBits /\ TopBits + w = WordBits
      BY <2>1
    <3>2. PICK m \in Nat \ {0} : m = Pow2[w]
      BY PowersOfTwo
    <3>3. PICK p \in Nat \ {0} : p = Pow2[TopBits]
      BY <2>1, PowersOfTwo
    <3>4. U64 = p * m
      <4>1. Pow2[TopBits + w] = Pow2[TopBits] * Pow2[w]
        BY <2>1, PowerSum
      <4> QED BY ONLY <2>2, <3>1, <3>2, <3>3, <4>1
    <3> QED BY <3>1, <3>2, <3>3, <3>4
  <2>5. PICK d \in 0..(m - 1) :
          /\ (size \div m) * m + d = size
          /\ (size * p) % U64 = p * d /\ ((size * p) % U64) \div p = d
          /\ ((size * p) % U64) % p = 0 /\ p * d \in 0..(U64 - 1)
    <3>1. Shared(size, p, m, U64)
      BY <2>3, <2>4, DigestShared
    <3> QED BY <3>1 DEF Shared
  <2>6. StartRegister(size) = (size * p) % U64 /\ RootIndex(size) = size \div m
    BY <2>2, <2>4 DEF StartRegister, RootIndex
  <2>7. RootIndex(size) * Pow2[WordBits - TopBits] + StartRegister(size) \div Pow2[TopBits] = size
    BY <2>4, <2>5, <2>6
  <2>8. Spends(StartRegister(size), WordBits - TopBits)
    <3>1. PICK reg : reg = StartRegister(size)
      OBVIOUS
    <3>2. reg \in Word /\ reg % p = 0
      BY <2>2, <2>5, <2>6, <3>1 DEF Word
    <3>3. PICK bits \in Nat : bits = WordBits - TopBits
      BY <2>1
    <3>4. bits % 2 = 0 /\ bits <= WordBits /\ WordBits - bits = TopBits
      BY <2>1, <3>3
    <3>5. Spends(reg, bits)
      BY <2>4, <3>2, <3>4, DescentAssumption, WalkSpends
    <3> QED BY <3>1, <3>3, <3>5
  <2>9. Spends(size, WordBits)
    <3>1. size % Pow2[WordBits - WordBits] = 0
      <4>1. WordBits - WordBits = 0 /\ Pow2[0] = 1
        BY <2>1, PowersOfTwo
      <4>2. \A x \in Int : x % 1 = 0
        OBVIOUS
      <4>3. size \in Int
        BY <2>2, <2>3
      <4> QED BY <4>1, <4>2, <4>3
    <3>2. WordBits <= WordBits
      BY <2>1
    <3> QED BY <2>1, <2>3, <3>1, <3>2, DescentAssumption, WalkSpends
  <2>10. ASSUME size % 2 = 1, NEW r \in 0..(blocks - 1)
         PROVE  ReseedSeed(size, r, HalfBits) # ReseedSeed(size, blocks, HalfBits)
    <3>1. size \in Nat /\ blocks \in 0..(U64 - 1) /\ U64 = Pow2[WordBits]
      BY <2>2, <2>3
    <3>2. (size * r) % U64 # (size * blocks) % U64
      BY <2>1, <2>10, <3>1, SeedsDiffer
    <3> QED BY <2>1, <3>1, <3>2 DEF ReseedSeed
  <2>11. Shift(size) = 0 <=> size % Pow2[WordBits - 2] = 0
    <3>1. PICK w \in Nat : w = WordBits - 2 /\ w + 2 = WordBits
      BY <2>1
    <3>2. PICK c \in Nat \ {0} : c = Pow2[w] /\ U64 = 4 * c
      <4>1. PICK c \in Nat \ {0} : c = Pow2[w]
        BY PowersOfTwo
      <4>2. w + 1 \in Nat /\ (w + 1) + 1 = WordBits
        BY <3>1
      <4>3. Pow2[w + 1] = 2 * c /\ U64 = 2 * Pow2[w + 1]
        BY <2>2, <4>1, <4>2, PowersOfTwo
      <4> QED BY <4>1, <4>3
    <3>3. size \in 0..(4 * c - 1)
      BY <2>3, <3>2
    <3>4. (size * 4) % (4 * c) = 0 <=> size % c = 0
      BY <3>3, LastPair
    <3>5. Shift(size) = (size * 4) % U64
      BY <2>2 DEF Shift
    <3> QED BY <3>1, <3>2, <3>4, <3>5
  <2>12. Advance([h |-> size, round |-> 0], [r \in 0..1 |-> blocks])
           = IF size % Pow2[WordBits - 2] = 0 THEN [h |-> blocks, round |-> 1]
                                              ELSE [h |-> Shift(size), round |-> 0]
    BY <2>11 DEF Advance
  <2> QED BY <2>7, <2>8, <2>9, <2>10, <2>12 DEF DigestSpent
<1> QED BY <1>1, AlwaysRequest, PTL

-----------------------------------------------------------------------------
(* The blocks of a Bloom filter.                                           *)

\* The number with the bits B is a word, and has those bits.
LEMMA NumberIsWord ==
  ASSUME NEW B, NEW w \in Nat
  PROVE  Number(B, w) \in 0..(Pow2[w] - 1)
<1>1. PICK top : IsTop(top, B, w)
  BY NumberLoop
<1> DEFINE T == {n \in 0..w : top[n] \in 0..(Pow2[n] - 1)}
<1>2. 0 \in T
  BY <1>1, PowersOfTwo DEF IsTop
<1>3. ASSUME NEW n \in 0..(w - 1), n \in T PROVE n + 1 \in T
  <2>1. PICK P \in Nat \ {0} : P = Pow2[n] /\ Pow2[n + 1] = 2 * P
    BY PowersOfTwo
  <2>2. n + 1 \in 1..w /\ (n + 1) - 1 = n
    OBVIOUS
  <2>3. top[n + 1] = 2 * top[n] \/ top[n + 1] = 2 * top[n] + 1
    <3>1. top[n + 1] = 2 * top[n] + (IF w - (n + 1) \in B THEN 1 ELSE 0)
      BY <1>1, <2>2 DEF IsTop
    <3>2. top[n] \in Nat
      BY <1>1, <2>2 DEF IsTop
    <3> QED BY <3>1, <3>2
  <2>4. top[n] \in 0..(P - 1)
    BY <1>3, <2>1
  <2> QED BY <2>1, <2>2, <2>3, <2>4
<1>4. \A n \in 0..w : n \in T
  <2> HIDE DEF T
  <2> QED BY <1>2, <1>3, UpTo
<1> QED BY <1>1, <1>4 DEF IsTop

LEMMA BitsOfNumber ==
  ASSUME NEW B, NEW w \in Nat
  PROVE  BitsOf(Number(B, w), w) = B \cap (0..(w - 1))
<1>1. PICK top : IsTop(top, B, w)
  BY NumberLoop
<1>2. PICK x \in Nat : x = top[w] /\ x = Number(B, w)
  BY <1>1 DEF IsTop
<1> DEFINE T == {k \in 0..w : x \div Pow2[k] = top[w - k]}
<1>3. 0 \in T
  <2>1. x \div 1 = x /\ w - 0 = w
    OBVIOUS
  <2>2. x \div Pow2[0] = top[w - 0]
    BY <1>2, <2>1, PowersOfTwo
  <2> QED BY <2>2
<1>4. \A k \in 0..(w - 1) : \E t \in Nat, b \in 0..1 :
        /\ t = top[w - (k + 1)] /\ (b = 1 <=> k \in B) /\ top[w - k] = 2 * t + b
  <2> SUFFICES ASSUME NEW k \in 0..(w - 1)
               PROVE  \E t \in Nat, b \in 0..1 :
                        /\ t = top[w - (k + 1)] /\ (b = 1 <=> k \in B) /\ top[w - k] = 2 * t + b
    OBVIOUS
  <2>1. PICK n \in 1..w : n = w - k
    OBVIOUS
  <2>2. n - 1 = w - (k + 1) /\ w - n = k /\ n - 1 \in 0..w
    BY <2>1
  <2>3. PICK t \in Nat : t = top[n - 1]
    BY <1>1, <2>2 DEF IsTop
  <2>4. top[n] = 2 * t + (IF k \in B THEN 1 ELSE 0)
    BY <1>1, <2>2, <2>3 DEF IsTop
  <2>5. CASE k \in B
    BY <2>1, <2>2, <2>3, <2>4, <2>5, 1 \in 0..1
  <2>6. CASE k \notin B
    BY <2>1, <2>2, <2>3, <2>4, <2>6, 0 \in 0..1
  <2> QED BY <2>5, <2>6
<1>5. ASSUME NEW k \in 0..(w - 1), k \in T PROVE k + 1 \in T
  <2>1. PICK t \in Nat, b \in 0..1 : t = top[w - (k + 1)] /\ top[w - k] = 2 * t + b
    BY <1>4
  <2>2. PICK P \in Nat \ {0} : P = Pow2[k] /\ Pow2[k + 1] = 2 * P
    BY PowersOfTwo
  <2>3. PICK q \in Nat, c \in 0..1 : q = x \div (2 * P) /\ x \div P = 2 * q + c
    <3>1. x \div (2 * P) \in Nat /\ x \div P = 2 * (x \div (2 * P)) + ((x \div P) % 2)
      BY HalfQuotient
    <3>2. x \div P \in Int
      BY Division
    <3>3. (x \div P) % 2 \in 0..1
      BY <3>2
    <3> QED BY <3>1, <3>3
  <2>4. 2 * q + c = 2 * t + b
    BY <1>5, <2>1, <2>2, <2>3
  <2>5. q = t
    BY <2>4
  <2> QED BY <2>1, <2>2, <2>3, <2>5
<1>6. \A k \in 0..w : k \in T
  <2> HIDE DEF T
  <2> QED BY <1>3, <1>5, UpTo
<1>7. ASSUME NEW k \in 0..(w - 1) PROVE (x \div Pow2[k]) % 2 = 1 <=> k \in B
  <2>1. PICK t \in Nat, b \in 0..1 : (b = 1 <=> k \in B) /\ top[w - k] = 2 * t + b
    BY <1>4
  <2>2. x \div Pow2[k] = 2 * t + b
    <3>1. k \in T
      BY <1>6
    <3> QED BY <2>1, <3>1
  <2>3. (2 * t + b) % 2 = b
    OBVIOUS
  <2> QED BY <2>1, <2>2, <2>3
<1> QED BY <1>2, <1>7 DEF BitsOf

\* A quotient of a quotient is the quotient by the product.
LEMMA QuotientTwice ==
  ASSUME NEW x \in Nat, NEW a \in Nat \ {0}, NEW b \in Nat \ {0}
  PROVE  (x \div a) \div b = x \div (a * b)
<1>1. PICK q \in Nat, r \in 0..(a - 1) : q = x \div a /\ r = x % a /\ x = a * q + r
  BY NaturalDivision
<1>2. PICK p \in Nat, s \in 0..(b - 1) : p = q \div b /\ s = q % b /\ q = b * p + s
  BY NaturalDivision
<1>3. PICK c \in Nat \ {0} : c = a * b
  OBVIOUS
<1>4. PICK u \in 0..(c - 1) : u = a * s + r
  <2>1. a * s >= 0 /\ a * ((b - 1) - s) >= 0 /\ c = a * s + a * ((b - 1) - s) + a
    BY <1>3
  <2>2. a * s + r \in 0..(c - 1)
    BY <2>1
  <2> QED BY <2>2
<1>5. x = c * p + u
  <2>1. a * (b * p + s) = (a * b) * p + a * s
    OBVIOUS
  <2>2. a * q = c * p + a * s
    BY <1>2, <1>3, <2>1
  <2> QED BY <1>1, <1>4, <2>2
<1>6. x \div c = p
  BY <1>5, Quotient
<1> QED BY <1>1, <1>2, <1>3, <1>6

\* Every word but 0 has a highest bit.
LEMMA HighestBit ==
  ASSUME NEW w \in Nat, NEW x \in 1..(Pow2[w] - 1)
  PROVE  \E e \in 0..(w - 1) : Pow2[e] <= x /\ x < Pow2[e + 1]
<1> DEFINE T == {n \in Nat : \A y \in 1..(Pow2[n] - 1) :
                               \E e \in 0..(n - 1) : Pow2[e] <= y /\ y < Pow2[e + 1]}
<1>1. 0 \in T
  BY PowersOfTwo
<1>2. ASSUME NEW n \in Nat, n \in T PROVE n + 1 \in T
  <2>1. PICK P \in Nat \ {0} : P = Pow2[n] /\ Pow2[n + 1] = 2 * P
    BY PowersOfTwo
  <2> SUFFICES ASSUME NEW y \in 1..(Pow2[n + 1] - 1)
               PROVE  \E e \in 0..((n + 1) - 1) : Pow2[e] <= y /\ y < Pow2[e + 1]
    OBVIOUS
  <2>2. CASE y < P
    <3>1. y \in 1..(Pow2[n] - 1)
      BY <2>1, <2>2
    <3>2. PICK e \in 0..(n - 1) : Pow2[e] <= y /\ y < Pow2[e + 1]
      BY <1>2, <3>1
    <3>3. e \in 0..((n + 1) - 1)
      OBVIOUS
    <3> QED BY <3>2, <3>3
  <2>3. CASE y >= P
    <3>1. n \in 0..((n + 1) - 1) /\ Pow2[n] <= y /\ y < Pow2[n + 1]
      BY <2>1, <2>3
    <3> QED BY <3>1
  <2> QED BY <2>1, <2>2, <2>3
<1>3. \A n \in Nat : n \in T
  <2> HIDE DEF T
  <2> QED BY <1>1, <1>2, Upwards
<1> QED BY <1>3

\* Its bits go no higher.
LEMMA BitsBelow ==
  ASSUME NEW w \in Nat, NEW e \in 0..(w - 1), NEW x \in Nat, Pow2[e] <= x, x < Pow2[e + 1]
  PROVE  e \in BitsOf(x, w) /\ BitsOf(x, w) \subseteq 0..e
<1>1. PICK P \in Nat \ {0} : P = Pow2[e] /\ Pow2[e + 1] = 2 * P
  BY PowersOfTwo
<1>2. x \div P = 1
  <2>1. x = P * 1 + (x - P) /\ x - P \in 0..(P - 1)
    BY <1>1
  <2> QED BY <2>1, Quotient, 1 \in Int
<1>3. e \in BitsOf(x, w)
  BY <1>1, <1>2 DEF BitsOf
<1>4. ASSUME NEW k \in 0..(w - 1), k > e PROVE (x \div Pow2[k]) % 2 = 0
  <2>1. PICK Q \in Nat \ {0} : Q = Pow2[k]
    BY PowersOfTwo
  <2>2. Pow2[e + 1] <= Q
    <3>1. CASE k = e + 1
      BY <2>1, <3>1
    <3>2. CASE k # e + 1
      <4>1. e + 1 \in Nat /\ k \in Nat /\ e + 1 < k
        BY <1>4, <3>2
      <4>2. Pow2[e + 1] < Pow2[k]
        BY <4>1, PowersGrow
      <4>3. Pow2[e + 1] \in Nat
        BY <1>1
      <4> QED BY <2>1, <4>2, <4>3
    <3> QED BY <3>1, <3>2
  <2>3. x = Q * 0 + x /\ x \in 0..(Q - 1)
    BY <1>1, <2>2
  <2>4. x \div Q = 0
    BY <2>3, Quotient, 0 \in Int
  <2> QED BY <2>1, <2>4
<1>5. BitsOf(x, w) \subseteq 0..e
  <2> SUFFICES ASSUME NEW k \in BitsOf(x, w) PROVE k \in 0..e
    OBVIOUS
  <2>1. k \in 0..(w - 1) /\ (x \div Pow2[k]) % 2 = 1
    BY DEF BitsOf
  <2>2. ~ (k > e)
    BY <1>4, <2>1
  <2> QED BY <2>1, <2>2
<1> QED BY <1>3, <1>5

\* All ones up to the bit e is one less than the next power of two.
LEMMA AllOnes ==
  ASSUME NEW w \in Nat, NEW e \in 0..(w - 1)
  PROVE  /\ Pow2[e + 1] - 1 \in 0..(Pow2[w] - 1)
         /\ BitsOf(Pow2[e + 1] - 1, w) = 0..e
<1>1. PICK P \in Nat \ {0} : P = Pow2[e] /\ Pow2[e + 1] = 2 * P
  BY PowersOfTwo
<1>2. PICK x \in Nat : x = Pow2[e + 1] - 1 /\ P <= x /\ x < 2 * P
  BY <1>1
<1>3. BitsOf(x, w) \subseteq 0..e
  BY <1>1, <1>2, BitsBelow
<1>4. ASSUME NEW k \in 0..e PROVE k \in BitsOf(x, w)
  <2>1. PICK n \in Nat : e = k + n
    <3>1. e - k \in Nat /\ e = k + (e - k)
      OBVIOUS
    <3> QED BY <3>1
  <2>2. PICK Q \in Nat \ {0}, R \in Nat \ {0} : Q = Pow2[k] /\ R = Pow2[n]
    <3>1. k \in Nat /\ n \in Nat
      OBVIOUS
    <3>2. Pow2[k] \in Nat \ {0} /\ Pow2[n] \in Nat \ {0}
      BY <3>1, PowersOfTwo
    <3> QED BY <3>2
  <2>3. P = Q * R
    BY <1>1, <2>1, <2>2, PowerSum
  <2>4. PICK c \in Int : c = 2 * R - 1
    OBVIOUS
  <2>5. x = Q * c + (Q - 1)
    <3>1. Q * c = 2 * (Q * R) - Q
      BY <2>4
    <3> QED BY <1>1, <1>2, <2>3, <3>1
  <2>6. x \div Q = c
    BY <2>5, Quotient, Q - 1 \in 0..(Q - 1)
  <2>7. c % 2 = 1
    BY <2>4
  <2> QED BY <2>2, <2>6, <2>7 DEF BitsOf
<1>5. 2 * P <= Pow2[w]
  BY <1>1, PowersGrow
<1>6. Pow2[w] \in Nat
  BY PowersOfTwo
<1>7. BitsOf(x, w) = 0..e
  BY <1>3, <1>4
<1>8. x \in 0..(Pow2[w] - 1)
  BY <1>2, <1>5, <1>6
<1> QED BY <1>2, <1>7, <1>8

\* One step of the smear adds the bits a shift further down.
LEMMA SpreadBits ==
  ASSUME NEW x \in 0..(Pow2[HalfBits] - 1), NEW s \in Nat, HalfBits \in Nat
  PROVE  /\ Spread(x, s) \in 0..(Pow2[HalfBits] - 1)
         /\ BitsOf(Spread(x, s), HalfBits) =
              BitsOf(x, HalfBits) \cup {k \in 0..(HalfBits - 1) : k + s \in BitsOf(x, HalfBits)}
<1>1. PICK w \in Nat : w = HalfBits
  OBVIOUS
<1>2. PICK y : y = x \div Pow2[s]
  OBVIOUS
<1>3. PICK B : B = BitsOf(x, w) \cup BitsOf(y, w)
  OBVIOUS
<1>4. Spread(x, s) = Number(B, w)
  BY <1>1, <1>2, <1>3 DEF Spread, Or
<1>5. B \subseteq 0..(w - 1)
  BY <1>3 DEF BitsOf
<1>6. BitsOf(Number(B, w), w) = B
  <2>1. BitsOf(Number(B, w), w) = B \cap (0..(w - 1))
    BY BitsOfNumber
  <2> QED BY <1>5, <2>1
<1>7. ASSUME NEW k \in 0..(w - 1) PROVE k \in BitsOf(y, w) <=> k + s \in BitsOf(x, w)
  <2>1. PICK P \in Nat \ {0}, Q \in Nat \ {0} : P = Pow2[s] /\ Q = Pow2[k]
    <3>1. k \in Nat /\ Pow2[k] \in Nat \ {0} /\ Pow2[s] \in Nat \ {0}
      BY PowersOfTwo
    <3> QED BY <3>1
  <2>2. x \in Nat
    BY PowersOfTwo
  <2>3. y \div Pow2[k] = x \div Pow2[s + k]
    <3>1. Pow2[s + k] = P * Q
      BY <2>1, PowerSum
    <3> QED BY <1>2, <2>1, <2>2, <3>1, QuotientTwice
  <2>4. PICK l \in Nat : l = k + s /\ l = s + k
    OBVIOUS
  <2>5. k \in BitsOf(y, w) <=> (x \div Pow2[l]) % 2 = 1
    BY <2>3, <2>4 DEF BitsOf
  <2>6. CASE l <= w - 1
    <3>1. l \in 0..(w - 1)
      BY <2>6
    <3> QED BY <2>4, <2>5, <3>1 DEF BitsOf
  <2>7. CASE l >= w
    <3>1. Pow2[w] <= Pow2[l]
      <4>1. CASE l = w
        BY <4>1, PowersOfTwo
      <4>2. CASE l # w
        <5>1. Pow2[w] < Pow2[l] /\ Pow2[w] \in Nat /\ Pow2[l] \in Nat
          <6>1. w < l
            BY <2>7, <4>2
          <6>2. Pow2[w] < Pow2[l]
            BY <6>1, PowersGrow
          <6> QED BY <6>2, PowersOfTwo
        <5> QED BY <5>1
      <4> QED BY <4>1, <4>2
    <3>2. PICK R \in Nat \ {0} : R = Pow2[l]
      BY PowersOfTwo
    <3>3. Pow2[w] \in Nat
      BY PowersOfTwo
    <3>4. x = R * 0 + x /\ x \in 0..(R - 1)
      BY <1>1, <2>2, <3>1, <3>2, <3>3
    <3>5. x \div R = 0
      BY <3>4, Quotient, 0 \in Int
    <3>6. l \notin BitsOf(x, w)
      BY <2>7 DEF BitsOf
    <3> QED BY <2>4, <2>5, <3>2, <3>5, <3>6
  <2> QED BY <2>6, <2>7
<1>8. BitsOf(y, w) = {k \in 0..(w - 1) : k + s \in BitsOf(x, w)}
  <2>1. BitsOf(y, w) \subseteq 0..(w - 1)
    BY DEF BitsOf
  <2> QED BY <1>7, <2>1
<1> QED BY <1>1, <1>3, <1>4, <1>6, <1>8, NumberIsWord

\* The loop of Smear.
LEMMA SmearLoop ==
  ASSUME SizingAssumption, NEW x \in 0..(Pow2[HalfBits] - 1)
  PROVE  \E f : /\ f[0] = x /\ Smear(x) = f[SmearSteps]
                /\ \A n \in 1..SmearSteps : f[n] = Spread(f[n - 1], Pow2[n - 1])
<1> DEFINE S == 0..(Pow2[HalfBits] - 1)
           N == SmearSteps
           g == [n \in Nat |-> [y \in S |-> Spread(y, Pow2[n - 1])]]
           Is(f) == f = [n \in 0..N |-> IF n = 0 THEN x ELSE Spread(f[n - 1], Pow2[n - 1])]
<1>0. N \in Nat /\ HalfBits \in Nat
  BY DEF SizingAssumption
<1>1. g \in [Nat -> [S -> S]]
  <2>1. \A y, t : Spread(y, t) \in S
    BY <1>0, NumberIsWord DEF Spread, Or
  <2> HIDE DEF S
  <2> QED BY <2>1
<1>2. \A n \in Nat, y \in S : g[n][y] = Spread(y, Pow2[n - 1])
  OBVIOUS
<1>3. \E f : Is(f)
  <2> HIDE DEF S, g, N
  <2>1. x \in S
    BY DEF S
  <2>2. PICK f \in [0..N -> S] : Recurs(f, 0..N, x, g)
    BY <1>0, <1>1, <2>1, RoundsExist
  <2>3. \A n \in 0..N : n # 0 => g[n][f[n - 1]] = Spread(f[n - 1], Pow2[n - 1])
    <3>1. \A n \in 0..N : n # 0 => n \in Nat /\ n - 1 \in 0..N
      BY <1>0
    <3>2. \A n \in 0..N : n # 0 => n \in Nat /\ f[n - 1] \in S
      BY <2>2, <3>1
    <3> QED BY <1>2, <3>2
  <2>4. Is(f)
    BY <2>2, <2>3 DEF Recurs
  <2> QED BY <2>4
<1>4. PICK f : Is(f) /\ Smear(x) = f[N]
  <2>1. Smear(x) = (CHOOSE f : Is(f))[N]
    BY DEF Smear
  <2> HIDE DEF Is
  <2> QED BY <1>3, <2>1
<1>5. f[0] = x /\ \A n \in 1..N : f[n] = Spread(f[n - 1], Pow2[n - 1])
  <2> HIDE DEF N
  <2> QED BY <1>0, <1>4
<1> QED BY <1>4, <1>5

\* The smear: after n steps the highest bit has spread over the 2^n below it.
LEMMA SmearOnes ==
  ASSUME SizingAssumption, NEW e \in 0..(HalfBits - 1), NEW x \in Nat, Pow2[e] <= x, x < Pow2[e + 1]
  PROVE  Smear(x) = Pow2[e + 1] - 1
<1>0. PICK w \in Nat, N \in Nat : w = HalfBits /\ N = SmearSteps /\ w <= Pow2[N]
  BY DEF SizingAssumption
<1>1. x \in 0..(Pow2[w] - 1)
  <2>1. Pow2[e + 1] - 1 \in 0..(Pow2[w] - 1)
    BY <1>0, AllOnes
  <2>2. Pow2[e + 1] \in Nat
    BY PowersOfTwo
  <2>3. Pow2[w] \in Nat
    BY PowersOfTwo
  <2> QED BY <2>1, <2>2, <2>3
<1>2. PICK f : /\ f[0] = x /\ Smear(x) = f[N]
               /\ \A n \in 1..N : f[n] = Spread(f[n - 1], Pow2[n - 1])
  BY <1>0, <1>1, SmearLoop
<1> DEFINE Spreads(n) == /\ f[n] \in 0..(Pow2[w] - 1) /\ BitsOf(f[n], w) \subseteq 0..e
                         /\ \A k \in 0..e : e < k + Pow2[n] => k \in BitsOf(f[n], w)
           T == {n \in 0..N : Spreads(n)}
<1>3. 0 \in T
  <2>1. e \in BitsOf(x, w) /\ BitsOf(x, w) \subseteq 0..e
    BY <1>0, BitsBelow
  <2>2. \A k \in 0..e : e < k + 1 => k = e
    OBVIOUS
  <2> QED BY <1>1, <1>2, <2>1, <2>2, PowersOfTwo
<1>4. ASSUME NEW n \in 0..(N - 1), n \in T PROVE n + 1 \in T
  <2>1. PICK P \in Nat \ {0} : P = Pow2[n] /\ Pow2[n + 1] = 2 * P
    BY PowersOfTwo
  <2>2. n + 1 \in 1..N /\ (n + 1) - 1 = n
    OBVIOUS
  <2>3. PICK y : y = f[n]
    OBVIOUS
  <2>4. /\ y \in 0..(Pow2[w] - 1) /\ BitsOf(y, w) \subseteq 0..e
        /\ \A k \in 0..e : e < k + P => k \in BitsOf(y, w)
    BY <1>4, <2>1, <2>3
  <2>5. f[n + 1] = Spread(y, P)
    BY <1>2, <2>1, <2>2, <2>3
  <2>6. /\ Spread(y, P) \in 0..(Pow2[w] - 1)
        /\ BitsOf(Spread(y, P), w) = BitsOf(y, w) \cup {k \in 0..(w - 1) : k + P \in BitsOf(y, w)}
    <3>1. y \in 0..(Pow2[HalfBits] - 1) /\ P \in Nat /\ HalfBits \in Nat
      BY <1>0, <2>4
    <3>2. /\ Spread(y, P) \in 0..(Pow2[HalfBits] - 1)
          /\ BitsOf(Spread(y, P), HalfBits) =
               BitsOf(y, HalfBits) \cup {k \in 0..(HalfBits - 1) : k + P \in BitsOf(y, HalfBits)}
      BY <3>1, SpreadBits
    <3> QED BY <1>0, <3>2
  <2>7. BitsOf(Spread(y, P), w) \subseteq 0..e
    BY <2>4, <2>6
  <2>8. ASSUME NEW k \in 0..e, e < k + 2 * P PROVE k \in BitsOf(Spread(y, P), w)
    <3>1. CASE e < k + P
      BY <2>4, <2>6, <3>1
    <3>2. CASE ~ (e < k + P)
      <4>1. k + P \in 0..e /\ e < (k + P) + P /\ k \in 0..(w - 1)
        BY <1>0, <2>8, <3>2
      <4> QED BY <2>4, <2>6, <4>1
    <3> QED BY <3>1, <3>2
  <2>9. Spreads(n + 1)
    BY <2>1, <2>5, <2>6, <2>7, <2>8
  <2> QED BY <2>2, <2>9
<1>5. \A n \in 0..N : n \in T
  <2> HIDE DEF T
  <2> QED BY <1>3, <1>4, UpTo
<1>6. PICK z : z = f[N] /\ z \in 0..(Pow2[w] - 1) /\ BitsOf(z, w) = 0..e
  <2>1. Spreads(N)
    BY <1>5
  <2>2. \A k \in 0..e : e < k + Pow2[N]
    BY <1>0, PowersOfTwo
  <2> QED BY <2>1, <2>2
<1>7. PICK u : u = Pow2[e + 1] - 1 /\ u \in 0..(Pow2[w] - 1) /\ BitsOf(u, w) = 0..e
  BY <1>0, AllOnes
<1>8. z = Number(0..e, w) /\ u = Number(0..e, w)
  BY <1>6, <1>7, NumberOfBits
<1> QED BY <1>2, <1>6, <1>7, <1>8

\* The cap: that many blocks, rounded up to a power of two, can be counted in words of
\* 32 bits; and one block more than the cap has no more bits than a request can ask for.
LEMMA CapFits ==
  ASSUME ListSizesAssumption, SizingAssumption
  PROVE  /\ MaxBloomBlocks \in Nat \ {0} /\ BlockBits \in Nat \ {0} /\ BlockWords \in Nat \ {0}
         /\ 2 * (MaxBloomBlocks * BlockWords) <= U32
         /\ (MaxBloomBlocks + 1) * BlockBits <= U64
<1>1. PICK M \in Int, B \in Nat \ {0}, W \in Nat \ {0}, V \in Nat \ {0} :
        M = MaxBloomBlocks /\ B = BlockBits /\ W = BlockWords /\ V = U32
  <2>1. BlockBits \in Nat \ {0} /\ BlockWords \in Nat \ {0} /\ U32 \in Nat \ {0}
    BY DEF SizingAssumption, ListSizesAssumption
  <2>2. 2 * BlockWords \in Nat \ {0} /\ U32 \in Int
    BY <2>1
  <2>3. MaxBloomBlocks \in Int
    BY <2>2, Division DEF MaxBloomBlocks
  <2> QED BY <2>1, <2>3
<1>2. M > 0 /\ B <= V /\ M = V \div (2 * W)
  BY <1>1 DEF SizingAssumption, MaxBloomBlocks
<1>3. (2 * W) * M <= V
  <2>1. PICK d \in Nat \ {0} : d = 2 * W
    OBVIOUS
  <2>2. PICK q \in Nat, r \in 0..(d - 1) : q = V \div d /\ r = V % d /\ V = d * q + r
    BY ONLY V \in Nat, d \in Nat \ {0}, NaturalDivision
  <2>3. M = q
    BY <1>2, <2>1, <2>2
  <2> QED BY <2>1, <2>2, <2>3
<1>4. 2 * (M * W) <= V
  BY <1>3
<1>5. M + 1 <= V
  <2>1. M * (W - 1) >= 0 /\ M * W = M * (W - 1) + M
    BY ONLY <1>2, M \in Int, W \in Nat \ {0}
  <2>2. 2 * M <= V
    <3>1. PICK p \in Int : p = M * W
      OBVIOUS
    <3> QED BY <1>4, <2>1, <3>1
  <2> QED BY <1>2, <2>2
<1>6. (M + 1) * B <= V * V
  <2>1. (V - (M + 1)) * B >= 0 /\ V * (V - B) >= 0
    BY <1>2, <1>5
  <2>2. V * V = (M + 1) * B + (V - (M + 1)) * B + V * (V - B)
    OBVIOUS
  <2> QED BY <2>1, <2>2
<1> QED BY <1>1, <1>2, <1>4, <1>6 DEF U64

\* The blocks needed, for a request that does not wrap.
Needed(bits, B, G, x) ==
  ((bits + B - 1) % G) \div B = x + 1 /\ x * B < bits /\ bits <= (x + 1) * B

LEMMA BlocksNeeded ==
  ASSUME NEW B \in Nat \ {0}, NEW G \in Nat \ {0}, NEW bits \in Nat \ {0}, bits <= G - B
  PROVE  \E x \in Nat : Needed(bits, B, G, x)
<1>1. PICK a \in 0..(G - 1) : a = bits + B - 1
  OBVIOUS
<1>2. a % G = a
  BY SmallRemainder
<1>3. PICK q \in Nat, r \in 0..(B - 1) : q = a \div B /\ r = a % B /\ a = B * q + r
  <2>1. a \in Nat
    OBVIOUS
  <2> QED BY <2>1, NaturalDivision
<1>4. q # 0
  <2>1. SUFFICES ASSUME q = 0 PROVE FALSE
    OBVIOUS
  <2>2. B * q = 0
    BY <2>1
  <2> QED BY <1>1, <1>3, <2>2
<1>5. PICK x \in Nat : q = x + 1
  <2>1. q - 1 \in Nat /\ q = (q - 1) + 1
    BY <1>4
  <2> QED BY <2>1
<1>6. B * q = x * B + B /\ (x + 1) * B = x * B + B
  BY <1>5
<1>7. PICK y \in Int : y = x * B
  OBVIOUS
<1>8. y < bits /\ bits <= y + B
  BY <1>1, <1>3, <1>6, <1>7
<1> QED BY <1>1, <1>2, <1>3, <1>5, <1>6, <1>7, <1>8 DEF Needed

\* A filter is refused exactly when its words could not be counted in 32 bits, and
\* otherwise has the least power of two of blocks that holds the bits asked for, all of
\* them zeroed, however wide the words are.
THEOREM BloomIsSized == Requests => []BloomSized
<1>1. Request => BloomSized
  <2> SUFFICES ASSUME Request PROVE BloomSized
    OBVIOUS
  <2> USE ListSizesAssumption, SizingAssumption
  <2>1. PICK M \in Nat \ {0}, B \in Nat \ {0}, W \in Nat \ {0}, V \in Nat \ {0}, G \in Nat \ {0} :
          /\ M = MaxBloomBlocks /\ B = BlockBits /\ W = BlockWords /\ V = U32 /\ G = U64
          /\ 2 * (M * W) <= V /\ (M + 1) * B <= G
    <3>1. U32 \in Nat \ {0} /\ U64 \in Nat \ {0}
      BY WordIsPower
    <3> QED BY <3>1, CapFits
  <2>2. PICK s \in 0..(G - 1) : s = size
    BY <2>1 DEF Request
  <2>3. (M + 1) * B = M * B + B /\ M * B \in Nat
    OBVIOUS
  <2>4. PICK n : n = RoundBlocks(size)
    OBVIOUS
  <2>5. BloomSized <=> IF n = 0 THEN s = 0 \/ s > M * B
                       ELSE /\ \E e \in 0..HalfBits : n = Pow2[e]
                            /\ s <= n * B
                            /\ n > 1 => s > (n \div 2) * B
                            /\ WordCount(n) = n * W
    BY <2>1, <2>2, <2>4 DEF BloomSized
  <2>6. CASE s = 0 \/ s > G - B
    <3>1. n = 0
      BY <2>1, <2>2, <2>4, <2>6 DEF RoundBlocks
    <3>2. s = 0 \/ s > M * B
      <4>1. PICK y \in Nat : y = M * B /\ y + B <= G
        BY <2>1, <2>3
      <4> QED BY <2>6, <4>1
    <3> QED BY <2>5, <3>1, <3>2
  <2>7. CASE s # 0 /\ s <= G - B
    <3>1. PICK x \in Nat : /\ ((s + B - 1) % G) \div B = x + 1
                           /\ x * B < s /\ s <= (x + 1) * B
      <4>1. s \in Nat \ {0} /\ s <= G - B
        BY <2>7
      <4>2. PICK x \in Nat : Needed(s, B, G, x)
        BY ONLY <4>1, B \in Nat \ {0}, G \in Nat \ {0}, BlocksNeeded
      <4> QED BY <4>2 DEF Needed
    <3>2. n = IF x + 1 > M THEN 0 ELSE IF x + 1 <= 1 THEN 1 ELSE Smear(x) + 1
      <4>1. (x + 1) - 1 = x /\ ~ (s = 0 \/ s > G - B)
        BY <2>7
      <4> QED BY <2>1, <2>2, <2>4, <3>1, <4>1 DEF RoundBlocks
    <3>3. \A k \in Nat : k <= M => k * W <= M * W
      <4> SUFFICES ASSUME NEW k \in Nat, k <= M PROVE k * W <= M * W
        OBVIOUS
      <4>1. (M - k) * W >= 0 /\ M * W = k * W + (M - k) * W
        OBVIOUS
      <4> QED BY <4>1
    <3>4. ASSUME NEW k \in Nat \ {0}, k <= 2 * M - 1 PROVE WordCount(k) = k * W
      <4>1. k * W + W <= 2 * (M * W)
        <5>1. ((2 * M - 1) - k) * W >= 0 /\ 2 * (M * W) = k * W + ((2 * M - 1) - k) * W + W
          BY <3>4
        <5> QED BY <5>1
      <4>2. PICK c \in 0..(V - 1) : c = k * W
        <5>1. k * W \in Nat
          OBVIOUS
        <5>2. PICK y \in Nat, z \in Nat : y = k * W /\ z = M * W
          BY <5>1
        <5> QED BY <2>1, <4>1, <5>2
      <4>3. c % V = c
        BY SmallRemainder
      <4> QED BY <2>1, <4>2, <4>3 DEF WordCount
    <3>5. CASE x + 1 > M
      <4>1. n = 0
        BY <3>2, <3>5
      <4>2. (x - M) * B >= 0 /\ x * B = M * B + (x - M) * B
        BY <3>5
      <4>3. s > M * B
        BY <3>1, <4>2
      <4> QED BY <2>5, <4>1, <4>3
    <3>6. CASE x + 1 <= M /\ x = 0
      <4>1. n = 1
        BY <3>2, <3>6
      <4>2. 0 \in 0..HalfBits /\ n = Pow2[0]
        BY <4>1, PowersOfTwo DEF SizingAssumption
      <4>3. s <= n * B /\ WordCount(n) = n * W /\ ~ (n > 1)
        <5>1. WordCount(1) = 1 * W
          BY <3>4, <3>6
        <5>2. (x + 1) * B = 1 * B
          BY <3>6
        <5> QED BY <3>1, <4>1, <5>1, <5>2
      <4> QED BY <2>5, <4>1, <4>2, <4>3
    <3>7. CASE x + 1 <= M /\ x # 0
      <4>1. PICK w \in Nat : w = HalfBits /\ V = Pow2[w]
        BY <2>1, WordIsPower
      <4>2. x \in 1..(Pow2[w] - 1)
        <5>1. M <= V
          <6>1. M * (W - 1) >= 0 /\ 2 * (M * W) = 2 * (M * (W - 1)) + 2 * M
            OBVIOUS
          <6>2. PICK y \in Nat, z \in Nat : y = M * W /\ z = M * (W - 1)
            OBVIOUS
          <6> QED BY <2>1, <6>1, <6>2
        <5> QED BY <3>7, <4>1, <5>1
      <4>3. PICK e \in 0..(w - 1) : Pow2[e] <= x /\ x < Pow2[e + 1]
        BY <4>2, HighestBit
      <4>4. PICK P \in Nat \ {0} : P = Pow2[e] /\ Pow2[e + 1] = 2 * P
        BY PowersOfTwo
      <4>5. n = 2 * P
        <5>1. Smear(x) = Pow2[e + 1] - 1
          BY <4>1, <4>3, SmearOnes
        <5> QED BY <3>2, <3>7, <4>4, <5>1
      <4>6. e + 1 \in 0..HalfBits /\ n = Pow2[e + 1]
        BY <4>1, <4>4, <4>5
      <4>7. s <= n * B
        <5>1. (2 * P - (x + 1)) * B >= 0 /\ n * B = (x + 1) * B + (2 * P - (x + 1)) * B
          BY <4>3, <4>4, <4>5
        <5> QED BY <3>1, <5>1
      <4>8. s > (n \div 2) * B
        <5>1. n \div 2 = P
          BY <4>5
        <5>2. (x - P) * B >= 0 /\ x * B = P * B + (x - P) * B
          BY <4>3, <4>4
        <5> QED BY <3>1, <5>1, <5>2
      <4>9. WordCount(n) = n * W
        <5>1. n \in Nat \ {0} /\ n <= 2 * M - 1
          BY <3>7, <4>3, <4>4, <4>5
        <5> QED BY <3>4, <5>1
      <4>10. n # 0
        BY <4>5
      <4> QED BY <2>5, <4>6, <4>7, <4>8, <4>9, <4>10
    <3> QED BY <3>5, <3>6, <3>7
  <2> QED BY <2>6, <2>7
<1> QED BY <1>1, AlwaysRequest, PTL

-----------------------------------------------------------------------------
(* The path probe.                                                         *)

Chars == {"/", "c"}

\* q is the first l characters of path.
IsCut(q, path, l) == q \in Seq(Chars) /\ Len(q) = l /\ \A j \in 1..l : q[j] = path[j]

LEMMA SubSeqCuts ==
  ASSUME NEW path \in Seq(Chars), NEW l \in 0..Len(path)
  PROVE  IsCut(SubSeq(path, 1, l), path, l)
<1>1. l \in Int /\ 1 \in Int /\ \A j \in 1..l : path[j] \in Chars
  OBVIOUS
<1>2. /\ SubSeq(path, 1, l) \in Seq(Chars)
      /\ Len(SubSeq(path, 1, l)) = IF 1 <= l THEN l - 1 + 1 ELSE 0
      /\ \A j \in 1..(l - 1 + 1) : SubSeq(path, 1, l)[j] = path[1 + j - 1]
  BY <1>1, SubSeqProperties
<1> QED BY <1>2 DEF IsCut

\* There is one such sequence, and what is cut from it is cut from the path.
LEMMA CutsAgree ==
  ASSUME NEW path \in Seq(Chars), NEW q, NEW r, NEW l \in 0..Len(path),
         IsCut(q, path, l), IsCut(r, path, l)
  PROVE  q = r
BY DEF IsCut

LEMMA CutOfCut ==
  ASSUME NEW path, NEW q, NEW r, NEW l \in Nat, NEW k \in 0..l,
         IsCut(q, path, l), IsCut(r, q, k)
  PROVE  IsCut(r, path, k)
BY DEF IsCut

\* The components of what is cut are those that begin before the cut.
LEMMA StartsOfCut ==
  ASSUME NEW path \in Seq(Chars), NEW l \in 0..Len(path), NEW q, IsCut(q, path, l)
  PROVE  Starts(q) = {j \in Starts(path) : j <= l}
<1>1. DOMAIN q = 1..l /\ DOMAIN path = 1..Len(path)
  BY DEF IsCut
<1>2. ASSUME NEW j \in 1..l PROVE j \in Starts(q) <=> j \in Starts(path)
  <2>1. q[j] = path[j] /\ (j = 1 \/ q[j - 1] = path[j - 1])
    BY DEF IsCut
  <2> QED BY <1>1, <2>1 DEF Starts
<1> QED BY <1>1, <1>2 DEF Starts

\* There are finitely many.
LEMMA ComponentsCounted ==
  ASSUME NEW path \in Seq(Chars)
  PROVE  /\ IsFiniteSet(Starts(path)) /\ Components(path) \in 0..Len(path)
         /\ Components(path) = 0 <=> Starts(path) = {}
<1>1. PICK n \in Nat : n = Len(path) /\ Starts(path) \in SUBSET (1..n)
  BY DEF Starts
<1>2. IsFiniteSet(1..n) /\ Cardinality(1..n) = n
  BY FS_Interval
<1>3. IsFiniteSet(Starts(path)) /\ Cardinality(Starts(path)) <= n
  BY <1>1, <1>2, FS_Subset
<1>4. Cardinality(Starts(path)) \in Nat
  BY <1>3, FS_CardinalityType
<1> QED BY <1>1, <1>3, <1>4, FS_EmptySet DEF Components

\* The backward scan stops at `least`, or at the first character of the other kind.
Backed(path, len, least, slash, b) ==
  /\ b \in 0..len /\ (least <= len => least <= b) /\ (len <= least => b = len)
  /\ \A m \in (b + 1)..len : path[m] = "/" <=> slash
  /\ least < b => ~ (path[b] = "/" <=> slash)

LEMMA BackStops ==
  ASSUME NEW path \in Seq(Chars), NEW len \in 0..Len(path), NEW least \in Nat,
         NEW slash \in BOOLEAN
  PROVE  Backed(path, len, least, slash, Back(path, len, least, slash))
<1>1. CASE len <= least
  BY <1>1 DEF Back, Backed
<1>2. CASE ~ (len <= least)
  <2> DEFINE T == {b \in least..len : \A m \in (b + 1)..len : (path[m] = "/") = slash}
  <2>1. len \in T /\ T \subseteq Nat
    BY <1>2
  <2>2. \E b \in T : \A c \in T : b <= c
    <3> HIDE DEF T
    <3> QED BY <2>1, LeastNatural
  <2>3. PICK b \in T : b = Back(path, len, least, slash) /\ \A c \in T : b <= c
    <3>1. Back(path, len, least, slash) = Min(T)
      BY <1>2 DEF Back
    <3> HIDE DEF T
    <3> QED BY <2>2, <3>1 DEF Min
  <2>4. ASSUME least < b PROVE (path[b] = "/") # slash
    <3>1. SUFFICES ASSUME (path[b] = "/") = slash PROVE FALSE
      OBVIOUS
    <3>2. b - 1 \in least..len
      BY <2>4
    <3>3. \A m \in ((b - 1) + 1)..len : m = b \/ m \in (b + 1)..len
      OBVIOUS
    <3>4. b - 1 \in T
      BY <3>1, <3>2, <3>3
    <3> QED BY <2>3, <3>4
  <2> QED BY <1>2, <2>3, <2>4 DEF Backed
<1> QED BY <1>1, <1>2

\* The last component goes, with its slashes, and nothing else; and the slash of the
\* root stays.
LEMMA OneComponentLess ==
  ASSUME NEW path \in Seq(Chars), Components(path) > 0
  PROVE  \E l \in 0..(Len(path) - 1) :
           /\ IsCut(DropLast(path), path, l)
           /\ Components(DropLast(path)) = Components(path) - 1
           /\ l = 0 => path[1] # "/"
<1>0. PICK n \in Nat : n = Len(path) /\ DOMAIN path = 1..n
  OBVIOUS
<1>1. PICK j \in 1..n : j \in Starts(path) /\ path[j] # "/"
  <2>1. Starts(path) # {}
    BY ComponentsCounted
  <2> QED BY <1>0, <2>1 DEF Starts
<1>2. PICK l1 \in 0..n : l1 = Back(path, n, 0, TRUE) /\ Backed(path, n, 0, TRUE, l1)
  <2>1. n \in 0..Len(path) /\ 0 \in Nat /\ TRUE \in BOOLEAN
    BY <1>0
  <2>2. Backed(path, n, 0, TRUE, Back(path, n, 0, TRUE))
    BY <2>1, BackStops
  <2> QED BY <2>2 DEF Backed
<1>3. l1 > 0 /\ path[l1] # "/" /\ \A m \in (l1 + 1)..n : path[m] = "/"
  <2>1. \A m \in (l1 + 1)..n : path[m] = "/"
    BY <1>2 DEF Backed
  <2>2. ~ (l1 < j)
    BY <1>1, <2>1
  <2>3. l1 > 0
    BY <2>2
  <2>4. path[l1] # "/"
    BY <1>2, <2>3 DEF Backed
  <2> QED BY <2>1, <2>3, <2>4
<1>4. PICK l2 \in 0..l1 : l2 = Back(path, l1, 0, FALSE) /\ Backed(path, l1, 0, FALSE, l2)
  <2>1. l1 \in 0..Len(path) /\ 0 \in Nat /\ FALSE \in BOOLEAN
    BY <1>0
  <2>2. Backed(path, l1, 0, FALSE, Back(path, l1, 0, FALSE))
    BY <2>1, BackStops
  <2> QED BY <2>2 DEF Backed
<1>5. /\ l2 < l1 /\ \A m \in (l2 + 1)..l1 : path[m] # "/"
      /\ l2 = 0 \/ path[l2] = "/"
  <2>1. \A m \in (l2 + 1)..l1 : path[m] # "/"
    BY <1>4 DEF Backed
  <2>2. l2 = 0 \/ path[l2] = "/"
    <3>1. 0 < l2 => path[l2] = "/"
      BY <1>4 DEF Backed
    <3> QED BY <3>1
  <2> QED BY <1>3, <2>1, <2>2
<1>6. PICK l3 \in 0..l2 : l3 = Back(path, l2, 1, TRUE) /\ Backed(path, l2, 1, TRUE, l3)
  <2>1. l2 \in 0..Len(path) /\ 1 \in Nat /\ TRUE \in BOOLEAN
    BY <1>0
  <2>2. Backed(path, l2, 1, TRUE, Back(path, l2, 1, TRUE))
    BY <2>1, BackStops
  <2> QED BY <2>2 DEF Backed
<1>7. (l3 = 0 => l2 = 0) /\ \A m \in (l3 + 1)..l2 : path[m] = "/"
  <2>1. (1 <= l2 => 1 <= l3) /\ \A m \in (l3 + 1)..l2 : path[m] = "/"
    BY <1>6 DEF Backed
  <2> QED BY <2>1
<1>8. l3 \in 0..(n - 1) /\ (l3 = 0 => path[1] # "/")
  <2>1. l2 + 1 \in (l2 + 1)..l1
    BY <1>5
  <2> QED BY <1>5, <1>7, <2>1
<1>9. PICK q : q = DropLast(path) /\ IsCut(q, path, l3)
  <2>1. DropLast(path) = SubSeq(path, 1, l3)
    BY <1>0, <1>2, <1>4, <1>6 DEF DropLast
  <2>2. l3 \in 0..Len(path)
    BY <1>0
  <2>3. IsCut(SubSeq(path, 1, l3), path, l3)
    BY <2>2, SubSeqCuts
  <2> QED BY <2>1, <2>3
<1>10. Starts(q) = Starts(path) \ {l2 + 1} /\ l2 + 1 \in Starts(path)
  <2>1. l2 + 1 \in Starts(path)
    BY <1>0, <1>5 DEF Starts
  <2>2. ASSUME NEW k \in Starts(path), k > l3, k # l2 + 1 PROVE FALSE
    <3>1. k \in 1..n /\ path[k] # "/" /\ (k = 1 \/ path[k - 1] = "/")
      BY <1>0 DEF Starts
    <3>2. k \notin (l3 + 1)..l2 /\ k \notin (l1 + 1)..n
      BY <1>3, <1>7, <3>1
    <3>3. k - 1 \in (l2 + 1)..l1 /\ k # 1
      BY <2>2, <3>1, <3>2
    <3> QED BY <1>5, <3>1, <3>3
  <2>3. Starts(q) = {k \in Starts(path) : k <= l3}
    BY <1>0, <1>9, StartsOfCut
  <2>4. Starts(path) \subseteq Nat
    BY <1>0 DEF Starts
  <2>5. \A k \in Starts(path) : k <= l3 <=> k # l2 + 1
    <3> TAKE k \in Starts(path)
    <3>1. k \in Nat
      BY <2>4
    <3>2. k = l2 + 1 => ~ (k <= l3)
      OBVIOUS
    <3> QED BY <2>2, <3>1, <3>2
  <2> QED BY ONLY <2>1, <2>3, <2>5
<1>11. Components(q) = Components(path) - 1
  <2>1. IsFiniteSet(Starts(path))
    BY ComponentsCounted
  <2>2. PICK b : b = l2 + 1
    OBVIOUS
  <2>3. Cardinality(Starts(path) \ {b}) =
          IF b \in Starts(path) THEN Cardinality(Starts(path)) - 1 ELSE Cardinality(Starts(path))
    BY ONLY <2>1, FS_RemoveElement
  <2> QED BY ONLY <1>10, <2>2, <2>3 DEF Components
<1> QED BY <1>0, <1>8, <1>9, <1>11

\* Where the loop is when it has gone n rounds: a first part of the path, with the
\* components the OS knows or n fewer than the path has, never fewer than it knows.
Probing(q, path, known, n) ==
  /\ \E l \in 0..Len(path) : IsCut(q, path, l)
  /\ Components(q) <= known \/ Components(q) <= Components(path) - n
  /\ IF Components(path) <= known THEN q = path ELSE Components(q) >= known
  /\ q = << >> => path = << >> \/ path[1] # "/"

LEMMA ProbingStarts ==
  ASSUME NEW path \in Seq(Chars), NEW known \in Nat
  PROVE  Probing(path, path, known, 0)
<1>1. IsCut(path, path, Len(path)) /\ Len(path) \in 0..Len(path)
  BY DEF IsCut
<1>2. Components(path) \in Nat
  BY ComponentsCounted
<1> QED BY <1>1, <1>2 DEF Probing

LEMMA ProbingRound ==
  ASSUME NEW path \in Seq(Chars), NEW known \in Nat, NEW n \in Nat, NEW q,
         Probing(q, path, known, n)
  PROVE  Probing(Round(q, known), path, known, n + 1)
<1>1. PICK l \in 0..Len(path) : IsCut(q, path, l)
  BY DEF Probing
<1>2. q \in Seq(Chars) /\ Len(q) = l /\ Components(q) \in Nat /\ Components(path) \in Nat
  BY <1>1, ComponentsCounted DEF IsCut
<1>3. CASE Components(q) <= known
  <2>1. Round(q, known) = q
    BY <1>3 DEF Round, Exists
  <2> QED BY <1>3, <2>1 DEF Probing
<1>4. CASE ~ (Components(q) <= known)
  <2>1. q # << >> /\ Components(q) > 0 /\ Components(q) > known
    <3>1. Components(q) > 0
      BY <1>2, <1>4
    <3> QED BY <1>2, <1>4, <3>1, ComponentsCounted
  <2>2. PICK r : r = Round(q, known) /\ r = DropLast(q)
    BY <1>4, <2>1 DEF Round, Exists
  <2>3. PICK k \in 0..(l - 1) : /\ IsCut(r, q, k) /\ Components(r) = Components(q) - 1
                                /\ k = 0 => q[1] # "/"
    BY <1>2, <2>1, <2>2, OneComponentLess
  <2>4. IsCut(r, path, k) /\ k \in 0..Len(path) /\ k \in 0..l
    BY <1>1, <2>3, CutOfCut
  <2>5. r = << >> => path[1] # "/"
    <3>1. r = << >> => k = 0
      BY <2>3 DEF IsCut
    <3>2. 1 \in 1..l
      BY <2>3
    <3>3. q[1] = path[1]
      BY <1>1, <3>2 DEF IsCut
    <3> QED BY <2>3, <3>1, <3>3
  <2>6. ~ (Components(path) <= known)
    BY <1>4 DEF Probing
  <2>7. Components(q) <= Components(path) - n
    BY <1>4 DEF Probing
  <2>8. Components(r) >= known /\ Components(r) <= Components(path) - (n + 1)
    BY <1>2, <2>1, <2>3, <2>7
  <2> QED BY <2>2, <2>4, <2>5, <2>6, <2>8 DEF Probing
<1> QED BY <1>3, <1>4

\* The loop of Probe.
LEMMA ProbeLoop ==
  ASSUME NEW path \in Seq(Chars), NEW known \in Nat
  PROVE  \E f : /\ f[0] = path /\ Probe(path, known) = f[Len(path)]
                /\ \A n \in 1..Len(path) : f[n] = Round(f[n - 1], known)
<1> DEFINE S == Seq(Chars)
           N == Len(path)
           g == [n \in Nat |-> [q \in S |-> Round(q, known)]]
           Is(f) == f = [n \in 0..N |-> IF n = 0 THEN path ELSE Round(f[n - 1], known)]
<1>0. N \in Nat
  OBVIOUS
<1>1. g \in [Nat -> [S -> S]]
  <2>1. ASSUME NEW q \in S PROVE Round(q, known) \in S
    <3>1. Probing(Round(q, known), q, known, 0 + 1)
      BY ProbingStarts, ProbingRound, 0 \in Nat
    <3> QED BY <3>1 DEF Probing, IsCut
  <2> HIDE DEF S
  <2> QED BY <2>1
<1>2. \A n \in Nat, q \in S : g[n][q] = Round(q, known)
  OBVIOUS
<1>3. \E f : Is(f)
  <2> HIDE DEF S, g, N
  <2>1. path \in S
    BY DEF S
  <2>2. PICK f \in [0..N -> S] : Recurs(f, 0..N, path, g)
    BY <1>0, <1>1, <2>1, RoundsExist
  <2>3. \A n \in 0..N : n # 0 => g[n][f[n - 1]] = Round(f[n - 1], known)
    <3>1. \A n \in 0..N : n # 0 => n \in Nat /\ n - 1 \in 0..N
      BY <1>0
    <3>2. \A n \in 0..N : n # 0 => n \in Nat /\ f[n - 1] \in S
      BY <2>2, <3>1
    <3> QED BY <1>2, <3>2
  <2>4. Is(f)
    BY <2>2, <2>3 DEF Recurs
  <2> QED BY <2>4
<1>4. PICK f : Is(f) /\ Probe(path, known) = f[N]
  <2>1. Probe(path, known) = (CHOOSE f : Is(f))[N]
    BY DEF Probe
  <2> HIDE DEF Is
  <2> QED BY <1>3, <2>1
<1>5. f[0] = path /\ \A n \in 1..N : f[n] = Round(f[n - 1], known)
  <2> HIDE DEF N
  <2> QED BY <1>0, <1>4
<1> QED BY <1>4, <1>5

\* The prefix of a path that is asked about.
LEMMA ProbeFinds ==
  ASSUME NEW path \in Seq(Chars), NEW known \in Nat
  PROVE  Probing(Probe(path, known), path, known, Len(path))
<1>1. PICK N \in Nat : N = Len(path)
  OBVIOUS
<1>2. PICK f : /\ f[0] = path /\ Probe(path, known) = f[N]
               /\ \A n \in 1..N : f[n] = Round(f[n - 1], known)
  BY <1>1, ProbeLoop
<1> DEFINE T == {n \in 0..N : Probing(f[n], path, known, n)}
<1>3. 0 \in T
  BY <1>2, ProbingStarts
<1>4. ASSUME NEW n \in 0..(N - 1), n \in T PROVE n + 1 \in T
  <2>1. n + 1 \in 1..N /\ (n + 1) - 1 = n /\ n \in Nat
    OBVIOUS
  <2>2. f[n + 1] = Round(f[n], known)
    BY <1>2, <2>1
  <2>3. Probing(Round(f[n], known), path, known, n + 1)
    BY <1>4, <2>1, ProbingRound
  <2> QED BY <2>1, <2>2, <2>3
<1>5. \A n \in 0..N : n \in T
  <2> HIDE DEF T
  <2> QED BY <1>3, <1>4, UpTo
<1> QED BY <1>1, <1>2, <1>5

\* The volume is resolved from the longest prefix of the path that exists, at every
\* length of the path and however much of it exists (rgVmPathSupportsSparse).
THEOREM LongestPrefixIsProbed == Requests => []LongestPrefixProbed
<1>1. Request => LongestPrefixProbed
  <2> SUFFICES ASSUME Request, size = 0, NEW path \in Paths
               PROVE  LET found == Probe(path, blocks)
                      IN  /\ found = SubSeq(path, 1, Len(found))
                          /\ Components(found) =
                               IF Exists(path, blocks) THEN Components(path) ELSE blocks
                          /\ found = << >> => path = << >> \/ path[1] # "/"
    BY DEF LongestPrefixProbed
  <2>1. path \in Seq(Chars)
    BY DEF Paths, Chars
  <2>2. blocks \in Nat
    BY DEF Request
  <2>3. PICK q : q = Probe(path, blocks) /\ Probing(q, path, blocks, Len(path))
    BY <2>1, <2>2, ProbeFinds
  <2>4. PICK l \in 0..Len(path) : IsCut(q, path, l)
    BY <2>3 DEF Probing
  <2>5. q = SubSeq(path, 1, Len(q))
    <3>1. IsCut(SubSeq(path, 1, l), path, l)
      BY <2>1, SubSeqCuts
    <3>2. Len(q) = l
      BY <2>4 DEF IsCut
    <3> QED BY <2>1, <2>4, <3>1, <3>2, CutsAgree
  <2>6. Components(q) \in Nat /\ Components(path) \in 0..Len(path)
    BY <2>1, <2>4, ComponentsCounted DEF IsCut
  <2>7. Components(q) = IF Exists(path, blocks) THEN Components(path) ELSE blocks
    <3>1. CASE Components(path) <= blocks
      BY <2>3, <3>1 DEF Probing, Exists
    <3>2. CASE ~ (Components(path) <= blocks)
      <4>1. Components(q) >= blocks
        BY <2>3, <3>2 DEF Probing
      <4>2. Components(q) <= blocks \/ Components(q) <= Components(path) - Len(path)
        BY <2>3 DEF Probing
      <4>3. Len(path) \in Nat
        BY <2>1
      <4>4. Components(q) <= blocks
        BY <2>2, <2>6, <4>2, <4>3
      <4>5. Components(q) = blocks
        BY <2>2, <2>6, <4>1, <4>4
      <4> QED BY <3>2, <4>5 DEF Exists
    <3> QED BY <3>1, <3>2
  <2>8. q = << >> => path = << >> \/ path[1] # "/"
    BY <2>3 DEF Probing
  <2> QED BY <2>3, <2>5, <2>7, <2>8
<1> QED BY <1>1, AlwaysRequest, PTL

-----------------------------------------------------------------------------
(* The population count.                                                   *)

\* The number with the digits c[0], c[1], ... c[n - 1], of r bits each; with r = 0,
\* their sum.
Value(c, r, n) ==
  LET part[k \in Nat] == IF k = 0 THEN 0 ELSE part[k - 1] + c[k - 1] * Pow2[r * (k - 1)]
  IN  part[n]

LEMMA ProductOfNaturals == \A a, b \in Nat : a * b \in Nat
OBVIOUS

AddsUp(c, r) ==
  /\ Value(c, r, 0) = 0
  /\ \A n \in Nat : /\ Value(c, r, n) \in Nat
                    /\ Value(c, r, n + 1) = Value(c, r, n) + c[n] * Pow2[r * n]

LEMMA ValueStep ==
  ASSUME NEW c \in [Nat -> Nat], NEW r \in Nat
  PROVE  AddsUp(c, r)
<1> DEFINE t == [k \in Nat |-> IF k = 0 THEN 0 ELSE c[k - 1] * Pow2[r * (k - 1)]]
           g == [k \in Nat |-> [x \in Nat |-> x + t[k]]]
           Is(f) == f = [k \in Nat |-> IF k = 0 THEN 0
                                       ELSE f[k - 1] + c[k - 1] * Pow2[r * (k - 1)]]
<1>1. \A n \in Nat : c[n] * Pow2[r * n] \in Nat
  <2> TAKE n \in Nat
  <2>1. PICK x \in Nat, p \in Nat : x = c[n] /\ p = Pow2[r * n]
    <3>1. r * n \in Nat
      BY ProductOfNaturals
    <3>2. Pow2[r * n] \in Nat
      BY <3>1, PowersOfTwo
    <3> QED BY <3>2
  <2> QED BY <2>1, ProductOfNaturals
<1>2. t \in [Nat -> Nat] /\ \A n \in Nat : t[n + 1] = c[n] * Pow2[r * n]
  <2>1. \A n \in Nat : n # 0 => n - 1 \in Nat
    OBVIOUS
  <2>2. \A n \in Nat : n + 1 \in Nat /\ n + 1 # 0 /\ (n + 1) - 1 = n
    OBVIOUS
  <2> QED BY ONLY <1>1, <2>1, <2>2, 0 \in Nat
<1>3. \A n \in Nat : n # 0 => t[n] = c[n - 1] * Pow2[r * (n - 1)]
  OBVIOUS
<1> HIDE DEF t
<1>4. g \in [Nat -> [Nat -> Nat]] /\ 0 \in Nat /\ \A n \in Nat, x \in Nat : g[n][x] = x + t[n]
  BY <1>2
<1> HIDE DEF g
<1>5. \E f : Is(f) /\ f \in [Nat -> Nat]
  <2>1. PICK f : Recurs(f, Nat, 0, g)
    BY <1>4, Recursion
  <2>2. f \in [Nat -> Nat]
    BY <1>4, <2>1, Recursion
  <2>3. \A n \in Nat : n # 0 => g[n][f[n - 1]] = f[n - 1] + c[n - 1] * Pow2[r * (n - 1)]
    <3>1. \A n \in Nat : n # 0 => n - 1 \in Nat
      OBVIOUS
    <3>2. \A n \in Nat : n # 0 => f[n - 1] \in Nat
      BY <2>2, <3>1
    <3> QED BY <1>3, <1>4, <3>2
  <2>4. Is(f)
    BY ONLY <2>1, <2>3 DEF Recurs
  <2> QED BY <2>2, <2>4
<1>6. PICK part : Is(part) /\ \A n : Value(c, r, n) = part[n]
  <2> DEFINE P == CHOOSE f : Is(f)
  <2>1. Is(P)
    <3> HIDE DEF Is
    <3> QED BY <1>5
  <2>2. \A n : Value(c, r, n) = P[n]
    BY DEF Value
  <2> HIDE DEF P
  <2> QED BY <2>1, <2>2
<1>7. part[0] = 0 /\ \A n \in Nat : part[n + 1] = part[n] + t[n + 1]
  <2>1. 0 \in Nat /\ \A n \in Nat : n + 1 \in Nat /\ n + 1 # 0 /\ (n + 1) - 1 = n
    OBVIOUS
  <2>2. part[0] = 0
    BY ONLY <1>6, <2>1
  <2>3. \A n \in Nat : part[n + 1] = part[n] + c[n] * Pow2[r * n]
    BY ONLY <1>6, <2>1
  <2> QED BY <1>2, <2>2, <2>3
<1> HIDE DEF Is
<1> DEFINE T == {n \in Nat : part[n] \in Nat}
<1>8. 0 \in T /\ \A n \in Nat : n \in T => n + 1 \in T
  <2>1. ASSUME NEW n \in Nat, part[n] \in Nat PROVE part[n + 1] \in Nat
    <3>1. t[n + 1] \in Nat
      BY <1>2
    <3>2. part[n + 1] = part[n] + t[n + 1]
      BY <1>7
    <3> QED BY <2>1, <3>1, <3>2
  <2> QED BY <1>7, <2>1
<1>9. \A n \in Nat : n \in T
  <2> HIDE DEF T
  <2> QED BY <1>8, Upwards
<1>10. \A n \in Nat : part[n] \in Nat /\ part[n + 1] = part[n] + c[n] * Pow2[r * n]
  BY ONLY <1>2, <1>7, <1>9
<1> QED BY ONLY <1>6, <1>7, <1>10 DEF AddsUp

\* It depends on the digits that count only; zeros count for nothing.
SameDigits(c, d, n) == \A k \in 0..(n - 1) : c[k] = d[k]

SameValues(c, d, n) == \A r \in Nat : Value(c, r, n) = Value(d, r, n)

LEMMA ValueSame ==
  ASSUME NEW c \in [Nat -> Nat], NEW d \in [Nat -> Nat], NEW n \in Nat, SameDigits(c, d, n)
  PROVE  SameValues(c, d, n)
<1> SUFFICES ASSUME NEW r \in Nat PROVE Value(c, r, n) = Value(d, r, n)
  BY DEF SameValues
<1> DEFINE T == {k \in 0..n : Value(c, r, k) = Value(d, r, k)}
<1>0. AddsUp(c, r) /\ AddsUp(d, r)
  BY ValueStep
<1>1. 0 \in T
  BY <1>0 DEF AddsUp
<1>2. ASSUME NEW k \in 0..(n - 1), k \in T PROVE k + 1 \in T
  <2>1. k \in Nat /\ k + 1 \in 0..n /\ c[k] = d[k]
    BY DEF SameDigits
  <2> QED BY ONLY <1>0, <1>2, <2>1 DEF AddsUp
<1>3. \A k \in 0..n : k \in T
  <2> HIDE DEF T
  <2> QED BY <1>1, <1>2, UpTo
<1> QED BY <1>3

LEMMA ValueOfZeros ==
  ASSUME NEW c \in [Nat -> Nat], NEW r \in Nat, NEW n \in Nat, \A k \in 0..(n - 1) : c[k] = 0
  PROVE  Value(c, r, n) = 0
<1> DEFINE T == {k \in 0..n : Value(c, r, k) = 0}
<1>0. AddsUp(c, r)
  BY ValueStep
<1>1. 0 \in T
  BY <1>0 DEF AddsUp
<1>2. ASSUME NEW k \in 0..(n - 1), k \in T PROVE k + 1 \in T
  <2>1. k \in Nat /\ c[k] = 0 /\ k + 1 \in 0..n
    OBVIOUS
  <2>2. PICK p \in Nat : p = Pow2[r * k]
    BY <2>1, ProductOfNaturals, PowersOfTwo
  <2>3. Value(c, r, k + 1) = Value(c, r, k) + c[k] * Pow2[r * k]
    BY <1>0, <2>1 DEF AddsUp
  <2>4. Value(c, r, k + 1) = 0 + 0 * p
    BY ONLY <1>2, <2>1, <2>2, <2>3
  <2> QED BY <2>1, <2>4
<1>3. \A k \in 0..n : k \in T
  <2> HIDE DEF T
  <2> QED BY <1>1, <1>2, UpTo
<1> QED BY <1>3

\* It is linear in the digits.
Combines(e, c, a, d, n) == \A k \in 0..(n - 1) : e[k] = c[k] + a * d[k]

Combined(e, c, a, d, n) ==
  \A r \in Nat : Value(e, r, n) = Value(c, r, n) + a * Value(d, r, n)

LEMMA ValueLinear ==
  ASSUME NEW c \in [Nat -> Nat], NEW d \in [Nat -> Nat], NEW e \in [Nat -> Nat], NEW a \in Nat,
         NEW n \in Nat, Combines(e, c, a, d, n)
  PROVE  Combined(e, c, a, d, n)
<1> SUFFICES ASSUME NEW r \in Nat
             PROVE  Value(e, r, n) = Value(c, r, n) + a * Value(d, r, n)
  BY DEF Combined
<1> DEFINE T == {k \in 0..n : Value(e, r, k) = Value(c, r, k) + a * Value(d, r, k)}
<1>0. AddsUp(c, r) /\ AddsUp(d, r) /\ AddsUp(e, r)
  BY ValueStep
<1>1. 0 \in T
  <2>1. 0 = 0 + a * 0 /\ 0 \in 0..n
    OBVIOUS
  <2> QED BY <1>0, <2>1 DEF AddsUp
<1>2. ASSUME NEW k \in 0..(n - 1), k \in T PROVE k + 1 \in T
  <2>1. k \in Nat /\ e[k] = c[k] + a * d[k] /\ k + 1 \in 0..n
    BY DEF Combines
  <2>2. PICK p \in Nat : p = Pow2[r * k]
    BY <2>1, ProductOfNaturals, PowersOfTwo
  <2>3. PICK x \in Nat, y \in Nat : x = Value(c, r, k) /\ y = Value(d, r, k)
    BY <1>0, <2>1 DEF AddsUp
  <2>4. PICK u \in Nat, v \in Nat : u = c[k] /\ v = d[k]
    BY <2>1
  <2>5. /\ Value(c, r, k + 1) = x + u * p /\ Value(d, r, k + 1) = y + v * p
        /\ Value(e, r, k + 1) = (x + a * y) + (u + a * v) * p
    <3>1. Value(e, r, k) = x + a * y /\ e[k] = u + a * v
      BY ONLY <1>2, <2>1, <2>3, <2>4
    <3> QED BY ONLY <1>0, <2>1, <2>2, <2>3, <2>4, <3>1 DEF AddsUp
  <2>6. (x + a * y) + (u + a * v) * p = (x + u * p) + a * (y + v * p)
    BY ONLY x \in Nat, y \in Nat, u \in Nat, v \in Nat, a \in Nat, p \in Nat
  <2> QED BY ONLY <2>1, <2>5, <2>6
<1>3. \A k \in 0..n : k \in T
  <2> HIDE DEF T
  <2> QED BY <1>1, <1>2, UpTo
<1> QED BY <1>3

\* The digits from the a-th on.
From(c, a) == [j \in Nat |-> c[a + j]]

BeginsAt(c, a, d) == d = From(c, a) /\ d \in [Nat -> Nat] /\ \A k \in Nat : d[k] = c[a + k]

LEMMA FromDigits ==
  ASSUME NEW c \in [Nat -> Nat], NEW a \in Nat
  PROVE  BeginsAt(c, a, From(c, a))
<1>1. \A j \in Nat : a + j \in Nat
  OBVIOUS
<1> QED BY <1>1 DEF From, BeginsAt

\* The low digits and the high ones.
Splits(c, r, a, n) ==
  Value(c, r, a + n) = Value(c, r, a) + Pow2[r * a] * Value(From(c, a), r, n)

LEMMA ValueSplit ==
  ASSUME NEW c \in [Nat -> Nat], NEW r \in Nat, NEW a \in Nat, NEW n \in Nat
  PROVE  Splits(c, r, a, n)
<1>0. PICK d \in [Nat -> Nat] : d = From(c, a) /\ \A k \in Nat : d[k] = c[a + k]
  BY FromDigits DEF BeginsAt
<1>1. PICK p \in Nat : p = Pow2[r * a]
  BY ProductOfNaturals, PowersOfTwo
<1>2. AddsUp(c, r) /\ AddsUp(d, r)
  BY ValueStep
<1>3. PICK x \in Nat : x = Value(c, r, a)
  BY <1>2 DEF AddsUp
<1> DEFINE T == {k \in Nat : Value(c, r, a + k) = x + p * Value(d, r, k)}
<1>4. 0 \in T
  <2>1. Value(d, r, 0) = 0 /\ a + 0 = a
    BY <1>2 DEF AddsUp
  <2> QED BY <1>1, <1>3, <2>1
<1>5. ASSUME NEW k \in Nat, k \in T PROVE k + 1 \in T
  <2>1. PICK q \in Nat : q = Pow2[r * k] /\ Pow2[r * (a + k)] = p * q
    <3>1. r * a \in Nat /\ r * k \in Nat /\ r * (a + k) = r * a + r * k
      BY ProductOfNaturals
    <3>2. PICK b \in Nat, e \in Nat : b = r * a /\ e = r * k
      BY <3>1
    <3>3. Pow2[b + e] = Pow2[b] * Pow2[e]
      BY PowerSum
    <3>4. Pow2[e] \in Nat
      BY PowersOfTwo
    <3> QED BY ONLY <1>1, <3>1, <3>2, <3>3, <3>4
  <2>2. PICK y \in Nat, z \in Nat : y = Value(d, r, k) /\ z = d[k]
    BY <1>2 DEF AddsUp
  <2>3. Value(d, r, k + 1) = y + z * q
    BY <1>2, <2>1, <2>2 DEF AddsUp
  <2>4. Value(c, r, a + (k + 1)) = (x + p * y) + z * (p * q)
    <3>1. a + k \in Nat /\ a + (k + 1) = (a + k) + 1 /\ z = c[a + k]
      BY <1>0, <2>2
    <3>2. Value(c, r, (a + k) + 1) = Value(c, r, a + k) + c[a + k] * Pow2[r * (a + k)]
      BY <1>2, <3>1 DEF AddsUp
    <3> QED BY ONLY <1>5, <2>1, <2>2, <3>1, <3>2
  <2>5. (x + p * y) + z * (p * q) = x + p * (y + z * q)
    BY ONLY x \in Nat, y \in Nat, z \in Nat, p \in Nat, q \in Nat
  <2> QED BY ONLY k \in Nat, k + 1 \in Nat, <2>3, <2>4, <2>5
<1>6. \A k \in Nat : k \in T
  <2> HIDE DEF T
  <2> QED BY <1>4, <1>5, Upwards
<1> QED BY <1>0, <1>1, <1>3, <1>6 DEF Splits

\* Digits taken s at a time are digits of r * s bits.
Chunks(c, r, s) == [k \in Nat |-> Value(From(c, s * k), r, s)]

HasChunks(c, r, s) ==
  /\ Chunks(c, r, s) \in [Nat -> Nat]
  /\ \A k \in Nat : Chunks(c, r, s)[k] = Value(From(c, s * k), r, s)

LEMMA ChunkDigits ==
  ASSUME NEW c \in [Nat -> Nat], NEW r \in Nat, NEW s \in Nat
  PROVE  HasChunks(c, r, s)
<1>1. ASSUME NEW k \in Nat PROVE Value(From(c, s * k), r, s) \in Nat
  <2>1. PICK a \in Nat : a = s * k
    BY ProductOfNaturals
  <2>2. From(c, a) \in [Nat -> Nat]
    BY FromDigits DEF BeginsAt
  <2>3. AddsUp(From(c, a), r)
    BY <2>2, ValueStep
  <2> QED BY <2>1, <2>3 DEF AddsUp
<1> QED BY <1>1 DEF Chunks, HasChunks

InChunks(c, r, s, n) == Value(c, r, s * n) = Value(Chunks(c, r, s), r * s, n)

LEMMA ValueInChunks ==
  ASSUME NEW c \in [Nat -> Nat], NEW r \in Nat, NEW s \in Nat, NEW n \in Nat
  PROVE  InChunks(c, r, s, n)
<1>0. PICK d \in [Nat -> Nat] :
        d = Chunks(c, r, s) /\ \A k \in Nat : d[k] = Value(From(c, s * k), r, s)
  <2>1. HasChunks(c, r, s)
    BY ChunkDigits
  <2> QED BY ONLY <2>1 DEF HasChunks
<1>1. PICK t \in Nat : t = r * s
  BY ProductOfNaturals
<1>2. AddsUp(c, r) /\ AddsUp(d, t)
  BY ValueStep
<1> DEFINE T == {k \in Nat : Value(c, r, s * k) = Value(d, t, k)}
<1>3. 0 \in T
  <2>1. s * 0 = 0
    OBVIOUS
  <2>2. Value(c, r, 0) = 0 /\ Value(d, t, 0) = 0
    BY <1>2 DEF AddsUp
  <2> QED BY <2>1, <2>2
<1>4. ASSUME NEW k \in Nat, k \in T PROVE k + 1 \in T
  <2>1. PICK a \in Nat : a = s * k /\ s * (k + 1) = a + s /\ r * a = t * k
    <3>1. s * k \in Nat /\ s * (k + 1) = s * k + s /\ r * (s * k) = (r * s) * k
      BY ProductOfNaturals
    <3> QED BY <1>1, <3>1
  <2>2. Value(c, r, a + s) = Value(c, r, a) + Pow2[r * a] * Value(From(c, a), r, s)
    <3>1. Splits(c, r, a, s)
      BY ValueSplit
    <3> QED BY <3>1 DEF Splits
  <2>3. Value(d, t, k + 1) = Value(d, t, k) + d[k] * Pow2[t * k]
    BY <1>2 DEF AddsUp
  <2>4. PICK p \in Nat, z \in Nat : p = Pow2[r * a] /\ z = d[k] /\ z = Value(From(c, a), r, s)
    <3>1. d[k] = Value(From(c, a), r, s) /\ d[k] \in Nat
      BY <1>0, <2>1
    <3>2. r * a \in Nat
      BY ProductOfNaturals
    <3> QED BY <3>1, <3>2, PowersOfTwo
  <2>5. p * z = z * p
    OBVIOUS
  <2> QED BY ONLY k + 1 \in Nat, <1>4, <2>1, <2>2, <2>3, <2>4, <2>5
<1>5. \A k \in Nat : k \in T
  <2> HIDE DEF T
  <2> QED BY <1>3, <1>4, Upwards
<1> QED BY <1>0, <1>1, <1>5 DEF InChunks

\* Every other digit, and two at a time.
Even(c)     == [k \in Nat |-> c[2 * k]]
Odd(c)      == [k \in Nat |-> c[2 * k + 1]]
Pairs(c, a) == [k \in Nat |-> c[2 * k] + a * c[2 * k + 1]]

LEMMA EvenOddDigits ==
  ASSUME NEW c \in [Nat -> Nat]
  PROVE  /\ Even(c) \in [Nat -> Nat] /\ Odd(c) \in [Nat -> Nat]
         /\ \A k \in Nat : Even(c)[k] = c[2 * k] /\ Odd(c)[k] = c[2 * k + 1]
<1>1. \A k \in Nat : 2 * k \in Nat /\ 2 * k + 1 \in Nat
  OBVIOUS
<1> QED BY <1>1 DEF Even, Odd

LEMMA PairDigits ==
  ASSUME NEW c \in [Nat -> Nat], NEW a \in Nat
  PROVE  /\ Pairs(c, a) \in [Nat -> Nat]
         /\ \A k \in Nat : Pairs(c, a)[k] = Even(c)[k] + a * Odd(c)[k]
<1>1. ASSUME NEW k \in Nat
      PROVE  c[2 * k] \in Nat /\ c[2 * k + 1] \in Nat /\ c[2 * k] + a * c[2 * k + 1] \in Nat
  <2>1. PICK x \in Nat, y \in Nat : x = c[2 * k] /\ y = c[2 * k + 1]
    OBVIOUS
  <2>2. a * y \in Nat
    BY ProductOfNaturals
  <2> QED BY <2>1, <2>2
<1> QED BY <1>1 DEF Even, Odd, Pairs

LEMMA ValueInPairs ==
  ASSUME NEW c \in [Nat -> Nat], NEW r \in Nat, NEW n \in Nat
  PROVE  Value(c, r, 2 * n) = Value(Pairs(c, Pow2[r]), r * 2, n)
<1>1. ASSUME NEW k \in Nat PROVE Pairs(c, Pow2[r])[k] = Chunks(c, r, 2)[k]
  <2>1. PICK a \in Nat : a = 2 * k
    OBVIOUS
  <2>2. PICK p \in Nat : p = Pow2[r]
    BY PowersOfTwo
  <2>3. PICK e \in [Nat -> Nat] : e = From(c, a) /\ \A j \in Nat : e[j] = c[a + j]
    BY FromDigits DEF BeginsAt
  <2>4. e[0] = c[a] /\ e[1] = c[a + 1]
    <3>1. a + 0 = a /\ 0 \in Nat /\ 1 \in Nat
      OBVIOUS
    <3> QED BY <2>3, <3>1
  <2>5. PICK x \in Nat, y \in Nat : x = e[0] /\ y = e[1]
    OBVIOUS
  <2>6. AddsUp(e, r)
    BY ValueStep
  <2>7. Value(e, r, 1) = x
    <3>1. Value(e, r, 0) = 0 /\ Value(e, r, 0 + 1) = Value(e, r, 0) + e[0] * Pow2[r * 0]
      BY <2>6, 0 \in Nat DEF AddsUp
    <3>2. r * 0 = 0 /\ 0 + 1 = 1 /\ 0 + x * 1 = x
      OBVIOUS
    <3> QED BY <2>5, <3>1, <3>2, PowersOfTwo
  <2>8. Value(e, r, 2) = x + y * p
    <3>1. Value(e, r, 1 + 1) = Value(e, r, 1) + e[1] * Pow2[r * 1]
      BY <2>6, 1 \in Nat DEF AddsUp
    <3>2. r * 1 = r /\ 1 + 1 = 2
      OBVIOUS
    <3> QED BY <2>2, <2>5, <2>7, <3>1, <3>2
  <2>9. Chunks(c, r, 2)[k] = Value(e, r, 2)
    <3>1. HasChunks(c, r, 2)
      BY ChunkDigits, 2 \in Nat
    <3> QED BY <2>1, <2>3, <3>1 DEF HasChunks
  <2>10. Pairs(c, Pow2[r])[k] = x + p * y
    BY <2>1, <2>2, <2>4, <2>5 DEF Pairs
  <2>11. y * p = p * y
    OBVIOUS
  <2> QED BY ONLY <2>8, <2>9, <2>10, <2>11
<1>2. PICK d \in [Nat -> Nat], e \in [Nat -> Nat], t \in Nat :
        d = Pairs(c, Pow2[r]) /\ e = Chunks(c, r, 2) /\ t = r * 2
  <2>1. Pow2[r] \in Nat /\ r * 2 \in Nat
    BY PowersOfTwo
  <2>2. HasChunks(c, r, 2)
    BY ChunkDigits, 2 \in Nat
  <2>3. Pairs(c, Pow2[r]) \in [Nat -> Nat]
    BY <2>1, PairDigits
  <2> QED BY <2>1, <2>2, <2>3 DEF HasChunks
<1>3. SameDigits(d, e, n)
  BY <1>1, <1>2 DEF SameDigits
<1>4. Value(d, t, n) = Value(e, t, n)
  <2>1. SameValues(d, e, n)
    BY <1>3, ValueSame
  <2> QED BY <2>1 DEF SameValues
<1>5. InChunks(c, r, 2, n)
  BY ValueInChunks, 2 \in Nat
<1> QED BY ONLY <1>2, <1>4, <1>5 DEF InChunks

\* Digits that fit their places make a number that fits.
Fit(c, r, n) == \A k \in 0..(n - 1) : c[k] < Pow2[r]

LEMMA ValueBound ==
  ASSUME NEW c \in [Nat -> Nat], NEW r \in Nat, NEW n \in Nat, Fit(c, r, n)
  PROVE  Value(c, r, n) < Pow2[r * n]
<1>0. PICK R \in Nat \ {0} : R = Pow2[r]
  BY PowersOfTwo
<1>1. AddsUp(c, r)
  BY ValueStep
<1> DEFINE T == {k \in 0..n : Value(c, r, k) < Pow2[r * k]}
<1>2. 0 \in T
  <2>1. r * 0 = 0
    OBVIOUS
  <2> QED BY <1>1, <2>1, PowersOfTwo DEF AddsUp
<1>3. ASSUME NEW k \in 0..(n - 1), k \in T PROVE k + 1 \in T
  <2>1. k \in Nat /\ k + 1 \in 0..n
    OBVIOUS
  <2>2. PICK p \in Nat \ {0} : p = Pow2[r * k] /\ Pow2[r * (k + 1)] = p * R
    <3>1. PICK b \in Nat : b = r * k /\ r * (k + 1) = b + r
      BY <2>1, ProductOfNaturals
    <3>2. Pow2[b + r] = Pow2[b] * Pow2[r]
      BY PowerSum
    <3>3. Pow2[b] \in Nat \ {0}
      BY PowersOfTwo
    <3> QED BY ONLY <1>0, <3>1, <3>2, <3>3
  <2>3. PICK x \in Nat, z \in Nat : x = Value(c, r, k) /\ z = c[k] /\ z < R
    BY <1>0, <1>1, <2>1 DEF AddsUp, Fit
  <2>4. Value(c, r, k + 1) = x + z * p
    BY <1>1, <2>1, <2>2, <2>3 DEF AddsUp
  <2>5. x < p
    BY <1>3, <2>2, <2>3
  <2>6. x + z * p < p * R
    <3>1. (R - 1 - z) * p >= 0
      <4>1. R - 1 - z \in Nat
        BY <2>3
      <4> QED BY <4>1
    <3>2. p * R = p + z * p + (R - 1 - z) * p
      OBVIOUS
    <3>3. PICK u \in Nat, v \in Int : u = z * p /\ v = (R - 1 - z) * p
      BY ProductOfNaturals
    <3> QED BY ONLY <2>5, <3>1, <3>2, <3>3, x \in Nat, p \in Nat
  <2> QED BY ONLY <2>1, <2>2, <2>4, <2>6
<1>4. \A k \in 0..n : k \in T
  <2> HIDE DEF T
  <2> QED BY <1>2, <1>3, UpTo
<1> QED BY <1>4

\* A number has its digits only.
LEMMA ValueUnique ==
  ASSUME NEW c \in [Nat -> Nat], NEW d \in [Nat -> Nat], NEW r \in Nat, NEW n \in Nat,
         Fit(c, r, n), Fit(d, r, n), Value(c, r, n) = Value(d, r, n)
  PROVE  SameDigits(c, d, n)
<1>1. AddsUp(c, r) /\ AddsUp(d, r)
  BY ValueStep
<1> DEFINE T == {m \in 0..n : /\ Value(c, r, n - m) = Value(d, r, n - m)
                              /\ \A k \in (n - m)..(n - 1) : c[k] = d[k]}
<1>2. 0 \in T
  OBVIOUS
<1>3. ASSUME NEW m \in 0..(n - 1), m \in T PROVE m + 1 \in T
  <2>1. PICK k \in 0..(n - 1) : k = n - (m + 1) /\ n - m = k + 1
    OBVIOUS
  <2>2. k \in Nat /\ m + 1 \in 0..n /\ \A h \in 0..(k - 1) : h \in 0..(n - 1)
    OBVIOUS
  <2>3. PICK p \in Nat \ {0} : p = Pow2[r * k]
    BY <2>2, ProductOfNaturals, PowersOfTwo
  <2>4. PICK x \in Nat, u \in Nat : x = Value(c, r, k) /\ u = c[k]
    BY <1>1, <2>2 DEF AddsUp
  <2>5. PICK y \in Nat, v \in Nat : y = Value(d, r, k) /\ v = d[k]
    BY <1>1, <2>2 DEF AddsUp
  <2>6. x \in 0..(p - 1) /\ y \in 0..(p - 1)
    <3>1. Fit(c, r, k) /\ Fit(d, r, k)
      BY <2>2 DEF Fit
    <3>2. Value(c, r, k) < Pow2[r * k] /\ Value(d, r, k) < Pow2[r * k]
      BY <2>2, <3>1, ValueBound
    <3> QED BY ONLY <2>3, <2>4, <2>5, <3>2
  <2>7. x + u * p = y + v * p
    <3>1. Value(c, r, k + 1) = Value(d, r, k + 1)
      BY ONLY <1>3, <2>1
    <3> QED BY ONLY <1>1, <2>2, <2>3, <2>4, <2>5, <3>1 DEF AddsUp
  <2>8. x = y /\ u = v
    <3>1. PICK a \in Nat : a = p * u + x
      BY ProductOfNaturals
    <3>2. a = p * v + y
      BY ONLY <2>7, <3>1, p \in Nat, u \in Nat, v \in Nat, x \in Nat, y \in Nat
    <3>3. a \div p = u /\ a % p = x
      BY <2>6, <3>1, Quotient, u \in Int
    <3>4. a \div p = v /\ a % p = y
      BY <2>6, <3>2, Quotient, v \in Int
    <3> QED BY <3>3, <3>4
  <2>9. \A h \in (n - (m + 1))..(n - 1) : h = k \/ h \in (n - m)..(n - 1)
    BY <2>1
  <2>10. c[k] = d[k] /\ Value(c, r, k) = Value(d, r, k)
    BY <2>4, <2>5, <2>8
  <2> QED BY ONLY <1>3, <2>1, <2>2, <2>9, <2>10
<1>4. \A m \in 0..n : m \in T
  <2> HIDE DEF T
  <2> QED BY <1>2, <1>3, UpTo
<1>5. n \in 0..n /\ n - n = 0
  OBVIOUS
<1>6. n \in T
  <2> HIDE DEF T
  <2> QED BY <1>4, <1>5
<1> QED BY <1>5, <1>6 DEF SameDigits

\* A shift to the right drops the lowest digit.
LEMMA ValueShift ==
  ASSUME NEW c \in [Nat -> Nat], NEW r \in Nat, NEW n \in Nat, c[0] < Pow2[r], c[n] = 0
  PROVE  Value(c, r, n) \div Pow2[r] = Value(From(c, 1), r, n)
<1>0. PICK R \in Nat \ {0} : R = Pow2[r]
  BY PowersOfTwo
<1>1. PICK d \in [Nat -> Nat] : d = From(c, 1)
  BY FromDigits, 1 \in Nat DEF BeginsAt
<1>2. AddsUp(c, r) /\ AddsUp(d, r)
  BY ValueStep
<1>3. Value(c, r, n + 1) = Value(c, r, n)
  <2>1. PICK p \in Nat : p = Pow2[r * n]
    BY ProductOfNaturals, PowersOfTwo
  <2>2. Value(c, r, n + 1) = Value(c, r, n) + 0 * p /\ Value(c, r, n) \in Nat
    BY <1>2, <2>1 DEF AddsUp
  <2> QED BY <2>2
<1>4. Value(c, r, 1) = c[0]
  <2>1. Value(c, r, 0) = 0 /\ Value(c, r, 0 + 1) = Value(c, r, 0) + c[0] * Pow2[r * 0]
    BY <1>2, 0 \in Nat DEF AddsUp
  <2>2. PICK x \in Nat : x = c[0]
    OBVIOUS
  <2>3. r * 0 = 0 /\ 0 + 1 = 1 /\ 0 + x * 1 = x
    OBVIOUS
  <2> QED BY ONLY <2>1, <2>2, <2>3, PowersOfTwo
<1>5. PICK y \in Nat : y = Value(d, r, n)
  BY <1>2 DEF AddsUp
<1>6. PICK x \in 0..(R - 1) : x = c[0]
  BY <1>0
<1>7. Value(c, r, n) = R * y + x
  <2>1. Splits(c, r, 1, n)
    BY ValueSplit, 1 \in Nat
  <2>2. 1 + n = n + 1 /\ r * 1 = r /\ x + R * y = R * y + x
    OBVIOUS
  <2> QED BY ONLY <1>0, <1>1, <1>3, <1>4, <1>5, <1>6, <2>1, <2>2 DEF Splits
<1>8. PICK a : a = Value(c, r, n) /\ a = R * y + x
  BY <1>7
<1>9. a \div R = y
  BY ONLY <1>8, R \in Nat \ {0}, y \in Int, x \in 0..(R - 1), Quotient
<1> QED BY <1>0, <1>1, <1>5, <1>8, <1>9

\* A set of bits, as digits of one bit.
Digit(B) == [k \in Nat |-> IF k \in B THEN 1 ELSE 0]

LEMMA DigitOfBit ==
  ASSUME NEW B
  PROVE  Digit(B) \in [Nat -> Nat] /\ \A k \in Nat : Digit(B)[k] = IF k \in B THEN 1 ELSE 0
BY DEF Digit

\* The number with the bits B is the one with these digits.
LEMMA NumberIsValue ==
  ASSUME NEW B, NEW w \in Nat
  PROVE  Number(B, w) = Value(Digit(B), 1, w)
<1>0. PICK c \in [Nat -> Nat] : c = Digit(B) /\ \A k \in Nat : c[k] = IF k \in B THEN 1 ELSE 0
  BY DigitOfBit
<1>1. PICK top : IsTop(top, B, w)
  BY NumberLoop
<1>2. AddsUp(c, 1)
  BY ValueStep, 1 \in Nat
<1>3. PICK V \in Nat : V = Value(c, 1, w)
  BY <1>2 DEF AddsUp
<1> DEFINE T == {n \in 0..w : V = Value(c, 1, w - n) + top[n] * Pow2[w - n]}
<1>4. 0 \in T
  <2>1. PICK p \in Nat : p = Pow2[w]
    BY PowersOfTwo
  <2>2. w - 0 = w /\ V + 0 * p = V /\ 0 \in 0..w
    OBVIOUS
  <2>3. top[0] = 0
    BY <1>1 DEF IsTop
  <2> QED BY ONLY <1>3, <2>1, <2>2, <2>3
<1>5. ASSUME NEW n \in 0..(w - 1), n \in T PROVE n + 1 \in T
  <2>1. PICK k \in 0..(w - 1) : k = w - (n + 1)
    OBVIOUS
  <2>2. w - n = k + 1 /\ n + 1 \in 1..w /\ (n + 1) - 1 = n /\ k \in Nat /\ n \in 0..w
    BY <2>1
  <2>3. PICK p \in Nat \ {0} : p = Pow2[k] /\ Pow2[k + 1] = 2 * p
    BY <2>2, PowersOfTwo
  <2>4. PICK b \in 0..1 : b = c[k] /\ top[n + 1] = 2 * top[n] + b
    <3>1. c[k] = IF k \in B THEN 1 ELSE 0
      BY <1>0, <2>2
    <3>2. top[n + 1] = 2 * top[n] + (IF k \in B THEN 1 ELSE 0)
      BY <1>1, <2>1, <2>2 DEF IsTop
    <3>3. c[k] \in 0..1
      BY <3>1
    <3> QED BY ONLY <3>1, <3>2, <3>3
  <2>5. PICK t \in Nat : t = top[n]
    BY <1>1, <2>2 DEF IsTop
  <2>6. PICK x \in Nat : x = Value(c, 1, k)
    BY <1>2, <2>2 DEF AddsUp
  <2>7. Value(c, 1, k + 1) = x + b * p
    <3>1. 1 * k = k
      BY <2>2
    <3> QED BY <1>2, <2>2, <2>3, <2>4, <2>6, <3>1 DEF AddsUp
  <2>8. V = (x + b * p) + t * (2 * p)
    BY ONLY <1>5, <2>2, <2>3, <2>5, <2>7
  <2>9. V = x + (2 * t + b) * p
    BY ONLY <2>8, x \in Nat, b \in 0..1, p \in Nat, t \in Nat, V \in Nat
  <2> QED BY ONLY <2>1, <2>2, <2>3, <2>4, <2>5, <2>6, <2>9
<1>6. \A n \in 0..w : n \in T
  <2> HIDE DEF T
  <2> QED BY <1>4, <1>5, UpTo
<1>7. w \in 0..w /\ w - w = 0
  OBVIOUS
<1>8. V = Value(c, 1, 0) + top[w] * Pow2[0]
  <2>1. w \in T
    <3> HIDE DEF T
    <3> QED BY <1>6, <1>7
  <2> QED BY <1>7, <2>1
<1>9. PICK t \in Nat : t = top[w] /\ t = Number(B, w)
  BY <1>1, <1>7 DEF IsTop
<1>10. Value(c, 1, 0) = 0
  BY <1>2 DEF AddsUp
<1>11. 0 + t * 1 = t
  OBVIOUS
<1> QED BY ONLY <1>0, <1>3, <1>8, <1>9, <1>10, <1>11, PowersOfTwo

\* What a mask of runs of r bits leaves of a number.
Low(x, r, w) == Number({n \in BitsOf(x, w) : n % (2 * r) < r}, w)

\* Where the mask has ones: in the low half of every 2 * r bits.
LEMMA MaskedPlaces ==
  ASSUME NEW r \in Nat \ {0}, NEW k \in Nat, NEW j \in 0..(r - 1)
  PROVE  ((2 * r) * k + j) % (2 * r) < r /\ ~ (((2 * r) * k + (r + j)) % (2 * r) < r)
<1>1. PICK R \in Nat \ {0} : R = 2 * r
  OBVIOUS
<1>2. PICK a \in Nat : a = R * k
  BY ProductOfNaturals
<1>3. j \in 0..(R - 1) /\ r + j \in 0..(R - 1) /\ k \in Int
  BY <1>1
<1>4. PICK x : x = R * k + j
  OBVIOUS
<1>5. PICK y : y = R * k + (r + j)
  OBVIOUS
<1>6. x % R = j
  BY ONLY R \in Nat \ {0}, <1>3, <1>4, Quotient
<1>7. PICK h \in 0..(R - 1) : h = r + j
  BY <1>3
<1>8. y = R * k + h
  BY <1>5, <1>7
<1>9. y % R = h
  BY ONLY R \in Nat \ {0}, <1>3, <1>8, Quotient
<1> QED BY ONLY <1>1, <1>4, <1>5, <1>6, <1>7, <1>9, j \in 0..(r - 1), r \in Nat

\* A chunk of the masked bits is the even one of two chunks.
LEMMA MaskedChunk ==
  ASSUME NEW r \in Nat \ {0}, NEW k \in Nat, NEW b \in [Nat -> Nat], NEW m \in [Nat -> Nat],
         \A n \in Nat : m[n] = IF n % (2 * r) < r THEN b[n] ELSE 0
  PROVE  Value(From(m, (2 * r) * k), 1, 2 * r) = Value(From(b, (2 * r) * k), 1, r)
<1>1. PICK a \in Nat : a = (2 * r) * k
  BY ProductOfNaturals
<1>2. PICK f \in [Nat -> Nat] : f = From(m, a) /\ \A j \in Nat : f[j] = m[a + j]
  <2>1. BeginsAt(m, a, From(m, a))
    BY FromDigits
  <2> QED BY ONLY <2>1 DEF BeginsAt
<1>3. PICK g \in [Nat -> Nat] : g = From(b, a) /\ \A j \in Nat : g[j] = b[a + j]
  <2>1. BeginsAt(b, a, From(b, a))
    BY FromDigits
  <2> QED BY ONLY <2>1 DEF BeginsAt
<1>4. PICK h \in [Nat -> Nat] : h = From(f, r) /\ \A j \in Nat : h[j] = f[r + j]
  <2>1. BeginsAt(f, r, From(f, r))
    BY FromDigits, r \in Nat
  <2> QED BY ONLY <2>1 DEF BeginsAt
<1>5. ASSUME NEW j \in 0..(r - 1) PROVE f[j] = g[j] /\ h[j] = 0
  <2>1. (a + j) % (2 * r) < r /\ ~ ((a + (r + j)) % (2 * r) < r)
    BY <1>1, MaskedPlaces
  <2>2. j \in Nat /\ r + j \in Nat /\ a + j \in Nat /\ a + (r + j) \in Nat
    OBVIOUS
  <2>3. m[a + j] = b[a + j] /\ m[a + (r + j)] = 0
    BY <2>1, <2>2
  <2> QED BY <1>2, <1>3, <1>4, <2>2, <2>3
<1>6. Value(f, 1, r) = Value(g, 1, r)
  <2>1. SameDigits(f, g, r)
    BY <1>5 DEF SameDigits
  <2>2. SameValues(f, g, r)
    BY <2>1, ValueSame, r \in Nat
  <2> QED BY <2>2, 1 \in Nat DEF SameValues
<1>7. Value(h, 1, r) = 0
  <2>1. \A j \in 0..(r - 1) : h[j] = 0
    BY <1>5
  <2> QED BY <2>1, ValueOfZeros, 1 \in Nat, r \in Nat
<1>8. Splits(f, 1, r, r)
  BY ValueSplit, 1 \in Nat, r \in Nat
<1>9. AddsUp(f, 1)
  BY ValueStep, 1 \in Nat
<1>10. PICK x \in Nat : x = Value(f, 1, r)
  BY <1>9 DEF AddsUp
<1>11. PICK p \in Nat : p = Pow2[1 * r]
  <2>1. 1 * r = r /\ r \in Nat
    OBVIOUS
  <2> QED BY <2>1, PowersOfTwo
<1>12. r + r = 2 * r /\ x + p * 0 = x
  OBVIOUS
<1> QED BY ONLY <1>1, <1>2, <1>3, <1>4, <1>6, <1>7, <1>8, <1>10, <1>11, <1>12 DEF Splits

\* The mask leaves every other digit.
Halved(x, c, r, w, K) == Low(x, r, w) = Value(Even(c), 2 * r, K)

LEMMA LowDigits ==
  ASSUME NEW r \in Nat \ {0}, NEW K \in Nat, NEW w \in Nat, w = (2 * r) * K,
         NEW c \in [Nat -> Nat], Fit(c, r, 2 * K),
         NEW x, x = Value(c, r, 2 * K)
  PROVE  Halved(x, c, r, w, K)
<1>0. r \in Nat /\ 2 * r \in Nat /\ 2 * K \in Nat /\ 1 \in Nat /\ r * (2 * K) = w
  OBVIOUS
<1>1. x \in 0..(Pow2[w] - 1)
  <2>1. PICK n \in Nat : n = 2 * K
    OBVIOUS
  <2>2. Value(c, r, n) < Pow2[r * n]
    BY <1>0, <2>1, ValueBound
  <2>3. AddsUp(c, r)
    BY <1>0, ValueStep
  <2>4. x \in Nat /\ Pow2[w] \in Nat
    BY <2>1, <2>3, PowersOfTwo DEF AddsUp
  <2> QED BY ONLY <1>0, <2>1, <2>2, <2>4, x = Value(c, r, 2 * K)
<1>2. PICK B : B = BitsOf(x, w) /\ Number(B, w) = x
  BY <1>1, NumberOfBits
<1>3. PICK M : M = {n \in B : n % (2 * r) < r} /\ Low(x, r, w) = Number(M, w)
  BY <1>2 DEF Low
<1>4. PICK b \in [Nat -> Nat] : b = Digit(B) /\ \A k \in Nat : b[k] = IF k \in B THEN 1 ELSE 0
  BY DigitOfBit
<1>5. PICK m \in [Nat -> Nat] : m = Digit(M) /\ \A k \in Nat : m[k] = IF k \in M THEN 1 ELSE 0
  BY DigitOfBit
<1>6. \A n \in Nat : m[n] = IF n % (2 * r) < r THEN b[n] ELSE 0
  BY <1>3, <1>4, <1>5
<1>7. PICK e \in [Nat -> Nat] :
        e = Chunks(b, 1, r) /\ \A k \in Nat : e[k] = Value(From(b, r * k), 1, r)
  <2>1. HasChunks(b, 1, r)
    BY ChunkDigits, 1 \in Nat, r \in Nat
  <2> QED BY <2>1 DEF HasChunks
<1>8. PICK d \in [Nat -> Nat] :
        d = Chunks(m, 1, 2 * r) /\ \A k \in Nat : d[k] = Value(From(m, (2 * r) * k), 1, 2 * r)
  <2>1. PICK s \in Nat : s = 2 * r
    BY <1>0
  <2>2. HasChunks(m, 1, s)
    BY ChunkDigits, 1 \in Nat
  <2> QED BY <2>1, <2>2 DEF HasChunks
<1>9. \A k \in Nat : e[k] < Pow2[r]
  <2> TAKE k \in Nat
  <2>1. PICK a \in Nat : a = r * k
    BY <1>0, ProductOfNaturals
  <2>2. PICK f \in [Nat -> Nat] : f = From(b, a) /\ \A j \in Nat : f[j] = b[a + j]
    <3>1. BeginsAt(b, a, From(b, a))
      BY FromDigits
    <3> QED BY <3>1 DEF BeginsAt
  <2>3. Fit(f, 1, r)
    <3>1. \A j \in 0..(r - 1) : j \in Nat /\ a + j \in Nat
      OBVIOUS
    <3>2. Pow2[1] = 2
      <4>1. Pow2[0 + 1] = 2 * Pow2[0] /\ Pow2[0] = 1
        BY PowersOfTwo, 0 \in Nat
      <4>2. 0 + 1 = 1 /\ 2 * 1 = 2
        OBVIOUS
      <4> QED BY ONLY <4>1, <4>2
    <3>3. \A j \in 0..(r - 1) : f[j] = 0 \/ f[j] = 1
      BY <1>4, <2>2, <3>1
    <3>4. 0 < Pow2[1] /\ 1 < Pow2[1]
      BY ONLY <3>2
    <3> QED BY ONLY <3>3, <3>4 DEF Fit
  <2>4. Value(f, 1, r) < Pow2[1 * r]
    BY <2>3, ValueBound, 1 \in Nat, r \in Nat
  <2>5. Pow2[1 * r] = Pow2[r]
    <3>1. 1 * r = r
      OBVIOUS
    <3> QED BY <3>1
  <2>6. e[k] = Value(f, 1, r)
    BY <1>7, <2>1, <2>2
  <2> QED BY ONLY <2>4, <2>5, <2>6
<1>10. Value(e, r, 2 * K) = Value(c, r, 2 * K)
  <2>1. PICK n \in Nat : n = 2 * K
    OBVIOUS
  <2>2. InChunks(b, 1, r, n)
    BY <1>0, ValueInChunks
  <2>3. x = Value(b, 1, w)
    BY <1>2, <1>4, NumberIsValue
  <2>4. 1 * r = r
    OBVIOUS
  <2> QED BY ONLY <1>0, <1>7, <2>1, <2>2, <2>3, <2>4, x = Value(c, r, 2 * K) DEF InChunks
<1>11. \A k \in 0..(2 * K - 1) : e[k] = c[k]
  <2>1. PICK n \in Nat : n = 2 * K
    OBVIOUS
  <2>2. Fit(e, r, n) /\ Fit(c, r, n)
    BY <1>9, <2>1 DEF Fit
  <2>3. Value(e, r, n) = Value(c, r, n)
    BY <1>10, <2>1
  <2>4. SameDigits(e, c, n)
    BY <1>0, <2>2, <2>3, ValueUnique
  <2> QED BY <2>1, <2>4 DEF SameDigits
<1>12. Low(x, r, w) = Value(d, 2 * r, K)
  <2>1. PICK s \in Nat : s = 2 * r
    OBVIOUS
  <2>2. InChunks(m, 1, s, K)
    BY <1>0, ValueInChunks
  <2>3. Number(M, w) = Value(m, 1, w)
    BY <1>5, NumberIsValue
  <2>4. 1 * s = s
    OBVIOUS
  <2> QED BY ONLY <1>3, <1>8, <2>1, <2>2, <2>3, <2>4, w = (2 * r) * K DEF InChunks
<1>13. ASSUME NEW k \in 0..(K - 1) PROVE d[k] = Even(c)[k]
  <2>1. k \in Nat /\ 2 * k \in Nat /\ 2 * k \in 0..(2 * K - 1) /\ (2 * r) * k = r * (2 * k)
    OBVIOUS
  <2>2. d[k] = Value(From(b, (2 * r) * k), 1, r)
    BY <1>6, <1>8, <2>1, MaskedChunk
  <2>3. e[2 * k] = Value(From(b, r * (2 * k)), 1, r)
    BY <1>7, <2>1
  <2>4. Even(c)[k] = c[2 * k]
    BY <2>1 DEF Even
  <2> QED BY ONLY <1>11, <2>1, <2>2, <2>3, <2>4
<1>14. PICK s \in Nat, h \in [Nat -> Nat] : s = 2 * r /\ h = Even(c)
  BY <1>0, EvenOddDigits
<1>15. Value(d, s, K) = Value(h, s, K)
  <2>1. SameDigits(d, h, K)
    BY <1>13, <1>14 DEF SameDigits
  <2>2. SameValues(d, h, K)
    BY <2>1, ValueSame
  <2> QED BY <2>2 DEF SameValues
<1> QED BY <1>12, <1>14, <1>15 DEF Halved

\* Digits of which only N count, and none is above `most`.
Slots(c, most, N) ==
  c \in [Nat -> Nat] /\ \A k \in Nat : c[k] <= most /\ (k >= N => c[k] = 0)

\* The even digits and the odd ones of a number, each in places twice as wide.
LEMMA EvenAndOdd ==
  ASSUME NEW r \in Nat \ {0}, NEW K \in Nat, NEW w \in Nat, w = (2 * r) * K,
         NEW most \in Nat, most < Pow2[r], NEW c, Slots(c, most, 2 * K),
         NEW x, x = Value(c, r, 2 * K)
  PROVE  /\ Low(x, r, w) = Value(Even(c), 2 * r, K)
         /\ Low(x \div Pow2[r], r, w) = Value(Odd(c), 2 * r, K)
<1>1. PICK n \in Nat : n = 2 * K
  OBVIOUS
<1>2. c \in [Nat -> Nat] /\ \A k \in Nat : c[k] < Pow2[r]
  BY PowersOfTwo DEF Slots
<1>3. c[n] = 0 /\ c[0] < Pow2[r] /\ r \in Nat
  BY <1>1, <1>2, 0 \in Nat DEF Slots
<1>4. Low(x, r, w) = Value(Even(c), 2 * r, K)
  <2>1. Fit(c, r, 2 * K)
    BY <1>2 DEF Fit
  <2>2. Halved(x, c, r, w, K)
    BY <1>2, <2>1, LowDigits
  <2> QED BY <2>2 DEF Halved
<1>5. PICK d \in [Nat -> Nat] : d = From(c, 1) /\ \A k \in Nat : d[k] = c[1 + k]
  <2>1. BeginsAt(c, 1, From(c, 1))
    BY <1>2, FromDigits, 1 \in Nat
  <2> QED BY <2>1 DEF BeginsAt
<1>6. PICK y : y = x \div Pow2[r] /\ y = Value(d, r, 2 * K)
  <2>1. Value(c, r, n) \div Pow2[r] = Value(From(c, 1), r, n)
    BY <1>2, <1>3, ValueShift
  <2> QED BY <1>1, <1>5, <2>1
<1>7. Low(y, r, w) = Value(Even(d), 2 * r, K)
  <2>1. Fit(d, r, 2 * K)
    <3>1. \A k \in 0..(2 * K - 1) : k \in Nat /\ 1 + k \in Nat
      OBVIOUS
    <3> QED BY <1>2, <1>5, <3>1 DEF Fit
  <2>2. Halved(y, d, r, w, K)
    BY <1>6, <2>1, LowDigits
  <2> QED BY <2>2 DEF Halved
<1>8. Even(d) = Odd(c)
  <2>1. \A k \in Nat : d[2 * k] = c[2 * k + 1]
    <3>1. \A k \in Nat : 2 * k \in Nat /\ 1 + 2 * k = 2 * k + 1
      OBVIOUS
    <3> QED BY <1>5, <3>1
  <2> QED BY <2>1 DEF Even, Odd
<1> QED BY <1>4, <1>6, <1>7, <1>8

\* Two digits of a pair added up in one place.
AddsPairs(c, a, r, n) ==
  /\ Value(Even(c), r, n) \in Nat /\ Value(Odd(c), r, n) \in Nat
  /\ Value(Pairs(c, a), r, n) = Value(Even(c), r, n) + a * Value(Odd(c), r, n)

LEMMA PairsAdd ==
  ASSUME NEW c \in [Nat -> Nat], NEW a \in Nat, NEW r \in Nat, NEW n \in Nat
  PROVE  AddsPairs(c, a, r, n)
<1>1. PICK even \in [Nat -> Nat], odd \in [Nat -> Nat] : even = Even(c) /\ odd = Odd(c)
  BY EvenOddDigits
<1>2. /\ Pairs(c, a) \in [Nat -> Nat]
      /\ \A k \in Nat : Pairs(c, a)[k] = Even(c)[k] + a * Odd(c)[k]
  BY PairDigits
<1>3. PICK p \in [Nat -> Nat] : p = Pairs(c, a) /\ \A k \in Nat : p[k] = even[k] + a * odd[k]
  BY <1>1, <1>2
<1>4. Combines(p, even, a, odd, n)
  BY <1>3 DEF Combines
<1>5. Value(p, r, n) = Value(even, r, n) + a * Value(odd, r, n)
  <2>1. Combined(p, even, a, odd, n)
    BY <1>4, ValueLinear
  <2> QED BY <2>1 DEF Combined
<1>6. AddsUp(even, r) /\ AddsUp(odd, r)
  BY ValueStep
<1> QED BY <1>1, <1>3, <1>5, <1>6 DEF AddsUp, AddsPairs

\* How large the sums of pairs get, and that they have the same sum.
LEMMA PairSlots ==
  ASSUME NEW most \in Nat, NEW K \in Nat, NEW c, Slots(c, most, 2 * K)
  PROVE  /\ Slots(Pairs(c, 1), 2 * most, K)
         /\ Value(Pairs(c, 1), 0, K) = Value(c, 0, 2 * K)
<1>1. c \in [Nat -> Nat]
  BY DEF Slots
<1>2. PICK p \in [Nat -> Nat] : p = Pairs(c, 1)
  BY <1>1, PairDigits, 1 \in Nat
<1>3. ASSUME NEW k \in Nat PROVE p[k] <= 2 * most /\ (k >= K => p[k] = 0)
  <2>1. 2 * k \in Nat /\ 2 * k + 1 \in Nat /\ (k >= K => 2 * k >= 2 * K /\ 2 * k + 1 >= 2 * K)
    OBVIOUS
  <2>2. PICK x \in Nat, y \in Nat : x = c[2 * k] /\ y = c[2 * k + 1]
    BY <1>1, <2>1
  <2>3. p[k] = x + y
    <3>1. p[k] = x + 1 * y
      BY <1>2, <2>2 DEF Pairs
    <3> QED BY <3>1
  <2>4. x <= most /\ y <= most /\ (k >= K => x = 0 /\ y = 0)
    BY <2>1, <2>2 DEF Slots
  <2> QED BY <2>3, <2>4
<1>4. Value(c, 0, 2 * K) = Value(p, 0, K)
  <2>1. Value(c, 0, 2 * K) = Value(Pairs(c, Pow2[0]), 0 * 2, K)
    BY <1>1, ValueInPairs, 0 \in Nat
  <2>2. 0 * 2 = 0
    OBVIOUS
  <2> QED BY <1>2, <2>1, <2>2, PowersOfTwo
<1> QED BY <1>2, <1>3, <1>4 DEF Slots

\* The bits of a set are counted by the sum of its digits.
LEMMA BitsCounted ==
  ASSUME NEW w \in Nat, NEW B \in SUBSET (0..(w - 1))
  PROVE  Cardinality(B) = Value(Digit(B), 0, w)
<1>1. PICK c \in [Nat -> Nat] : c = Digit(B) /\ \A k \in Nat : c[k] = IF k \in B THEN 1 ELSE 0
  BY DigitOfBit
<1>2. AddsUp(c, 0)
  BY ValueStep, 0 \in Nat
<1>0. \A k \in B : k \in Nat /\ k < w
  OBVIOUS
<1> DEFINE Below(n) == {k \in B : k < n}
           T == {n \in Nat : IsFiniteSet(Below(n)) /\ Cardinality(Below(n)) = Value(c, 0, n)}
<1>3. 0 \in T
  <2>1. Below(0) = {}
    <3>1. \A k \in B : ~ (k < 0)
      BY <1>0
    <3> QED BY <3>1
  <2>2. Value(c, 0, 0) = 0
    BY <1>2 DEF AddsUp
  <2> HIDE DEF Below
  <2> QED BY <2>1, <2>2, FS_EmptySet
<1>4. ASSUME NEW n \in Nat, n \in T PROVE n + 1 \in T
  <2>1. PICK S : S = Below(n) /\ IsFiniteSet(S) /\ Cardinality(S) = Value(c, 0, n)
    BY <1>4
  <2>2. Below(n + 1) = (IF n \in B THEN S \cup {n} ELSE S) /\ n \notin S
    <3>1. \A k \in B : k < n + 1 <=> k < n \/ k = n
      BY <1>0
    <3>2. ~ (n < n)
      OBVIOUS
    <3> QED BY <2>1, <3>1, <3>2
  <2>3. PICK x \in Nat : x = Value(c, 0, n)
    BY <1>2 DEF AddsUp
  <2>4. Value(c, 0, n + 1) = IF n \in B THEN x + 1 ELSE x
    <3>1. Value(c, 0, n + 1) = Value(c, 0, n) + c[n] * Pow2[0 * n]
      BY <1>2 DEF AddsUp
    <3>2. 0 * n = 0 /\ x + 1 * 1 = x + 1 /\ x + 0 * 1 = x
      OBVIOUS
    <3>3. c[n] = IF n \in B THEN 1 ELSE 0
      BY <1>1
    <3> QED BY <2>3, <3>1, <3>2, <3>3, PowersOfTwo
  <2>5. /\ IsFiniteSet(S \cup {n})
        /\ Cardinality(S \cup {n}) = IF n \in S THEN Cardinality(S) ELSE Cardinality(S) + 1
    BY <2>1, FS_AddElement
  <2> HIDE DEF Below
  <2>6. IsFiniteSet(Below(n + 1)) /\ Cardinality(Below(n + 1)) = Value(c, 0, n + 1)
    BY <2>1, <2>2, <2>3, <2>4, <2>5
  <2> QED BY <2>6
<1>5. \A n \in Nat : n \in T
  <2> HIDE DEF T
  <2> QED BY <1>3, <1>4, Upwards
<1>6. Below(w) = B
  BY <1>0
<1> QED BY <1>1, <1>5, <1>6

\* One bit of a pair taken away once: of what the bit was worth, the count is left.
LEMMA FirstSums ==
  ASSUME NEW K \in Nat, NEW w \in Nat, w = 2 * K, NEW c, Slots(c, 1, 2 * K),
         NEW x, x = Value(c, 1, 2 * K)
  PROVE  x - Low(x \div 2, 1, w) = Value(Pairs(c, 1), 2, K)
<1>0. c \in [Nat -> Nat] /\ Pow2[1] = 2
  <2>1. Pow2[0 + 1] = 2 * Pow2[0] /\ Pow2[0] = 1
    BY PowersOfTwo, 0 \in Nat
  <2>2. 0 + 1 = 1 /\ 2 * 1 = 2
    OBVIOUS
  <2>3. Pow2[1] = 2
    BY ONLY <2>1, <2>2
  <2> QED BY <2>3 DEF Slots
<1>1. Low(x \div 2, 1, w) = Value(Odd(c), 2, K)
  <2>1. 1 \in Nat \ {0} /\ 1 \in Nat /\ w = (2 * 1) * K /\ 1 < 2 /\ 2 * 1 = 2
    OBVIOUS
  <2>2. Low(x \div Pow2[1], 1, w) = Value(Odd(c), 2 * 1, K)
    BY <1>0, <2>1, EvenAndOdd
  <2> QED BY ONLY <1>0, <2>1, <2>2
<1>2. x = Value(Pairs(c, 2), 2, K)
  <2>1. Value(c, 1, 2 * K) = Value(Pairs(c, Pow2[1]), 1 * 2, K)
    BY <1>0, ValueInPairs, 1 \in Nat
  <2>2. 1 * 2 = 2
    OBVIOUS
  <2> QED BY ONLY <1>0, <2>1, <2>2, x = Value(c, 1, 2 * K)
<1>3. /\ Value(Even(c), 2, K) \in Nat /\ Value(Odd(c), 2, K) \in Nat
      /\ Value(Pairs(c, 1), 2, K) = Value(Even(c), 2, K) + 1 * Value(Odd(c), 2, K)
  <2>1. AddsPairs(c, 1, 2, K)
    BY <1>0, PairsAdd, 1 \in Nat, 2 \in Nat
  <2> QED BY <2>1 DEF AddsPairs
<1>4. Value(Pairs(c, 2), 2, K) = Value(Even(c), 2, K) + 2 * Value(Odd(c), 2, K)
  <2>1. AddsPairs(c, 2, 2, K)
    BY <1>0, PairsAdd, 2 \in Nat
  <2> QED BY <2>1 DEF AddsPairs
<1> QED BY <1>1, <1>2, <1>3, <1>4

\* Both digits of a pair masked out and added.
LEMMA NextSums ==
  ASSUME NEW r \in Nat \ {0}, NEW K \in Nat, NEW w \in Nat, w = (2 * r) * K,
         NEW most \in Nat, most < Pow2[r], NEW c, Slots(c, most, 2 * K),
         NEW x, x = Value(c, r, 2 * K)
  PROVE  Low(x, r, w) + Low(x \div Pow2[r], r, w) = Value(Pairs(c, 1), 2 * r, K)
<1>1. /\ Low(x, r, w) = Value(Even(c), 2 * r, K)
      /\ Low(x \div Pow2[r], r, w) = Value(Odd(c), 2 * r, K)
  BY EvenAndOdd
<1>2. PICK s \in Nat : s = 2 * r
  OBVIOUS
<1>3. /\ Value(Even(c), s, K) \in Nat /\ Value(Odd(c), s, K) \in Nat
      /\ Value(Pairs(c, 1), s, K) = Value(Even(c), s, K) + 1 * Value(Odd(c), s, K)
  <2>1. c \in [Nat -> Nat]
    BY DEF Slots
  <2>2. AddsPairs(c, 1, s, K)
    BY <2>1, PairsAdd, 1 \in Nat
  <2> QED BY <2>2 DEF AddsPairs
<1>4. PICK a \in Nat, b \in Nat : a = Value(Even(c), s, K) /\ b = Value(Odd(c), s, K)
  BY <1>3
<1>5. a + 1 * b = a + b
  OBVIOUS
<1> QED BY ONLY <1>1, <1>2, <1>3, <1>4, <1>5

\* Every digit added to the next one, and every other sum masked out.
LEMMA LastSums ==
  ASSUME NEW r \in Nat \ {0}, NEW K \in Nat, NEW w \in Nat, w = (2 * r) * K,
         NEW most \in Nat, 2 * most < Pow2[r], NEW c, Slots(c, most, 2 * K),
         NEW x, x = Value(c, r, 2 * K)
  PROVE  Low(x + (x \div Pow2[r]), r, w) = Value(Pairs(c, 1), 2 * r, K)
<1>0. c \in [Nat -> Nat] /\ r \in Nat
  BY DEF Slots
<1>1. PICK n \in Nat : n = 2 * K
  OBVIOUS
<1>2. PICK d \in [Nat -> Nat] : d = From(c, 1) /\ \A k \in Nat : d[k] = c[1 + k]
  <2>1. BeginsAt(c, 1, From(c, 1))
    BY <1>0, FromDigits, 1 \in Nat
  <2> QED BY <2>1 DEF BeginsAt
<1>3. PICK R \in Nat : R = Pow2[r]
  BY <1>0, PowersOfTwo
<1>4. \A k \in Nat : c[k] <= most /\ d[k] <= most
  <2>1. \A k \in Nat : 1 + k \in Nat
    OBVIOUS
  <2> QED BY <1>2, <2>1 DEF Slots
<1>5. x \div R = Value(d, r, n)
  <2>1. c[n] = 0
    BY <1>1 DEF Slots
  <2>2. c[0] < Pow2[r]
    <3>1. PICK z \in Nat : z = c[0] /\ z <= most
      BY <1>0, <1>4, 0 \in Nat
    <3> QED BY <1>3, <3>1
  <2>3. Value(c, r, n) \div Pow2[r] = Value(From(c, 1), r, n)
    BY ONLY n \in Nat, <1>0, <2>1, <2>2, ValueShift
  <2> QED BY <1>1, <1>2, <1>3, <2>3
<1> DEFINE sums == [k \in Nat |-> c[k] + d[k]]
<1>6. PICK e \in [Nat -> Nat] : e = sums /\ \A k \in Nat : e[k] = c[k] + d[k]
  <2>1. \A k \in Nat : c[k] + d[k] \in Nat
    BY <1>0
  <2>2. sums \in [Nat -> Nat]
    BY <2>1
  <2>3. \A k \in Nat : sums[k] = c[k] + d[k]
    OBVIOUS
  <2> HIDE DEF sums
  <2> QED BY <2>2, <2>3
<1>7. Value(e, r, n) = x + (x \div R)
  <2>1. Combines(e, c, 1, d, n)
    <3>1. \A k \in 0..(n - 1) : k \in Nat /\ c[k] \in Nat /\ d[k] \in Nat
      BY <1>0
    <3>2. \A k \in 0..(n - 1) : c[k] + d[k] = c[k] + 1 * d[k]
      BY <3>1
    <3> QED BY <1>6, <3>1, <3>2 DEF Combines
  <2>2. Value(e, r, n) = Value(c, r, n) + 1 * Value(d, r, n)
    <3>1. Combined(e, c, 1, d, n)
      BY <1>0, <2>1, ValueLinear, 1 \in Nat
    <3> QED BY <1>0, <3>1 DEF Combined
  <2>3. PICK a \in Nat, b \in Nat : a = Value(c, r, n) /\ b = Value(d, r, n)
    <3>1. AddsUp(c, r) /\ AddsUp(d, r)
      BY <1>0, ValueStep
    <3> QED BY <3>1 DEF AddsUp
  <2>4. a + 1 * b = a + b
    OBVIOUS
  <2> QED BY ONLY <1>1, <1>5, <2>2, <2>3, <2>4, x = Value(c, r, 2 * K)
<1>8. Fit(e, r, n)
  <2>1. ASSUME NEW k \in 0..(n - 1) PROVE e[k] < R
    <3>0. k \in Nat
      OBVIOUS
    <3>1. PICK y \in Nat, z \in Nat : y = c[k] /\ z = d[k] /\ e[k] = y + z
      <4>1. c[k] \in Nat /\ d[k] \in Nat /\ e[k] = c[k] + d[k]
        BY <1>0, <1>6, <3>0
      <4> QED BY <4>1
    <3>2. y <= most /\ z <= most
      BY <1>4, <3>0, <3>1
    <3> QED BY <1>3, <3>1, <3>2
  <2> QED BY <1>3, <2>1 DEF Fit
<1>9. PICK y : y = x + (x \div R) /\ y = Value(e, r, n)
  BY <1>7
<1>10. Low(y, r, w) = Value(Even(e), 2 * r, K)
  <2>1. Fit(e, r, 2 * K) /\ y = Value(e, r, 2 * K)
    BY <1>1, <1>8, <1>9
  <2>2. Halved(y, e, r, w, K)
    BY ONLY r \in Nat \ {0}, K \in Nat, w \in Nat, w = (2 * r) * K, e \in [Nat -> Nat],
            <2>1, LowDigits
  <2> QED BY <2>2 DEF Halved
<1>11. Even(e) = Pairs(c, 1)
  <2>1. ASSUME NEW k \in Nat PROVE e[2 * k] = c[2 * k] + 1 * c[2 * k + 1]
    <3>1. 2 * k \in Nat /\ 2 * k + 1 \in Nat /\ 1 + 2 * k = 2 * k + 1
      OBVIOUS
    <3>2. e[2 * k] = c[2 * k] + c[2 * k + 1]
      BY <1>2, <1>6, <3>1
    <3>3. PICK z \in Nat : z = c[2 * k + 1]
      BY <1>0, <3>1
    <3>4. 1 * z = z
      OBVIOUS
    <3> QED BY <3>2, <3>3, <3>4
  <2> QED BY <2>1 DEF Even, Pairs
<1> QED BY <1>3, <1>9, <1>10, <1>11

\* What the three rounds of sums leave: in every byte, the count of its bits.
Summed(x, w) ==
  LET x1 == x - Low(x \div 2, 1, w)
      x2 == Low(x1, 2, w) + Low(x1 \div 4, 2, w)
  IN  Low(x2 + (x2 \div 16), 4, w)

CountsBytes(x, y, w, N) ==
  \E f : /\ Slots(f, 8, N) /\ y = Value(f, 8, N)
         /\ Value(f, 0, N) = Cardinality(BitsOf(x, w))

LEMMA BytesCounted ==
  ASSUME NEW N \in Nat, NEW w \in Nat, w = 8 * N, NEW x \in 0..(Pow2[w] - 1)
  PROVE  CountsBytes(x, Summed(x, w), w, N)
<1> DEFINE x1 == x - Low(x \div 2, 1, w)
           x2 == Low(x1, 2, w) + Low(x1 \div 4, 2, w)
           x3 == Low(x2 + (x2 \div 16), 4, w)
<1> HIDE DEF x1, x2, x3
<1>0. /\ 1 \in Nat /\ 2 \in Nat \ {0} /\ 4 \in Nat \ {0} /\ 2 \in Nat /\ 4 \in Nat
      /\ 2 * 1 = 2 /\ 2 * 2 = 4 /\ 2 * 4 = 8
  OBVIOUS
<1>1. PICK K1 \in Nat, K2 \in Nat : /\ K1 = 4 * N /\ K2 = 2 * N
                                    /\ w = 2 * K1 /\ w = 4 * K2 /\ K1 = 2 * K2
  OBVIOUS
<1>2. Pow2[2] = 4 /\ Pow2[4] = 16
  <2>1. /\ Pow2[0] = 1 /\ Pow2[0 + 1] = 2 * Pow2[0] /\ Pow2[1 + 1] = 2 * Pow2[1]
        /\ Pow2[2 + 1] = 2 * Pow2[2] /\ Pow2[3 + 1] = 2 * Pow2[3]
    BY PowersOfTwo, 0 \in Nat, 1 \in Nat, 2 \in Nat, 3 \in Nat
  <2> QED BY ONLY <2>1
<1>3. PICK B : B = BitsOf(x, w) /\ Number(B, w) = x /\ B \in SUBSET (0..(w - 1))
  <2>1. BitsOf(x, w) \in SUBSET (0..(w - 1))
    BY DEF BitsOf
  <2> QED BY <2>1, NumberOfBits
<1>4. PICK c0 : c0 = Digit(B) /\ Slots(c0, 1, w)
  <2>1. \A k \in Nat : k >= w => k \notin B
    BY <1>3
  <2>2. PICK c \in [Nat -> Nat] : c = Digit(B) /\ \A k \in Nat : c[k] = IF k \in B THEN 1 ELSE 0
    BY DigitOfBit
  <2>3. 1 <= 1 /\ 0 <= 1
    OBVIOUS
  <2> QED BY <2>1, <2>2, <2>3 DEF Slots
<1>5. PICK c1 : c1 = Pairs(c0, 1) /\ Slots(c1, 2, K1) /\ Value(c1, 0, K1) = Value(c0, 0, w)
  <2>1. Slots(c0, 1, 2 * K1)
    BY <1>1, <1>4
  <2>2. /\ Slots(Pairs(c0, 1), 2 * 1, K1)
        /\ Value(Pairs(c0, 1), 0, K1) = Value(c0, 0, 2 * K1)
    BY <2>1, PairSlots, 1 \in Nat
  <2> QED BY ONLY <1>0, <1>1, <2>2
<1>6. PICK c2 : c2 = Pairs(c1, 1) /\ Slots(c2, 4, K2) /\ Value(c2, 0, K2) = Value(c1, 0, K1)
  <2>1. Slots(c1, 2, 2 * K2)
    BY <1>1, <1>5
  <2>2. /\ Slots(Pairs(c1, 1), 2 * 2, K2)
        /\ Value(Pairs(c1, 1), 0, K2) = Value(c1, 0, 2 * K2)
    BY <2>1, PairSlots, 2 \in Nat
  <2> QED BY ONLY <1>0, <1>1, <2>2
<1>7. PICK c3 : c3 = Pairs(c2, 1) /\ Slots(c3, 8, N) /\ Value(c3, 0, N) = Value(c2, 0, K2)
  <2>1. Slots(c2, 4, 2 * N)
    BY <1>1, <1>6
  <2>2. /\ Slots(Pairs(c2, 1), 2 * 4, N)
        /\ Value(Pairs(c2, 1), 0, N) = Value(c2, 0, 2 * N)
    BY <2>1, PairSlots, 4 \in Nat
  <2> QED BY ONLY <1>0, <1>1, <2>2
<1>8. x1 = Value(c1, 2, K1)
  <2>1. x = Value(c0, 1, 2 * K1) /\ Slots(c0, 1, 2 * K1)
    BY <1>1, <1>3, <1>4, NumberIsValue
  <2>2. x - Low(x \div 2, 1, w) = Value(Pairs(c0, 1), 2, K1)
    BY <1>1, <2>1, FirstSums
  <2> QED BY <1>5, <2>2 DEF x1
<1>9. x2 = Value(c2, 4, K2)
  <2>1. x1 = Value(c1, 2, 2 * K2) /\ Slots(c1, 2, 2 * K2)
    BY <1>1, <1>5, <1>8
  <2>2. w = (2 * 2) * K2 /\ 2 < Pow2[2]
    BY <1>1, <1>2
  <2>3. Low(x1, 2, w) + Low(x1 \div Pow2[2], 2, w) = Value(Pairs(c1, 1), 2 * 2, K2)
    BY <1>0, <2>1, <2>2, NextSums
  <2> QED BY ONLY <1>0, <1>2, <1>6, <2>3 DEF x2
<1>10. x3 = Value(c3, 8, N)
  <2>1. x2 = Value(c2, 4, 2 * N) /\ Slots(c2, 4, 2 * N)
    BY <1>1, <1>6, <1>9
  <2>2. w = (2 * 4) * N /\ 2 * 4 < Pow2[4]
    BY <1>2
  <2>3. Low(x2 + (x2 \div Pow2[4]), 4, w) = Value(Pairs(c2, 1), 2 * 4, N)
    BY <1>0, <2>1, <2>2, LastSums
  <2> QED BY ONLY <1>0, <1>2, <1>7, <2>3 DEF x3
<1>11. Value(c0, 0, w) = Cardinality(B)
  BY <1>3, <1>4, BitsCounted
<1>12. Summed(x, w) = x3
  BY DEF Summed, x1, x2, x3
<1> QED BY ONLY <1>3, <1>5, <1>6, <1>7, <1>10, <1>11, <1>12 DEF CountsBytes

\* Ones in every place, and in the places from the n-th on.
Ones     == [k \in Nat |-> 1]
After(n) == [k \in Nat |-> IF k < n THEN 0 ELSE 1]

LEMMA OnesDigits ==
  ASSUME NEW n \in Nat
  PROVE  /\ Ones \in [Nat -> Nat] /\ After(n) \in [Nat -> Nat]
         /\ From(Ones, n) = Ones /\ From(After(n), n) = Ones
<1>1. Ones \in [Nat -> Nat] /\ After(n) \in [Nat -> Nat]
  BY DEF Ones, After
<1>2. \A k \in Nat : n + k \in Nat /\ ~ (n + k < n)
  OBVIOUS
<1>3. From(Ones, n) = Ones
  BY <1>2 DEF Ones, From
<1>4. From(After(n), n) = Ones
  BY <1>2 DEF Ones, After, From
<1> QED BY <1>1, <1>3, <1>4

\* All ones times a power: what leaves the N places on top is a multiple of their end.
Leaves(r, N, n) ==
  Pow2[r * n] * Value(Ones, r, N) = Value(After(n), r, N) + Pow2[r * N] * Value(Ones, r, n)

LEMMA OnesShifted ==
  ASSUME NEW r \in Nat, NEW N \in Nat, NEW n \in 0..N
  PROVE  Leaves(r, N, n)
<1>1. PICK m \in Nat : m + n = N /\ n + m = N /\ n \in Nat
  <2>1. N - n \in Nat /\ (N - n) + n = N /\ n + (N - n) = N /\ n \in Nat
    OBVIOUS
  <2> QED BY <2>1
<1>2. PICK p \in Nat, q \in Nat :
        p = Pow2[r * n] /\ q = Pow2[r * m] /\ Pow2[r * N] = p * q
  <2>1. PICK a \in Nat, b \in Nat : a = r * n /\ b = r * m /\ r * N = a + b
    <3>1. r * n \in Nat /\ r * m \in Nat
      BY <1>1, ProductOfNaturals
    <3>2. r * (n + m) = r * n + r * m
      BY <1>1
    <3> QED BY <1>1, <3>1, <3>2
  <2>2. Pow2[a + b] = Pow2[a] * Pow2[b]
    BY PowerSum
  <2>3. Pow2[a] \in Nat /\ Pow2[b] \in Nat
    BY PowersOfTwo
  <2> QED BY ONLY <2>1, <2>2, <2>3
<1>3. /\ Ones \in [Nat -> Nat] /\ After(n) \in [Nat -> Nat]
      /\ From(Ones, m) = Ones /\ From(After(n), n) = Ones
  BY <1>1, OnesDigits
<1>4. PICK x \in Nat, y \in Nat : x = Value(Ones, r, m) /\ y = Value(Ones, r, n)
  <2>1. AddsUp(Ones, r)
    BY <1>3, ValueStep
  <2> QED BY <1>1, <2>1 DEF AddsUp
<1>5. Value(Ones, r, N) = x + q * y
  <2>1. Splits(Ones, r, m, n)
    BY <1>1, <1>3, ValueSplit
  <2> QED BY ONLY <1>1, <1>2, <1>3, <1>4, <2>1 DEF Splits
<1>6. Value(After(n), r, N) = p * x
  <2>1. Splits(After(n), r, n, m)
    BY <1>1, <1>3, ValueSplit
  <2>2. Value(After(n), r, n) = 0
    <3>1. PICK c \in [Nat -> Nat] : c = After(n)
      BY <1>3
    <3>2. \A k \in 0..(n - 1) : c[k] = 0
      <4>1. \A k \in 0..(n - 1) : k \in Nat /\ k < n
        OBVIOUS
      <4> QED BY <3>1, <4>1 DEF After
    <3> QED BY <1>1, <3>1, <3>2, ValueOfZeros
  <2>3. 0 + p * x = p * x
    OBVIOUS
  <2> QED BY ONLY <1>1, <1>2, <1>3, <1>4, <2>1, <2>2, <2>3 DEF Splits
<1>7. p * (x + q * y) = p * x + (p * q) * y
  BY ONLY p \in Nat, q \in Nat, x \in Nat, y \in Nat
<1> QED BY ONLY <1>2, <1>4, <1>5, <1>6, <1>7 DEF Leaves

\* The sum of the first m + 1 digits, of n at the most.
Sums(c, n) == [m \in Nat |-> Value(c, 0, IF m < n THEN m + 1 ELSE n)]

LEMMA SumsDigits ==
  ASSUME NEW c \in [Nat -> Nat], NEW n \in Nat
  PROVE  Sums(c, n) \in [Nat -> Nat]
<1>1. AddsUp(c, 0)
  BY ValueStep, 0 \in Nat
<1>2. ASSUME NEW m \in Nat PROVE Value(c, 0, IF m < n THEN m + 1 ELSE n) \in Nat
  <2>1. PICK k \in Nat : k = IF m < n THEN m + 1 ELSE n
    OBVIOUS
  <2>2. Value(c, 0, k) \in Nat
    BY <1>1 DEF AddsUp
  <2> QED BY <2>1, <2>2
<1> QED BY <1>2 DEF Sums

\* One digit more is added to every sum from its place on.
LEMMA SumsStep ==
  ASSUME NEW c \in [Nat -> Nat], NEW n \in Nat, NEW N \in Nat
  PROVE  Combines(Sums(c, n + 1), Sums(c, n), c[n], After(n), N)
<1>1. AddsUp(c, 0)
  BY ValueStep, 0 \in Nat
<1> SUFFICES ASSUME NEW k \in 0..(N - 1)
             PROVE  Sums(c, n + 1)[k] = Sums(c, n)[k] + c[n] * After(n)[k]
  BY DEF Combines
<1>2. PICK z \in Nat : z = c[n]
  OBVIOUS
<1>3. PICK x \in Nat : x = Value(c, 0, n)
  BY <1>1 DEF AddsUp
<1>4. Value(c, 0, n + 1) = x + z
  <2>1. Value(c, 0, n + 1) = Value(c, 0, n) + c[n] * Pow2[0 * n]
    BY <1>1 DEF AddsUp
  <2>2. 0 * n = 0 /\ z * 1 = z
    OBVIOUS
  <2> QED BY ONLY <1>2, <1>3, <2>1, <2>2, PowersOfTwo
<1>5. CASE k < n
  <2>1. k \in Nat /\ k < n + 1 /\ k + 1 \in Nat
    BY <1>5
  <2>2. Sums(c, n + 1)[k] = Value(c, 0, k + 1) /\ Sums(c, n)[k] = Value(c, 0, k + 1)
    BY <1>5, <2>1 DEF Sums
  <2>3. After(n)[k] = 0
    BY <1>5, <2>1 DEF After
  <2>4. PICK y \in Nat : y = Value(c, 0, k + 1)
    BY <1>1, <2>1 DEF AddsUp
  <2>5. y + z * 0 = y
    OBVIOUS
  <2> QED BY ONLY <1>2, <2>2, <2>3, <2>4, <2>5
<1>6. CASE ~ (k < n)
  <2>1. k \in Nat /\ (IF k < n + 1 THEN k + 1 ELSE n + 1) = n + 1
    BY <1>6
  <2>2. Sums(c, n + 1)[k] = Value(c, 0, n + 1) /\ Sums(c, n)[k] = Value(c, 0, n)
    BY <1>6, <2>1 DEF Sums
  <2>3. After(n)[k] = 1
    BY <1>6, <2>1 DEF After
  <2>4. x + z * 1 = x + z
    OBVIOUS
  <2> QED BY ONLY <1>2, <1>3, <1>4, <2>2, <2>3, <2>4
<1> QED BY <1>5, <1>6

\* A number times all ones: up to a multiple of the end, its digits are the sums.
LEMMA TimesOnes ==
  ASSUME NEW c \in [Nat -> Nat], NEW r \in Nat, NEW N \in Nat
  PROVE  \E q \in Nat : Value(c, r, N) * Value(Ones, r, N)
                          = q * Pow2[r * N] + Value(Sums(c, N), r, N)
<1>0. AddsUp(c, r) /\ Ones \in [Nat -> Nat] /\ AddsUp(Ones, r)
  BY ValueStep, OnesDigits
<1>1. PICK P \in Nat, o \in Nat : P = Pow2[r * N] /\ o = Value(Ones, r, N)
  <2>1. r * N \in Nat
    BY ProductOfNaturals
  <2> QED BY <1>0, <2>1, PowersOfTwo DEF AddsUp
<1> DEFINE T == {n \in 0..N : \E q \in Nat :
                   Value(c, r, n) * o = q * P + Value(Sums(c, n), r, N)}
<1>2. 0 \in T
  <2>1. PICK s \in [Nat -> Nat] : s = Sums(c, 0)
    BY SumsDigits, 0 \in Nat
  <2>2. \A k \in 0..(N - 1) : s[k] = 0
    <3>1. \A k \in 0..(N - 1) : k \in Nat /\ ~ (k < 0)
      OBVIOUS
    <3>2. AddsUp(c, 0)
      BY ValueStep, 0 \in Nat
    <3> QED BY <2>1, <3>1, <3>2 DEF Sums, AddsUp
  <2>3. Value(s, r, N) = 0
    BY <2>2, ValueOfZeros
  <2>4. 0 * o = 0 * P + 0 /\ 0 \in 0..N /\ 0 \in Nat
    OBVIOUS
  <2>5. Value(c, r, 0) = 0
    BY <1>0 DEF AddsUp
  <2>6. Value(c, r, 0) * o = 0 * P + Value(Sums(c, 0), r, N)
    BY ONLY <2>1, <2>3, <2>4, <2>5
  <2> QED BY <2>4, <2>6
<1>3. ASSUME NEW n \in 0..(N - 1), n \in T PROVE n + 1 \in T
  <2>1. n \in Nat /\ n \in 0..N /\ n + 1 \in 0..N /\ n + 1 \in Nat
    OBVIOUS
  <2>2. PICK q \in Nat : Value(c, r, n) * o = q * P + Value(Sums(c, n), r, N)
    BY <1>3
  <2>3. PICK s \in [Nat -> Nat], t \in [Nat -> Nat], d \in [Nat -> Nat] :
          s = Sums(c, n) /\ t = Sums(c, n + 1) /\ d = After(n)
    BY <2>1, SumsDigits, OnesDigits
  <2>4. PICK x \in Nat, z \in Nat, p \in Nat :
          /\ x = Value(c, r, n) /\ z = c[n] /\ p = Pow2[r * n]
          /\ Value(c, r, n + 1) = x + z * p
    <3>1. r * n \in Nat
      BY <2>1, ProductOfNaturals
    <3>2. Pow2[r * n] \in Nat /\ c[n] \in Nat
      BY <2>1, <3>1, PowersOfTwo
    <3>3. Value(c, r, n) \in Nat /\ Value(c, r, n + 1) = Value(c, r, n) + c[n] * Pow2[r * n]
      BY <1>0, <2>1 DEF AddsUp
    <3> QED BY ONLY <3>2, <3>3
  <2>5. PICK u \in Nat, v \in Nat, a \in Nat :
          /\ u = Value(s, r, N) /\ v = Value(d, r, N) /\ a = Value(Ones, r, n)
    <3>1. AddsUp(s, r) /\ AddsUp(d, r)
      BY ValueStep
    <3> QED BY <1>0, <2>1, <3>1 DEF AddsUp
  <2>6. Value(t, r, N) = u + z * v
    <3>1. Combines(t, s, z, d, N)
      BY <2>1, <2>3, <2>4, SumsStep
    <3>2. Combined(t, s, z, d, N)
      BY <3>1, ValueLinear
    <3> QED BY <2>5, <3>2 DEF Combined
  <2>7. p * o = v + P * a
    <3>1. Leaves(r, N, n)
      BY ONLY r \in Nat, N \in Nat, <2>1, OnesShifted
    <3> QED BY ONLY <1>1, <2>3, <2>4, <2>5, <3>1 DEF Leaves
  <2>8. x * o = q * P + u
    BY <2>2, <2>3, <2>4, <2>5
  <2>9. (x + z * p) * o = (q + z * a) * P + (u + z * v)
    <3>1. (x + z * p) * o = x * o + z * (p * o)
      BY ONLY x \in Nat, z \in Nat, p \in Nat, o \in Nat
    <3>2. (q * P + u) + z * (v + P * a) = (q + z * a) * P + (u + z * v)
      BY ONLY q \in Nat, P \in Nat, u \in Nat, z \in Nat, v \in Nat, a \in Nat
    <3> QED BY ONLY <2>7, <2>8, <3>1, <3>2
  <2>10. q + z * a \in Nat
    <3>1. z * a \in Nat
      BY ProductOfNaturals
    <3> QED BY <3>1
  <2>11. Value(c, r, n + 1) * o = (q + z * a) * P + Value(Sums(c, n + 1), r, N)
    BY ONLY <2>3, <2>4, <2>6, <2>9
  <2> QED BY <2>1, <2>10, <2>11
<1>4. \A n \in 0..N : n \in T
  <2> HIDE DEF T
  <2> QED BY <1>2, <1>3, UpTo
<1>5. N \in 0..N
  OBVIOUS
<1> QED BY <1>1, <1>4, <1>5

\* A one in every byte.
LEMMA OneInEveryByte ==
  ASSUME NEW N \in Nat
  PROVE  Number({8 * k : k \in 0..(N - 1)}, 8 * N) = Value(Ones, 8, N)
<1>0. 8 \in Nat /\ 1 \in Nat /\ 7 \in Nat /\ 8 * N \in Nat /\ 1 * 8 = 8 /\ 1 + 7 = 8
  OBVIOUS
<1>1. PICK S : S = {8 * k : k \in 0..(N - 1)}
  OBVIOUS
<1>2. PICK b \in [Nat -> Nat] : b = Digit(S) /\ \A k \in Nat : b[k] = IF k \in S THEN 1 ELSE 0
  BY DigitOfBit
<1>3. PICK d \in [Nat -> Nat] :
        d = Chunks(b, 1, 8) /\ \A k \in Nat : d[k] = Value(From(b, 8 * k), 1, 8)
  <2>1. HasChunks(b, 1, 8)
    BY <1>0, ChunkDigits
  <2> QED BY <2>1 DEF HasChunks
<1>4. ASSUME NEW k \in 0..(N - 1) PROVE d[k] = 1
  <2>1. PICK a \in Nat : a = 8 * k /\ k \in Nat
    OBVIOUS
  <2>2. PICK f \in [Nat -> Nat] : f = From(b, a) /\ \A j \in Nat : f[j] = b[a + j]
    <3>1. BeginsAt(b, a, From(b, a))
      BY FromDigits
    <3> QED BY <3>1 DEF BeginsAt
  <2>3. PICK g \in [Nat -> Nat] : g = From(f, 1) /\ \A j \in Nat : g[j] = f[1 + j]
    <3>1. BeginsAt(f, 1, From(f, 1))
      BY <1>0, FromDigits
    <3> QED BY <3>1 DEF BeginsAt
  <2>4. f[0] = 1
    <3>1. a + 0 = a /\ 0 \in Nat
      OBVIOUS
    <3>2. a \in S
      BY <1>1, <2>1
    <3> QED BY ONLY <1>2, <2>1, <2>2, <3>1, <3>2
  <2>5. \A j \in 0..(7 - 1) : g[j] = 0
    <3> TAKE j \in 0..(7 - 1)
    <3>1. j \in Nat /\ 1 + j \in Nat /\ a + (1 + j) \in Nat
      OBVIOUS
    <3>2. ASSUME NEW m \in 0..(N - 1), a + (1 + j) = 8 * m PROVE FALSE
      <4>1. m \in Nat /\ k \in Nat /\ 8 * k + (1 + j) = 8 * m
        BY <2>1, <3>2
      <4>2. PICK gap \in Int : gap = m - k
        BY <4>1
      <4>3. 8 * gap = 1 + j
        BY ONLY <4>1, <4>2, j \in 0..(7 - 1)
      <4>4. 1 + j \in 1..7
        BY ONLY j \in 0..(7 - 1)
      <4>5. gap <= 0 \/ gap >= 1
        OBVIOUS
      <4> QED BY ONLY gap \in Int, <4>3, <4>4, <4>5
    <3>3. a + (1 + j) \notin S
      BY ONLY <1>1, <3>2
    <3>4. b[a + (1 + j)] = 0
      BY ONLY <1>2, <3>1, <3>3
    <3>5. f[1 + j] = b[a + (1 + j)]
      BY ONLY <2>2, <3>1
    <3>6. g[j] = f[1 + j]
      BY ONLY <2>3, <3>1
    <3> QED BY ONLY <3>4, <3>5, <3>6
  <2>6. Value(g, 1, 7) = 0
    BY <1>0, <2>5, ValueOfZeros
  <2>7. Value(f, 1, 1) = 1
    <3>1. AddsUp(f, 1)
      BY <1>0, ValueStep
    <3>2. Value(f, 1, 0) = 0 /\ Value(f, 1, 0 + 1) = Value(f, 1, 0) + f[0] * Pow2[1 * 0]
      BY <3>1, 0 \in Nat DEF AddsUp
    <3>3. 1 * 0 = 0 /\ 0 + 1 = 1 /\ 0 + 1 * 1 = 1
      OBVIOUS
    <3> QED BY ONLY <2>4, <3>2, <3>3, PowersOfTwo
  <2>8. Value(f, 1, 8) = 1
    <3>1. Splits(f, 1, 1, 7)
      BY <1>0, ValueSplit
    <3>2. PICK p \in Nat : p = Pow2[1 * 1]
      <4>1. 1 * 1 = 1
        OBVIOUS
      <4> QED BY <4>1, PowersOfTwo, 1 \in Nat
    <3>3. 1 + p * 0 = 1
      OBVIOUS
    <3> QED BY ONLY <1>0, <2>3, <2>6, <2>7, <3>1, <3>2, <3>3 DEF Splits
  <2> QED BY ONLY <1>3, <2>1, <2>2, <2>8
<1>5. Ones \in [Nat -> Nat]
  BY OnesDigits, 0 \in Nat
<1>6. Value(d, 8, N) = Value(Ones, 8, N)
  <2>1. SameDigits(d, Ones, N)
    <3>1. \A k \in 0..(N - 1) : k \in Nat
      OBVIOUS
    <3> QED BY <1>4, <3>1 DEF SameDigits, Ones
  <2>2. SameValues(d, Ones, N)
    BY <1>5, <2>1, ValueSame
  <2> QED BY <1>0, <2>2 DEF SameValues
<1>7. InChunks(b, 1, 8, N)
  BY <1>0, ValueInChunks
<1>8. Number(S, 8 * N) = Value(b, 1, 8 * N)
  BY <1>0, <1>2, NumberIsValue
<1> QED BY ONLY <1>0, <1>1, <1>3, <1>6, <1>7, <1>8 DEF InChunks

\* How large the sum of n digits gets.
LEMMA SumBound ==
  ASSUME NEW c \in [Nat -> Nat], NEW most \in Nat, \A k \in Nat : c[k] <= most
  PROVE  \A n \in Nat : Value(c, 0, n) <= most * n
<1>0. AddsUp(c, 0)
  BY ValueStep, 0 \in Nat
<1> DEFINE T == {n \in Nat : Value(c, 0, n) <= most * n}
<1>1. 0 \in T
  <2>1. 0 <= most * 0 /\ 0 \in Nat
    OBVIOUS
  <2> QED BY <1>0, <2>1 DEF AddsUp
<1>2. ASSUME NEW n \in Nat, n \in T PROVE n + 1 \in T
  <2>1. PICK x \in Nat, z \in Nat : x = Value(c, 0, n) /\ z = c[n] /\ z <= most
    BY <1>0 DEF AddsUp
  <2>2. Value(c, 0, n + 1) = x + z
    <3>1. Value(c, 0, n + 1) = Value(c, 0, n) + c[n] * Pow2[0 * n]
      BY <1>0 DEF AddsUp
    <3>2. 0 * n = 0 /\ z * 1 = z
      OBVIOUS
    <3> QED BY ONLY <2>1, <3>1, <3>2, PowersOfTwo
  <2>3. PICK y \in Nat : y = most * n /\ most * (n + 1) = y + most
    BY ProductOfNaturals
  <2>4. x <= y
    BY <1>2, <2>1, <2>3
  <2>5. x + z <= y + most
    BY <2>1, <2>4
  <2>6. Value(c, 0, n + 1) <= most * (n + 1)
    BY <2>2, <2>3, <2>5
  <2> QED BY <2>6
<1>3. \A n \in Nat : n \in T
  <2> HIDE DEF T
  <2> QED BY <1>1, <1>2, Upwards
<1> QED BY <1>3

\* The product with a one in every byte has the sum of all bytes in the top byte.
LEMMA TopByteIsSum ==
  ASSUME NEW N \in 1..31, NEW f, Slots(f, 8, N), NEW w \in Nat, w = 8 * N,
         NEW ones, ones = Value(Ones, 8, N)
  PROVE  ((Value(f, 8, N) * ones) % Pow2[w]) \div Pow2[w - 8] = Value(f, 0, N)
<1>0. /\ f \in [Nat -> Nat] /\ N \in Nat /\ 8 \in Nat /\ 0 \in Nat
      /\ \A k \in Nat : f[k] <= 8
  BY DEF Slots
<1>1. PICK m \in Nat : N = m + 1 /\ w - 8 = 8 * m
  <2>1. N - 1 \in Nat /\ N = (N - 1) + 1 /\ w - 8 = 8 * (N - 1)
    OBVIOUS
  <2> QED BY <2>1
<1>2. PICK P \in Nat \ {0}, H \in Nat \ {0} : P = Pow2[8 * N] /\ H = Pow2[8 * m]
  <2>1. 8 * N \in Nat /\ 8 * m \in Nat
    BY <1>0, <1>1
  <2> QED BY <2>1, PowersOfTwo
<1>3. PICK s \in [Nat -> Nat] : s = Sums(f, N)
  BY <1>0, SumsDigits
<1>4. Pow2[8] = 256
  <2>1. /\ Pow2[0] = 1 /\ Pow2[0 + 1] = 2 * Pow2[0] /\ Pow2[1 + 1] = 2 * Pow2[1]
        /\ Pow2[2 + 1] = 2 * Pow2[2] /\ Pow2[3 + 1] = 2 * Pow2[3]
        /\ Pow2[4 + 1] = 2 * Pow2[4] /\ Pow2[5 + 1] = 2 * Pow2[5]
        /\ Pow2[6 + 1] = 2 * Pow2[6] /\ Pow2[7 + 1] = 2 * Pow2[7]
    BY PowersOfTwo, 0 \in Nat, 1 \in Nat, 2 \in Nat, 3 \in Nat, 4 \in Nat, 5 \in Nat,
       6 \in Nat, 7 \in Nat
  <2> QED BY ONLY <2>1
<1>5. Fit(s, 8, N) /\ Fit(s, 8, m)
  <2>1. ASSUME NEW k \in Nat PROVE s[k] < 256
    <3>1. PICK n \in Nat : n = (IF k < N THEN k + 1 ELSE N) /\ n <= 31
      BY <1>0
    <3>2. s[k] = Value(f, 0, n)
      BY <1>3, <3>1 DEF Sums
    <3>3. Value(f, 0, n) <= 8 * n
      <4>1. \A h \in Nat : Value(f, 0, h) <= 8 * h
        BY <1>0, SumBound
      <4> QED BY <4>1
    <3> QED BY <3>1, <3>2, <3>3
  <2>2. \A k \in 0..(N - 1) : k \in Nat
    OBVIOUS
  <2>3. \A k \in 0..(m - 1) : k \in Nat
    OBVIOUS
  <2> QED BY ONLY <1>4, <2>1, <2>2, <2>3 DEF Fit
<1>6. AddsUp(s, 8) /\ AddsUp(f, 8) /\ AddsUp(f, 0)
  BY <1>0, ValueStep
<1>7. PICK x \in Nat, y \in Nat, z \in Nat :
        x = Value(s, 8, N) /\ y = Value(s, 8, m) /\ z = s[m] /\ x = y + z * H
  <2>1. Value(s, 8, m) \in Nat /\ s[m] \in Nat /\ Value(s, 8, N) \in Nat
    BY <1>0, <1>1, <1>6 DEF AddsUp
  <2>2. Value(s, 8, m + 1) = Value(s, 8, m) + s[m] * Pow2[8 * m]
    BY <1>1, <1>6 DEF AddsUp
  <2> QED BY ONLY <1>1, <1>2, <2>1, <2>2
<1>8. x \in 0..(P - 1) /\ y \in 0..(H - 1)
  <2>1. Value(s, 8, N) < Pow2[8 * N] /\ Value(s, 8, m) < Pow2[8 * m]
    BY <1>0, <1>1, <1>5, ValueBound
  <2> QED BY <1>2, <1>7, <2>1
<1>9. z = Value(f, 0, N)
  <2>1. m < N
    BY <1>1
  <2> QED BY <1>1, <1>3, <1>7, <2>1 DEF Sums
<1>10. PICK q \in Nat : Value(f, 8, N) * ones = q * P + x
  <2>1. \E q \in Nat : Value(f, 8, N) * Value(Ones, 8, N)
                         = q * Pow2[8 * N] + Value(Sums(f, N), 8, N)
    BY <1>0, TimesOnes
  <2> QED BY <1>2, <1>3, <1>7, <2>1, ones = Value(Ones, 8, N)
<1>11. PICK t : t = Value(f, 8, N) * ones /\ t = P * q + x
  <2>1. q * P = P * q
    OBVIOUS
  <2> QED BY <1>10, <2>1
<1>12. t % P = x
  BY ONLY <1>11, P \in Nat \ {0}, q \in Nat, q \in Int, <1>8, Quotient
<1>13. x \div H = z
  <2>1. x = H * z + y
    BY <1>7
  <2> QED BY ONLY <2>1, H \in Nat \ {0}, z \in Int, <1>8, Quotient
<1> QED BY ONLY <1>1, <1>2, <1>9, <1>11, <1>12, <1>13, w = 8 * N

\* The population count counts the bits.
LEMMA SwarCounts ==
  ASSUME ArithmeticAssumption, NEW v \in 0..(Pow2[8 * Bytes] - 1)
  PROVE  Swar(v) = Cardinality(BitsOf(v, 8 * Bytes))
<1>0. Bytes \in 1..31 /\ Bytes \in Nat
  BY DEF ArithmeticAssumption
<1>1. PICK w \in Nat : w = 8 * Bytes
  BY <1>0
<1>2. PICK f : /\ Slots(f, 8, Bytes) /\ Summed(v, w) = Value(f, 8, Bytes)
               /\ Value(f, 0, Bytes) = Cardinality(BitsOf(v, w))
  <2>1. v \in 0..(Pow2[w] - 1)
    BY <1>1
  <2>2. CountsBytes(v, Summed(v, w), w, Bytes)
    BY <1>0, <1>1, <2>1, BytesCounted
  <2> QED BY <2>2 DEF CountsBytes
<1>3. EveryByte = Value(Ones, 8, Bytes)
  BY <1>0, OneInEveryByte DEF EveryByte
<1>4. ((Summed(v, w) * EveryByte) % Pow2[w]) \div Pow2[w - 8] = Value(f, 0, Bytes)
  BY <1>0, <1>1, <1>2, <1>3, TopByteIsSum
<1>5. Swar(v) = ((Summed(v, w) * EveryByte) % Pow2[w]) \div Pow2[w - 8]
  BY <1>1 DEF Swar, Summed, LowHalves, Low
<1> QED BY ONLY <1>1, <1>2, <1>4, <1>5

\* The portable rgm_bloom_popcount64 adds up the bits of every word in parallel: pairs,
\* nibbles and bytes, and a multiplication for the bytes; the top byte of the product
\* is the number of bits, of every word there is.
THEOREM PopulationIsCounted == Requests => []PopCountExact
<1>1. Request => PopCountExact
  <2> SUFFICES ASSUME Request, NEW bit \in 0..1,
                      NEW v, v = (2 * (size * U32 + blocks) + bit) % Pow2[8 * Bytes]
               PROVE  Swar(v) = Cardinality(BitsOf(v, 8 * Bytes))
    BY DEF PopCountExact
  <2>1. v \in 0..(Pow2[8 * Bytes] - 1)
    <3>1. size \in Nat /\ blocks \in Nat /\ U32 \in Nat /\ Bytes \in Nat
      BY SizingAssumption, ArithmeticAssumption, WordIsPower DEF Request, ArithmeticAssumption
    <3>2. PICK P \in Nat \ {0} : P = Pow2[8 * Bytes]
      <4>1. 8 * Bytes \in Nat
        BY <3>1
      <4> QED BY <4>1, PowersOfTwo
    <3>3. PICK x \in Nat : x = 2 * (size * U32 + blocks) + bit
      <4>1. size * U32 \in Nat
        BY <3>1, ProductOfNaturals
      <4> QED BY <3>1, <4>1
    <3>4. x % P \in 0..(P - 1)
      BY ONLY x \in Nat, x \in Int, P \in Nat \ {0}, Division
    <3> QED BY <3>2, <3>3, <3>4
  <2> QED BY <2>1, SwarCounts, ArithmeticAssumption
<1> QED BY <1>1, AlwaysRequest, PTL

=============================================================================
