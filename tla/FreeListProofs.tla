---------------------------- MODULE FreeListProofs ----------------------------
(***************************************************************************)
(* Proofs about FreeList, for any number of blocks and whatever the caller *)
(* writes into the blocks it holds.                                        *)
(***************************************************************************)
EXTENDS FreeList, TLAPS, SequenceTheorems, FiniteSetTheorems

LEMMA InitInv == Init => IInv
<1> USE FreeListAssumption DEF Init, IInv, TypeOK, ChainInv, CountsAddUp, Block, Word
<1>0. Cardinality({}) = 0
  BY FS_EmptySet
<1>1. CASE Install /\ live = {} /\ out = Null
  <2> USE <1>1 DEF Install
  <2>1. returned \in Seq(Block) /\ Len(returned) = MaxBlocks
    OBVIOUS
  <2>2. returned # << >>
    BY <2>1
  <2>3. TypeOK
    BY <2>1
  <2>4. \A b \in 0..(initHigh - 1) : \E i \in 1..Len(returned) : returned[i] = b
    <3> TAKE b \in 0..(initHigh - 1)
    <3> WITNESS b + 1 \in 1..Len(returned)
    <3> QED BY <2>1
  <2> QED BY <1>0, <2>1, <2>2, <2>3, <2>4
<1>2. CASE InstallLazy /\ live = {} /\ out = Null
  BY <1>0, <1>2 DEF InstallLazy
<1> QED BY <1>1, <1>2

\* The blocks held are finitely many: one more, one less.
LEMMA HeldCount ==
  ASSUME TypeOK, NEW b \in Block
  PROVE  /\ Cardinality(live) \in Nat
         /\ b \notin live => Cardinality(live \cup {b}) = Cardinality(live) + 1
         /\ b \in live => Cardinality(live \ {b}) = Cardinality(live) - 1
         /\ b \in live => Cardinality(live) >= 1
<1>1. IsFiniteSet(Block)
  BY FS_Interval, FreeListAssumption DEF Block
<1>2. IsFiniteSet(live)
  BY <1>1, FS_Subset DEF TypeOK
<1>3. Cardinality(live) \in Nat /\ (b \in live => Cardinality(live) # 0)
  BY <1>2, FS_CardinalityType, FS_EmptySet
<1>4. Cardinality(live \cup {b}) = IF b \in live THEN Cardinality(live) ELSE Cardinality(live) + 1
  BY <1>2, FS_AddElement
<1>5. Cardinality(live \ {b}) = IF b \in live THEN Cardinality(live) - 1 ELSE Cardinality(live)
  BY <1>2, FS_RemoveElement
<1> QED BY <1>3, <1>4, <1>5

\* What a pop of the chain's head does to the chain.
LEMMA PopFacts ==
  ASSUME IInv, PopHead
  PROVE  /\ returned # << >> /\ Len(returned) \in Nat /\ Len(returned) >= 1
         /\ next = returned[1] /\ next \in Block /\ next \notin live
         /\ returned' \in Seq(Block) /\ Len(returned') = Len(returned) - 1
         /\ \A i \in 1..Len(returned') : returned'[i] = returned[i + 1]
         /\ returned' = << >> <=> Len(returned) = 1
<1>1. returned # << >>
  BY DEF IInv, ChainInv, PopHead
<1>2. Len(returned) \in Nat /\ Len(returned) >= 1
  BY <1>1, EmptySeq DEF IInv, TypeOK
<1>3. next = returned[1] /\ next \in Block /\ next \notin live
  BY <1>1, <1>2 DEF IInv, TypeOK, ChainInv
<1>4. /\ returned' \in Seq(Block) /\ Len(returned') = Len(returned) - 1
      /\ \A i \in 1..Len(returned') : returned'[i] = returned[i + 1]
  BY <1>1, HeadTailProperties DEF IInv, TypeOK, PopHead
<1>5. returned' = << >> <=> Len(returned) = 1
  BY <1>2, <1>4, EmptySeq
<1> QED BY <1>1, <1>2, <1>3, <1>4, <1>5

\* Popping the head keeps the chain, with the count that Alloc keeps.
LEMMA PopInv ==
  ASSUME IInv, PopHead, blocksFree' = blocksFree - 1
  PROVE  IInv'
<1> USE DEF IInv
<1>1. TypeOK'
  <2>1. initHigh \in 0..MaxBlocks /\ blocksFree = Len(returned) + (MaxBlocks - initHigh)
    BY DEF TypeOK, ChainInv
  <2>2. blocksFree' \in 0..MaxBlocks
    BY <2>1, PopFacts, FreeListAssumption DEF TypeOK
  <2> QED BY <2>2, PopFacts DEF TypeOK, PopHead, HandOut, Word
<1>2. /\ \A i, j \in 1..Len(returned') : returned'[i] = returned'[j] => i = j
      /\ \A i \in 1..Len(returned') : returned'[i] \notin live' /\ returned'[i] < initHigh'
  BY PopFacts DEF ChainInv, PopHead, HandOut
<1>3. /\ next' = IF returned' = << >> THEN Null ELSE returned'[1]
      /\ \A i \in 1..Len(returned') :
           mem'[returned'[i]] = IF i = Len(returned') THEN Null ELSE returned'[i + 1]
  BY PopFacts DEF ChainInv, PopHead
<1>4. /\ blocksFree' = Len(returned') + (MaxBlocks - initHigh')
      /\ \A b \in live' : b < initHigh'
  <2>1. blocksFree' = Len(returned') + (MaxBlocks - initHigh')
    BY PopFacts, FreeListAssumption DEF TypeOK, ChainInv, PopHead
  <2> QED BY <2>1, PopFacts DEF ChainInv, PopHead, HandOut
<1>5. \A b \in 0..(initHigh' - 1) :
        b \in live' \/ \E i \in 1..Len(returned') : returned'[i] = b
  <2> SUFFICES ASSUME NEW b \in 0..(initHigh - 1), b \notin live'
               PROVE  \E i \in 1..Len(returned') : returned'[i] = b
    BY DEF PopHead
  <2>1. PICK j \in 1..Len(returned) : returned[j] = b
    BY DEF ChainInv, PopHead, HandOut
  <2>2. j # 1
    BY <2>1, PopFacts DEF PopHead, HandOut
  <2>3. j - 1 \in 1..Len(returned') /\ returned'[j - 1] = returned[j]
    BY <2>2, PopFacts
  <2> QED BY <2>1, <2>3
<1>6. CountsAddUp'
  <2>1. Cardinality(live') = Cardinality(live) + 1 /\ Cardinality(live) \in Nat
    BY PopFacts, HeldCount DEF PopHead, HandOut
  <2> QED BY <2>1, FreeListAssumption DEF TypeOK, CountsAddUp
<1> QED BY <1>1, <1>2, <1>3, <1>4, <1>5, <1>6 DEF ChainInv

\* An empty chain and a positive count leave a fresh block to hand out.
LEMMA FreshFacts ==
  ASSUME IInv, blocksFree # 0, next = Null
  PROVE  returned = << >> /\ initHigh \in Block /\ initHigh \notin live
<1>1. returned = << >>
  <2> SUFFICES ASSUME returned # << >> PROVE FALSE
    OBVIOUS
  <2>1. Len(returned) \in Nat \ {0}
    BY EmptySeq DEF IInv, TypeOK
  <2>2. next = returned[1] /\ returned[1] \in Block
    BY <2>1 DEF IInv, TypeOK, ChainInv
  <2> QED BY <2>2, FreeListAssumption DEF Block
<1>2. initHigh \in Block
  BY <1>1, EmptySeq, FreeListAssumption DEF IInv, TypeOK, ChainInv, Block
<1>3. initHigh \notin live
  BY <1>2 DEF IInv, ChainInv, Block
<1> QED BY <1>1, <1>2, <1>3

LEMMA FreshInv == IInv /\ AllocFresh => IInv'
<1> SUFFICES ASSUME IInv, AllocFresh PROVE IInv'
  OBVIOUS
<1>1. returned = << >> /\ initHigh \in Block /\ initHigh \notin live
  BY FreshFacts DEF AllocFresh
<1>2. TypeOK'
  BY <1>1, FreeListAssumption DEF IInv, TypeOK, AllocFresh, HandOut, Block, Word
<1>3. ChainInv'
  <2>1. Len(returned) = 0 /\ returned' = returned
    BY <1>1 DEF AllocFresh
  <2>2. blocksFree' = Len(returned') + (MaxBlocks - initHigh')
    BY <2>1, FreeListAssumption DEF IInv, TypeOK, ChainInv, AllocFresh
  <2>3. \A b \in live' : b < initHigh'
    BY <1>1 DEF IInv, TypeOK, ChainInv, AllocFresh, HandOut, Block
  <2>4. \A b \in 0..(initHigh' - 1) : b \in live'
    BY <1>1, <2>1 DEF IInv, TypeOK, ChainInv, AllocFresh, HandOut, Block
  <2> QED BY <1>1, <2>1, <2>2, <2>3, <2>4 DEF IInv, ChainInv, AllocFresh
<1>4. CountsAddUp'
  BY <1>1, HeldCount, FreeListAssumption DEF IInv, TypeOK, CountsAddUp, AllocFresh, HandOut
<1> QED BY <1>2, <1>3, <1>4 DEF IInv

\* What a Free of a held block does to the chain.
LEMMA FreeFacts ==
  ASSUME IInv, NEW b \in Block, Free(b)
  PROVE  /\ Len(returned) \in Nat
         /\ returned' \in Seq(Block) /\ Len(returned') = Len(returned) + 1
         /\ returned'[1] = b /\ returned' # << >>
         /\ \A i \in 1..Len(returned) : returned'[i + 1] = returned[i]
         /\ \A i \in 2..Len(returned') : i - 1 \in 1..Len(returned) /\ returned'[i] = returned[i - 1]
<1>1. <<b>> \in Seq(Block) /\ Len(<<b>>) = 1 /\ <<b>>[1] = b
  OBVIOUS
<1>2. Len(returned) \in Nat
  BY DEF IInv, TypeOK
<1>3. /\ returned' \in Seq(Block) /\ Len(returned') = 1 + Len(returned)
      /\ \A i \in 1..(1 + Len(returned)) :
           returned'[i] = IF i <= 1 THEN <<b>>[i] ELSE returned[i - 1]
  BY <1>1, ConcatProperties DEF IInv, TypeOK, Free
<1>4. returned' # << >>
  BY <1>2, <1>3, EmptySeq
<1> QED BY <1>1, <1>2, <1>3, <1>4

LEMMA FreeInv == ASSUME NEW b \in Block, IInv, Free(b) PROVE IInv'
<1> USE DEF IInv
<1>1. /\ b \in live /\ b < initHigh /\ initHigh \in Nat
      /\ \A i \in 1..Len(returned) : returned[i] # b /\ returned[i] \in Block
  BY DEF TypeOK, ChainInv, Free
<1>0. /\ Cardinality(live) \in Nat /\ Cardinality(live) >= 1
      /\ Cardinality(live') = Cardinality(live) - 1
  BY HeldCount DEF Free
<1>2. blocksFree' \in 0..MaxBlocks
  BY <1>0, FreeListAssumption DEF TypeOK, CountsAddUp, Free
<1>3. TypeOK'
  BY <1>2, FreeFacts DEF TypeOK, Free, Word
<1>4. CountsAddUp'
  BY <1>0, FreeListAssumption DEF TypeOK, CountsAddUp, Free
<1>5. \A i, j \in 1..Len(returned') : returned'[i] = returned'[j] => i = j
  <2> SUFFICES ASSUME NEW i \in 1..Len(returned'), NEW j \in 1..Len(returned'),
                      returned'[i] = returned'[j]
               PROVE  i = j
    OBVIOUS
  <2>0. \A k \in 2..Len(returned') :
          k - 1 \in 1..Len(returned) /\ returned'[k] = returned[k - 1] /\ returned'[k] # b
    BY <1>1, FreeFacts
  <2>1. CASE i = 1 \/ j = 1
    <3>1. (i # 1 => i \in 2..Len(returned')) /\ (j # 1 => j \in 2..Len(returned'))
      BY FreeFacts
    <3> QED BY <2>0, <2>1, <3>1, FreeFacts
  <2>2. CASE i # 1 /\ j # 1
    <3>1. i \in 2..Len(returned') /\ j \in 2..Len(returned')
      BY <2>2, FreeFacts
    <3>2. /\ i - 1 \in 1..Len(returned) /\ j - 1 \in 1..Len(returned)
          /\ returned[i - 1] = returned[j - 1]
      BY <2>0, <3>1
    <3>3. i - 1 = j - 1
      BY <3>2 DEF ChainInv
    <3> QED BY <3>1, <3>3, FreeFacts
  <2> QED BY <2>1, <2>2
<1>6. \A i \in 1..Len(returned') : returned'[i] \notin live' /\ returned'[i] < initHigh'
  BY <1>1, FreeFacts DEF ChainInv, Free
<1>7. next' = IF returned' = << >> THEN Null ELSE returned'[1]
  BY FreeFacts DEF Free
<1>8. ASSUME NEW i \in 1..Len(returned')
      PROVE  mem'[returned'[i]] = IF i = Len(returned') THEN Null ELSE returned'[i + 1]
  <2>1. CASE i = 1
    <3>1. mem'[b] = next
      BY DEF TypeOK, Free
    <3>2. returned = << >> <=> Len(returned) = 0
      BY EmptySeq DEF TypeOK
    <3>3. next = IF Len(returned) = 0 THEN Null ELSE returned[1]
      BY <3>2 DEF ChainInv
    <3>4. Len(returned) # 0 => Len(returned') # 1 /\ 1 \in 1..Len(returned)
      BY FreeFacts
    <3>5. Len(returned) = 0 => Len(returned') = 1
      BY FreeFacts
    <3>6. Len(returned) # 0 => returned'[i + 1] = returned[1]
      BY <2>1, <3>4, FreeFacts
    <3>7. returned'[i] = b
      BY <2>1, FreeFacts
    <3> QED BY <2>1, <3>1, <3>3, <3>4, <3>5, <3>6, <3>7
  <2>2. CASE i # 1
    <3>1. i - 1 \in 1..Len(returned) /\ returned'[i] = returned[i - 1]
      BY <2>2, FreeFacts
    <3>2. mem'[returned'[i]] = mem[returned[i - 1]]
      BY <1>1, <3>1 DEF TypeOK, Free
    <3>3. mem[returned[i - 1]] = IF i - 1 = Len(returned) THEN Null ELSE returned[i]
      BY <3>1 DEF ChainInv
    <3>4. i # Len(returned') => i \in 1..Len(returned) /\ returned'[i + 1] = returned[i]
      BY FreeFacts
    <3> QED BY <3>1, <3>2, <3>3, <3>4, FreeFacts
  <2> QED BY <2>1, <2>2
<1>9. /\ blocksFree' = Len(returned') + (MaxBlocks - initHigh')
      /\ \A c \in live' : c < initHigh'
  BY <1>1, FreeFacts, FreeListAssumption DEF TypeOK, ChainInv, Free
<1>10. \A c \in 0..(initHigh' - 1) :
         c \in live' \/ \E i \in 1..Len(returned') : returned'[i] = c
  <2> SUFFICES ASSUME NEW c \in 0..(initHigh - 1), c \notin live'
               PROVE  \E i \in 1..Len(returned') : returned'[i] = c
    BY DEF Free
  <2>1. CASE c = b
    BY <2>1, FreeFacts
  <2>2. CASE c # b
    <3>1. PICK i \in 1..Len(returned) : returned[i] = c
      BY <2>2 DEF ChainInv, Free
    <3>2. i + 1 \in 1..Len(returned') /\ returned'[i + 1] = c
      BY <3>1, FreeFacts
    <3> QED BY <3>2
  <2> QED BY <2>1, <2>2
<1> QED BY <1>3, <1>4, <1>5, <1>6, <1>7, <1>8, <1>9, <1>10 DEF ChainInv

LEMMA NextInv == IInv /\ [Next]_vars => IInv'
<1> SUFFICES ASSUME IInv, [Next]_vars PROVE IInv'
  OBVIOUS
<1>1. CASE AllocReturned
  BY <1>1, PopInv DEF AllocReturned
<1>2. CASE AllocFast
  BY <1>2, PopInv DEF AllocFast
<1>3. CASE AllocFresh
  BY <1>3, FreshInv
<1>4. CASE AllocEmpty
  BY <1>4 DEF AllocEmpty, IInv, TypeOK, ChainInv, CountsAddUp, Word
<1>5. ASSUME NEW b \in Block, Free(b)
      PROVE  IInv'
  BY <1>5, FreeInv
<1>6. ASSUME NEW b \in Block, NEW w \in Word, CallerWrites(b, w)
      PROVE  IInv'
  BY <1>6 DEF CallerWrites, IInv, TypeOK, ChainInv, CountsAddUp
<1>7. CASE UNCHANGED vars
  BY <1>7 DEF vars, IInv, TypeOK, ChainInv, CountsAddUp
<1> QED BY <1>1, <1>2, <1>3, <1>4, <1>5, <1>6, <1>7 DEF Next

\* In every reachable state the links spell the chain of returned blocks, no
\* block the caller holds is on it, and the free count is right: so the caller
\* cannot break the list by writing into its own blocks.
THEOREM ChainInvariant == Spec => []IInv
<1>1. Init => IInv
  BY InitInv
<1>2. IInv /\ [Next]_vars => IInv'
  BY NextInv
<1> QED BY <1>1, <1>2, PTL DEF Spec

\* The links of the returned blocks spell the chain and no block the caller
\* holds is on it, whatever the caller writes into its blocks.
THEOREM ChainStaysSound == Spec => []ChainInv
<1>1. IInv => ChainInv
  BY DEF IInv
<1> QED BY <1>1, ChainInvariant, PTL


\* The two comments of the code about m_blocksFree hold: an empty chain with
\* blocks left has a fresh block in range, a chain head comes with a count.
THEOREM FreeCountIsTrusted == Spec => []FreeCountTrusted
<1>1. IInv => FreeCountTrusted
  <2> SUFFICES ASSUME IInv PROVE FreeCountTrusted
    OBVIOUS
  <2>1. next # Null => returned # << >>
    BY DEF IInv, ChainInv
  <2>2. returned # << >> => Len(returned) >= 1
    BY EmptySeq DEF IInv, TypeOK
  <2>3. next # Null => blocksFree > 0
    BY <2>1, <2>2, FreeListAssumption DEF IInv, TypeOK, ChainInv
  <2>4. blocksFree > 0 /\ next = Null => initHigh < MaxBlocks
    BY FreshFacts, FreeListAssumption DEF Block
  <2> QED BY <2>3, <2>4 DEF FreeCountTrusted
<1> QED BY <1>1, ChainInvariant, PTL

\* Capacity is conserved: free and held blocks always add up.
THEOREM CapacityConserved == Spec => []CountsAddUp
<1>1. IInv => CountsAddUp
  BY DEF IInv
<1> QED BY <1>1, ChainInvariant, PTL

(***************************************************************************)
(* The list is a LIFO pool.                                                *)
(***************************************************************************)

\* A chain followed by the fresh blocks, position by position.
PoolSeq(r, h) == r \o [i \in 1..(MaxBlocks - h) |-> h + i - 1]

LEMMA PoolSeqFacts ==
  ASSUME NEW r \in Seq(Block), NEW h \in 0..MaxBlocks
  PROVE  /\ PoolSeq(r, h) \in Seq(Block)
         /\ Len(PoolSeq(r, h)) = Len(r) + (MaxBlocks - h)
         /\ \A i \in 1..Len(r) : PoolSeq(r, h)[i] = r[i]
         /\ \A i \in 1..(MaxBlocks - h) : PoolSeq(r, h)[Len(r) + i] = h + i - 1
<1> DEFINE f == [i \in 1..(MaxBlocks - h) |-> h + i - 1]
<1>1. f \in Seq(Block) /\ Len(f) = MaxBlocks - h /\ Len(r) \in Nat
  BY FreeListAssumption DEF Block
<1>2. /\ r \o f \in Seq(Block) /\ Len(r \o f) = Len(r) + Len(f)
      /\ \A i \in 1..(Len(r) + Len(f)) :
           (r \o f)[i] = IF i <= Len(r) THEN r[i] ELSE f[i - Len(r)]
  BY <1>1, ConcatProperties
<1>3. PoolSeq(r, h) = r \o f
  BY DEF PoolSeq
<1>4. \A i \in 1..(MaxBlocks - h) : f[i] = h + i - 1
  OBVIOUS
<1> HIDE DEF f
<1>5. \A i \in 1..(MaxBlocks - h) : (r \o f)[Len(r) + i] = f[i]
  BY <1>1, <1>2, FreeListAssumption
<1> QED BY <1>1, <1>2, <1>3, <1>4, <1>5, FreeListAssumption

LEMMA FreeSeqIsPoolSeq ==
  /\ FreeSeq = PoolSeq(returned, initHigh)
  /\ FreeSeq' = PoolSeq(returned', initHigh')
  BY DEF FreeSeq, Fresh, PoolSeq

LEMMA InitMaps == Init => Pool!Init
<1> SUFFICES ASSUME Init PROVE FreeSeq = [i \in 1..MaxBlocks |-> i - 1]
  BY DEF Init, Pool!Init
<1> DEFINE s == PoolSeq(returned, initHigh)
           all == [i \in 1..MaxBlocks |-> i - 1]
<1>1. returned \in Seq(Block) /\ initHigh \in 0..MaxBlocks
  BY InitInv DEF IInv, TypeOK
<1>2. \/ /\ Len(returned) = MaxBlocks /\ initHigh = MaxBlocks
         /\ \A i \in 1..MaxBlocks : returned[i] = i - 1
      \/ Len(returned) = 0 /\ initHigh = 0
  BY FreeListAssumption DEF Init, Install, InstallLazy
<1>3. all \in Seq(Block) /\ Len(all) = MaxBlocks /\ \A i \in 1..MaxBlocks : all[i] = i - 1
  BY FreeListAssumption DEF Block
<1>a. /\ s \in Seq(Block) /\ Len(s) = Len(returned) + (MaxBlocks - initHigh)
      /\ \A i \in 1..Len(returned) : s[i] = returned[i]
      /\ \A i \in 1..(MaxBlocks - initHigh) : s[Len(returned) + i] = initHigh + i - 1
  BY <1>1, PoolSeqFacts
<1> HIDE DEF s, all
<1>4. s \in Seq(Block) /\ Len(s) = MaxBlocks
  BY <1>a, <1>2, FreeListAssumption
<1>5. ASSUME NEW i \in 1..MaxBlocks PROVE s[i] = i - 1
  <2>1. CASE Len(returned) = MaxBlocks
    BY <1>2, <1>a, <2>1, FreeListAssumption
  <2>2. CASE Len(returned) = 0
    <3>1. initHigh = 0 /\ s[0 + i] = 0 + i - 1
      BY <1>2, <1>a, <2>2, FreeListAssumption
    <3> QED BY <3>1
  <2> QED BY <1>2, <2>1, <2>2
<1>6. s = all
  BY <1>3, <1>4, <1>5, SeqEqual
<1> QED BY <1>6, FreeSeqIsPoolSeq DEF s, all

\* Two sequences: the second is the tail of the first.
LEMMA TailIs ==
  ASSUME NEW s \in Seq(Block), NEW u \in Seq(Block), Len(s) = Len(u) + 1,
         \A i \in 1..Len(u) : u[i] = s[i + 1]
  PROVE  s # << >> /\ Head(s) = s[1] /\ Tail(s) = u
<1>1. s # << >> /\ Head(s) = s[1] /\ Len(u) \in Nat
  BY EmptySeq
<1>2. /\ Tail(s) \in Seq(Block) /\ Len(Tail(s)) = Len(s) - 1
      /\ \A i \in 1..Len(Tail(s)) : Tail(s)[i] = s[i + 1]
  BY <1>1, HeadTailProperties
<1>3. Tail(s) = u
  BY <1>1, <1>2, SeqEqual
<1> QED BY <1>1, <1>3

LEMMA PopMaps == IInv /\ IInv' /\ PopHead => Pool!Alloc
<1> SUFFICES ASSUME IInv, IInv', PopHead PROVE Pool!Alloc
  OBVIOUS
<1> DEFINE s == PoolSeq(returned, initHigh)
           u == PoolSeq(returned', initHigh)
<1>1. /\ initHigh \in 0..MaxBlocks /\ returned \in Seq(Block) /\ returned' \in Seq(Block)
      /\ Len(returned') \in Nat /\ Len(returned) = Len(returned') + 1 /\ next = returned[1]
      /\ \A i \in 1..Len(returned') : returned'[i] = returned[i + 1]
  BY PopFacts DEF IInv, TypeOK
<1>a. /\ s \in Seq(Block) /\ Len(s) = Len(returned) + (MaxBlocks - initHigh)
      /\ \A i \in 1..Len(returned) : s[i] = returned[i]
      /\ \A i \in 1..(MaxBlocks - initHigh) : s[Len(returned) + i] = initHigh + i - 1
  BY <1>1, PoolSeqFacts
<1>b. /\ u \in Seq(Block) /\ Len(u) = Len(returned') + (MaxBlocks - initHigh)
      /\ \A i \in 1..Len(returned') : u[i] = returned'[i]
      /\ \A i \in 1..(MaxBlocks - initHigh) : u[Len(returned') + i] = initHigh + i - 1
  BY <1>1, PoolSeqFacts
<1> HIDE DEF s, u
<1>2. /\ Len(u) = Len(returned') + (MaxBlocks - initHigh)
      /\ Len(s) = Len(u) + 1 /\ s[1] = returned[1]
  BY <1>1, <1>a, <1>b, FreeListAssumption
<1>3. ASSUME NEW i \in 1..Len(u) PROVE u[i] = s[i + 1]
  <2>1. CASE i <= Len(returned')
    <3>1. i \in 1..Len(returned') /\ i + 1 \in 1..Len(returned)
      BY <1>1, <1>2, <2>1, FreeListAssumption
    <3> QED BY <1>1, <1>a, <1>b, <3>1
  <2>2. CASE i > Len(returned')
    <3>1. i - Len(returned') \in 1..(MaxBlocks - initHigh)
      BY <1>1, <1>2, <2>2, FreeListAssumption
    <3> DEFINE j == i - Len(returned')
    <3>2. u[Len(returned') + j] = s[Len(returned) + j]
      BY <1>a, <1>b, <3>1
    <3>3. Len(returned') + j = i /\ Len(returned) + j = i + 1
      BY <1>1, <1>2, FreeListAssumption
    <3> QED BY <3>2, <3>3
  <2> QED BY <1>1, <1>2, <2>1, <2>2, FreeListAssumption
<1>4. s # << >> /\ Head(s) = next /\ Tail(s) = u
  BY <1>1, <1>2, <1>3, <1>a, <1>b, TailIs
<1>5. FreeSeq = s /\ FreeSeq' = u
  BY FreeSeqIsPoolSeq DEF s, u, PopHead
<1> QED BY <1>4, <1>5 DEF Pool!Alloc, PopHead, HandOut

LEMMA FreshMaps == IInv /\ IInv' /\ AllocFresh => Pool!Alloc
<1> SUFFICES ASSUME IInv, IInv', AllocFresh PROVE Pool!Alloc
  OBVIOUS
<1> DEFINE s == PoolSeq(returned, initHigh)
           u == PoolSeq(returned, initHigh + 1)
<1>1. /\ returned \in Seq(Block) /\ Len(returned) = 0
      /\ initHigh \in 0..MaxBlocks /\ initHigh + 1 \in 0..MaxBlocks
  BY FreshFacts, FreeListAssumption DEF IInv, TypeOK, AllocFresh, Block
<1>a. /\ s \in Seq(Block) /\ Len(s) = Len(returned) + (MaxBlocks - initHigh)
      /\ \A i \in 1..(MaxBlocks - initHigh) : s[Len(returned) + i] = initHigh + i - 1
  BY <1>1, PoolSeqFacts
<1>b. /\ u \in Seq(Block) /\ Len(u) = Len(returned) + (MaxBlocks - (initHigh + 1))
      /\ \A i \in 1..(MaxBlocks - (initHigh + 1)) :
           u[Len(returned) + i] = (initHigh + 1) + i - 1
  BY <1>1, PoolSeqFacts
<1> HIDE DEF s, u
<1>2. Len(u) = MaxBlocks - (initHigh + 1) /\ Len(s) = Len(u) + 1
  BY <1>1, <1>a, <1>b, FreeListAssumption
<1>3. /\ \A i \in 1..(MaxBlocks - initHigh) : s[i] = initHigh + i - 1
      /\ \A i \in 1..(MaxBlocks - (initHigh + 1)) : u[i] = initHigh + i
  <2>1. \A i \in Nat : Len(returned) + i = i
    BY <1>1
  <2>2. \A i \in 1..(MaxBlocks - initHigh) : s[i] = initHigh + i - 1
    BY <1>1, <1>a, <2>1, FreeListAssumption
  <2>3. ASSUME NEW i \in 1..(MaxBlocks - (initHigh + 1)) PROVE u[i] = initHigh + i
    <3>1. u[Len(returned) + i] = (initHigh + 1) + i - 1 /\ i \in Nat
      BY <1>b
    <3> QED BY <1>1, <2>1, <3>1
  <2> QED BY <2>2, <2>3
<1>4. s[1] = initHigh /\ \A i \in 1..Len(u) : u[i] = s[i + 1]
  BY <1>1, <1>2, <1>3, FreeListAssumption
<1>5. s # << >> /\ Head(s) = initHigh /\ Tail(s) = u
  BY <1>2, <1>4, <1>a, <1>b, TailIs
<1>6. FreeSeq = s /\ FreeSeq' = u
  BY FreeSeqIsPoolSeq DEF s, u, AllocFresh
<1> QED BY <1>5, <1>6 DEF Pool!Alloc, AllocFresh, HandOut

LEMMA EmptyMaps == IInv /\ AllocEmpty => Pool!AllocEmpty
<1> SUFFICES ASSUME IInv, AllocEmpty PROVE Pool!AllocEmpty
  OBVIOUS
<1>1. /\ returned \in Seq(Block) /\ Len(returned) = 0 /\ initHigh = MaxBlocks
  BY FreeListAssumption DEF IInv, TypeOK, ChainInv, AllocEmpty
<1>2. live = Block
  <2>1. \A b \in 0..(MaxBlocks - 1) : b \in live
    BY <1>1 DEF IInv, ChainInv
  <2> QED BY <2>1 DEF IInv, TypeOK, Block
<1>3. /\ PoolSeq(returned, initHigh) \in Seq(Block)
      /\ Len(PoolSeq(returned, initHigh)) = 0
  <2>1. /\ initHigh \in 0..MaxBlocks
        /\ PoolSeq(returned, initHigh) \in Seq(Block)
        /\ Len(PoolSeq(returned, initHigh)) = Len(returned) + (MaxBlocks - initHigh)
    <3>1. initHigh \in 0..MaxBlocks /\ returned \in Seq(Block)
      BY DEF IInv, TypeOK
    <3> QED BY <3>1, PoolSeqFacts
  <2> QED BY <1>1, <2>1, FreeListAssumption
<1>4. FreeSeq = << >>
  BY <1>3, FreeSeqIsPoolSeq, EmptySeq
<1>5. FreeSeq' = FreeSeq
  BY FreeSeqIsPoolSeq DEF AllocEmpty
<1> QED BY <1>2, <1>4, <1>5 DEF Pool!AllocEmpty, Pool!Block, Block, AllocEmpty

LEMMA FreeMaps == ASSUME NEW b \in Block, IInv, Free(b) PROVE Pool!Free(b)
<1> DEFINE f == [i \in 1..(MaxBlocks - initHigh) |-> initHigh + i - 1]
<1>1. returned \in Seq(Block) /\ f \in Seq(Block) /\ <<b>> \in Seq(Block)
  BY FreeListAssumption DEF IInv, TypeOK, Block
<1> HIDE DEF f
<1>2. (<<b>> \o returned) \o f = <<b>> \o (returned \o f)
  BY <1>1, ConcatAssociative
<1>3. FreeSeq = returned \o f /\ FreeSeq' = (<<b>> \o returned) \o f
  BY FreeSeqIsPoolSeq DEF PoolSeq, Free, f
<1> QED BY <1>2, <1>3 DEF Pool!Free, Free

LEMMA StepMaps == IInv /\ IInv' /\ [Next]_vars => [Pool!Next]_(Pool!vars)
<1> SUFFICES ASSUME IInv, IInv', [Next]_vars PROVE [Pool!Next]_(Pool!vars)
  OBVIOUS
<1>1. CASE AllocReturned
  BY <1>1, PopMaps DEF AllocReturned, Pool!Next
<1>2. CASE AllocFast
  BY <1>2, PopMaps DEF AllocFast, Pool!Next
<1>3. CASE AllocFresh
  BY <1>3, FreshMaps DEF Pool!Next
<1>4. CASE AllocEmpty
  BY <1>4, EmptyMaps DEF Pool!Next
<1>5. ASSUME NEW b \in Block, Free(b) PROVE Pool!Next
  BY <1>5, FreeMaps DEF Pool!Next, Pool!Block, Block
<1>6. ASSUME NEW b \in Block, NEW w \in Word, CallerWrites(b, w) PROVE UNCHANGED Pool!vars
  BY <1>6, FreeSeqIsPoolSeq DEF CallerWrites, Pool!vars
<1>7. CASE UNCHANGED vars
  BY <1>7, FreeSeqIsPoolSeq DEF vars, Pool!vars
<1> QED BY <1>1, <1>2, <1>3, <1>4, <1>5, <1>6, <1>7 DEF Next

\* Eager or lazy, the list is the LIFO pool of FreePool: which block an Alloc
\* returns depends only on the Allocs and Frees before it.
THEOREM ListIsPool == Spec => IsPool
<1>1. Init => Pool!Init
  BY InitMaps
<1>2. IInv /\ IInv' /\ [Next]_vars => [Pool!Next]_(Pool!vars)
  BY StepMaps
<1> QED BY <1>1, <1>2, ChainInvariant, PTL DEF Spec, IsPool, Pool!Spec
=============================================================================
