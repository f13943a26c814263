----------------------------- MODULE ReaderProofs -----------------------------
(***************************************************************************)
(* Proofs about TrieReaders: what a ForEach reports and what a batch       *)
(* answers while writers go on, for any number of writers, any routes, any *)
(* number of lanes and batches of any length.                              *)
(***************************************************************************)
EXTENDS TrieReaders, HashTrieProofs, SequenceTheorems, FunctionTheorems

\* A nonempty set of naturals has a least element.
LEMMA Least ==
  ASSUME NEW T, T \subseteq Nat, T # {}
  PROVE  \E x \in T : \A y \in T : x <= y
<1> DEFINE R == OpToRel(<, Nat)
<1>1. IsWellFoundedOn(R, Nat)
  BY NatLessThanWellFounded
<1>2. \E x \in T : \A y \in T : ~ (<<y, x>> \in R)
  <2> HIDE DEF R
  <2> QED BY <1>1, WFMin
<1>3. \A x, y \in Nat : y < x => <<y, x>> \in R
  BY DEF OpToRel
<1> HIDE DEF R
<1>4. PICK x \in T : \A y \in T : ~ (<<y, x>> \in R)
  BY <1>2
<1>5. ASSUME NEW y \in T PROVE x <= y
  <2>1. x \in Nat /\ y \in Nat /\ ~ (<<y, x>> \in R)
    BY <1>4
  <2>2. ~ (y < x)
    BY <2>1, <1>3
  <2> QED BY <2>1, <2>2
<1> QED BY <1>5

\* The top of a stack is taken off, ...
LEMMA DropTop ==
  ASSUME NEW S, NEW s \in Seq(S), s # << >>
  PROVE  LET r == SubSeq(s, 1, Len(s) - 1) IN
         /\ r \in Seq(S) /\ Len(r) = Len(s) - 1
         /\ \A i \in 1..(Len(s) - 1) : r[i] = s[i]
<1>1. Len(s) \in Nat /\ Len(s) > 0
  OBVIOUS
<1> DEFINE m == Len(s) - 1
<1>2. \A i \in 1..m : s[i] \in S
  BY <1>1
<1>3. 1 \in Int /\ m \in Int /\ m - 1 + 1 = m /\ m >= 0
  BY <1>1
<1> HIDE DEF m
<1>4. /\ SubSeq(s, 1, m) \in Seq(S)
      /\ Len(SubSeq(s, 1, m)) = IF 1 <= m THEN m - 1 + 1 ELSE 0
      /\ \A i \in 1..(m - 1 + 1) : SubSeq(s, 1, m)[i] = s[1 + i - 1]
  BY <1>2, <1>3, SubSeqProperties
<1>5. Len(SubSeq(s, 1, m)) = m
  BY <1>3, <1>4
<1>6. \A i \in 1..m : SubSeq(s, 1, m)[i] = s[i]
  <2> SUFFICES ASSUME NEW i \in 1..m PROVE SubSeq(s, 1, m)[i] = s[i]
    OBVIOUS
  <2>1. 1 + i - 1 = i
    BY <1>3
  <2> QED BY <2>1, <1>3, <1>4
<1> QED BY <1>4, <1>5, <1>6 DEF m

\* ... or replaced, ...
LEMMA ReplaceTop ==
  ASSUME NEW S, NEW s \in Seq(S), s # << >>, NEW x \in S
  PROVE  LET r == Append(SubSeq(s, 1, Len(s) - 1), x) IN
         /\ r \in Seq(S) /\ Len(r) = Len(s) /\ r[Len(s)] = x
         /\ \A i \in 1..(Len(s) - 1) : r[i] = s[i]
<1>1. Len(s) \in Nat /\ Len(s) > 0
  OBVIOUS
<1>2. /\ SubSeq(s, 1, Len(s) - 1) \in Seq(S)
      /\ Len(SubSeq(s, 1, Len(s) - 1)) = Len(s) - 1
      /\ \A i \in 1..(Len(s) - 1) : SubSeq(s, 1, Len(s) - 1)[i] = s[i]
  BY <1>1, DropTop
<1> QED BY <1>1, <1>2

\* ... or covered.
LEMMA PushTop ==
  ASSUME NEW S, NEW s \in Seq(S), NEW x \in S
  PROVE  LET r == Append(s, x) IN
         /\ r \in Seq(S) /\ Len(r) = Len(s) + 1 /\ r[Len(s) + 1] = x
         /\ \A i \in 1..Len(s) : r[i] = s[i]
  OBVIOUS
------------------------------------------------------------------------------
(***************************************************************************)
(* One load of a slot, and one step of a writer.                           *)
(***************************************************************************)

\* A slot on a key's route holds the node that owns the prefix of the key it
\* stands for, and is empty only when no published node is at or below it.
LEMMA ReadSlot ==
  ASSUME TypeOK, Shape, NEW k \in Keys, NEW s \in Slots, NEW d \in Nat, OnRoute(k, s, d)
  PROVE  /\ slot[s] # Null => /\ slot[s] \in Published /\ level[slot[s]] = d
                              /\ Agree(k, nkey[slot[s]], d + 1)
         /\ \A n \in Published : level[n] >= d /\ Agree(k, nkey[n], d + 1) =>
              slot[s] # Null /\ Agree(nkey[n], nkey[slot[s]], d + 1)
<1>1. ASSUME slot[s] # Null
      PROVE  /\ slot[s] \in Published /\ level[slot[s]] = d
             /\ Agree(k, nkey[slot[s]], d + 1)
  <2> DEFINE n == slot[s]
  <2>1. n \in Published /\ level[n] \in Nat
    BY <1>1, PublishedFacts DEF Shape
  <2>2. OnRoute(nkey[n], s, level[n])
    BY <1>1 DEF Shape, Placed
  <2>3. level[n] = d
    <3>1. \A m \in Published : level[m] + 1 # 0
      BY PublishedFacts DEF Shape
    <3> QED BY <2>2, <3>1 DEF OnRoute
  <2>4. Route[k][d] = Route[nkey[n]][d]
    BY <2>2, <2>3 DEF OnRoute
  <2>5. Agree(k, nkey[n], d)
    <3>1. CASE s[1] = Root
      BY <3>1 DEF OnRoute, Agree
    <3>2. CASE s[1] # Root
      <4>1. Agree(k, nkey[s[1]], d) /\ Agree(nkey[n], nkey[s[1]], d)
        BY <3>2, <2>2, <2>3 DEF OnRoute
      <4> QED BY <4>1, AgreeFacts
    <3> QED BY <3>1, <3>2
  <2> QED BY <2>1, <2>3, <2>4, <2>5, AgreeFacts
<1>2. ASSUME NEW n \in Published, level[n] >= d, Agree(k, nkey[n], d + 1)
      PROVE  slot[s] # Null /\ Agree(nkey[n], nkey[slot[s]], d + 1)
  <2>1. level[n] \in Nat /\ d \in 0..level[n]
    BY <1>2, PublishedFacts DEF Shape
  <2>2. PICK a \in Published : level[a] = d /\ Agree(nkey[n], nkey[a], d + 1)
    BY <2>1 DEF Shape, NoGap
  <2>3. Agree(k, nkey[a], d + 1)
    BY <1>2, <2>2, AgreeFacts
  <2>4. slot[s] = a
    BY <2>2, <2>3, Lookup
  <2> QED BY <2>2, <2>4, PublishedFacts DEF Shape
<1> QED BY <1>1, <1>2

\* A writer keeps every published node where and as it is, and publishes a
\* node only for a key that was absent.
LEMMA WriterStep ==
  ASSUME IInv, IInv', [Next]_vars
  PROVE  /\ \A n \in Published : /\ n \in Published' /\ nkey'[n] = nkey[n]
                                 /\ level'[n] = level[n]
         /\ \A n \in Published' \ Published : /\ nkey'[n] \in Keys
                                              /\ MapOf[nkey'[n]] = NoValue
<1>1. /\ \A s \in Slots : slot[s] # Null => slot'[s] = slot[s]
      /\ \A n \in Published : nkey'[n] = nkey[n] /\ level'[n] = level[n]
  <2>1. CASE UNCHANGED vars
    BY <2>1 DEF vars
  <2>2. ASSUME NEW t \in Threads, PutBegin(t) \/ GetBegin(t) \/ Step(t)
        PROVE  <1>1!2 /\ \A s \in Slots : slot[s] # Null => slot'[s] = slot[s]
    <3>1. CASE PutPublish(t)
      BY <3>1 DEF PutPublish, IInv, TypeOK
    <3>2. CASE PutCreate(t)
      <4>1. \A n \in Published : n # <<t, used[t] + 1>> /\ n \in Node
        <5>1. \A n \in Published : n[2] <= used[n[1]] /\ n \in Node
          BY PublishedFacts DEF IInv, Shape
        <5> QED BY <5>1 DEF IInv, TypeOK
      <4> QED BY <3>2, <4>1 DEF PutCreate, IInv, TypeOK
    <3>3. CASE ~ PutPublish(t) /\ ~ PutCreate(t)
      <4>1. slot' = slot /\ nkey' = nkey /\ level' = level
        BY <2>2, <3>3 DEF PutBegin, GetBegin, Begin, Step, LoadNode, GetMiss, GetHit,
             Descend, PutNoMemory, PutLoseRace, PutOverwrite, shared
      <4> QED BY <4>1
    <3> QED BY <3>1, <3>2, <3>3
  <2> QED BY <2>1, <2>2 DEF Next
<1>2. \A n \in Published : n \in Published'
  <2>1. \A n \in Published : \E s \in Slots : slot[s] = n /\ n # Null
    BY DEF Published
  <2> QED BY <1>1, <2>1 DEF Published
<1>3. ASSUME NEW n \in Published' \ Published
      PROVE  nkey'[n] \in Keys /\ MapOf[nkey'[n]] = NoValue
  <2>1. nkey'[n] \in Keys
    <3>1. PICK s \in Slots : slot'[s] = n /\ n # Null
      BY DEF Published
    <3> QED BY <3>1 DEF IInv, Shape, Placed
  <2>2. \A m \in Published : nkey[m] # nkey'[n]
    BY <1>1, <1>2 DEF IInv, Shape, KeyOnce
  <2>3. Holders(nkey'[n]) = {}
    BY <2>2 DEF Holders
  <2> QED BY <2>1, <2>3, MapFacts
<1> QED BY <1>1, <1>2, <1>3
------------------------------------------------------------------------------
(***************************************************************************)
(* The invariant of ForEach.  What a walk has still to visit is told by    *)
(* its frames: the node of the top frame, until it is reported, and the    *)
(* nodes below a branch that some frame has still to look at.              *)
(***************************************************************************)
OnList(n, i) ==
  /\ level[n] >= i - 1
  /\ Agree(nkey[n], nkey[frames[i].node], i - 1)
  /\ Route[nkey[n]][i - 1] \in frames[i].todo

Ahead(n) ==
  \/ frames # << >> /\ ~Top.visited /\ n = Top.node
  \/ \E i \in 1..Len(frames) : OnList(n, i)

\* The frames are a path from the root; the branch each took is not on its list.
FrameSet == [node : Node \cup {Root}, visited : BOOLEAN, todo : SUBSET Branches]
Stack ==
  /\ frames \in Seq(FrameSet)
  /\ \A i \in 1..Len(frames) :
       /\ i = 1 => frames[i].node = Root /\ frames[i].visited
       /\ i > 1 => frames[i].node \in Published /\ level[frames[i].node] = i - 2
       /\ i < Len(frames) => frames[i].visited
  /\ \A i, j \in 1..Len(frames) : i < j =>
       /\ Agree(nkey[frames[j].node], nkey[frames[i].node], i - 1)
       /\ Route[nkey[frames[j].node]][i - 1] \notin frames[i].todo

\* What was reported is a published node's, once, and behind the walk.
Told ==
  /\ reported \in Seq(Keys \X Values)
  /\ \A i, j \in 1..Len(reported) : reported[i][1] = reported[j][1] => i = j
  /\ \A i \in 1..Len(reported) :
       \E n \in Published : nkey[n] = reported[i][1] /\ ~Ahead(n)

\* What was there from the start is reported or ahead.
Covered ==
  InForEach => \A n \in Published : AlwaysThere(nkey[n]) =>
                 Ahead(n) \/ nkey[n] \in KeysIn(reported)

IterInv == /\ Stack /\ Told /\ Covered /\ SnapshotReported /\ OldOrNew
           /\ InForEach => ended = "no"

\* The history of a call holds what is true now.
Watched == /\ DOMAIN during = Keys
           /\ InForEach \/ InBatch => \A k \in Keys : MapOf[k] \in during[k]

\* One call at a time.
OneCall == /\ InForEach => phase = "idle"
           /\ InBatch => frames = << >> /\ reported = << >> /\ ended = "no"

LEMMA TopFacts ==
  ASSUME Stack, frames # << >>
  PROVE  \E d \in Nat :
           /\ Len(frames) = d + 1 /\ Top = frames[d + 1] /\ Top \in FrameSet
           /\ Top.node \in Node \cup {Root} /\ Top.visited \in BOOLEAN
           /\ Top.todo \in SUBSET Branches
<1>1. Len(frames) \in Nat /\ Len(frames) > 0 /\ frames \in Seq(FrameSet)
  BY DEF Stack
<1>2. PICK d \in Nat : Len(frames) = d + 1
  <2>1. Len(frames) - 1 \in Nat /\ Len(frames) = (Len(frames) - 1) + 1
    BY <1>1
  <2> QED BY <2>1
<1>3. Top \in FrameSet /\ Top = frames[d + 1]
  BY <1>1, <1>2 DEF Top
<1> QED BY <1>2, <1>3 DEF FrameSet

\* The next branch is one of those left.
LEMMA LowestFacts ==
  ASSUME NEW S, S \subseteq Branches, S # {}
  PROVE  Lowest(S) \in S
<1>1. \E b \in S : \A c \in S : b <= c
  BY Least, ForEachAssumption
<1> QED BY <1>1 DEF Lowest

\* Where the top frame's branch b leads.
LEMMA TopSlot ==
  ASSUME IInv, Stack, frames # << >>, NEW b \in Branches,
         NEW d \in Nat, Len(frames) = d + 1
  PROVE  LET s == <<Top.node, b>> IN
         /\ s \in Slots
         /\ \A n \in Published :
              /\ level[n] >= d /\ Agree(nkey[n], nkey[Top.node], d)
              /\ Route[nkey[n]][d] = b
              => slot[s] # Null /\ Agree(nkey[n], nkey[slot[s]], d + 1)
         /\ slot[s] # Null => /\ slot[s] \in Published /\ level[slot[s]] = d
                              /\ Agree(nkey[slot[s]], nkey[Top.node], d)
                              /\ Route[nkey[slot[s]]][d] = b
<1> DEFINE s == <<Top.node, b>>
<1>1. s \in Slots
  BY TopFacts DEF Slots
<1>2. /\ d = 0 => Top.node = Root
      /\ d # 0 => Top.node \in Published /\ Top.node # Root /\ d = level[Top.node] + 1
  <2>1. /\ d + 1 = 1 => frames[d + 1].node = Root
        /\ d + 1 > 1 => /\ frames[d + 1].node \in Published
                        /\ level[frames[d + 1].node] = (d + 1) - 2
    BY DEF Stack
  <2>2. Top = frames[d + 1]
    BY DEF Top
  <2>3. Root \notin Published /\ \A n \in Published : level[n] \in Nat
    BY PublishedFacts, TrieAssumption DEF IInv, Shape, Node
  <2> QED BY <2>1, <2>2, <2>3
<1>3. \A k : Agree(k, nkey[Top.node], d) /\ Route[k][d] = b => OnRoute(k, s, d)
  BY <1>2 DEF OnRoute
<1>4. ASSUME NEW n \in Published, level[n] >= d, Agree(nkey[n], nkey[Top.node], d),
             Route[nkey[n]][d] = b
      PROVE  slot[s] # Null /\ Agree(nkey[n], nkey[slot[s]], d + 1)
  <2>1. nkey[n] \in Keys /\ Agree(nkey[n], nkey[n], d + 1) /\ OnRoute(nkey[n], s, d)
    BY <1>3, <1>4, PublishedFacts DEF IInv, Shape, Agree
  <2> HIDE DEF s
  <2> QED BY <2>1, <1>1, <1>4, ReadSlot DEF IInv
<1>5. ASSUME slot[s] # Null
      PROVE  /\ slot[s] \in Published /\ level[slot[s]] = d
             /\ Agree(nkey[slot[s]], nkey[Top.node], d)
             /\ Route[nkey[slot[s]]][d] = b
  <2> DEFINE c == slot[s]
  <2>1. c \in Published /\ OnRoute(nkey[c], s, level[c]) /\ level[c] \in Nat
    BY <1>1, <1>5, PublishedFacts DEF IInv, Shape, Placed
  <2>2. level[c] = d
    BY <1>2, <2>1 DEF OnRoute
  <2>3. Agree(nkey[c], nkey[Top.node], d)
    <3>1. CASE d = 0
      BY <3>1 DEF Agree
    <3>2. CASE d # 0
      BY <3>2, <1>2, <2>1, <2>2 DEF OnRoute
    <3> QED BY <3>1, <3>2
  <2> QED BY <2>1, <2>2, <2>3 DEF OnRoute
<1> QED BY <1>1, <1>4, <1>5
------------------------------------------------------------------------------
(***************************************************************************)
(* The steps of ForEach.                                                   *)
(***************************************************************************)

\* What the reader's own steps leave as it is.
LEMMA TrieUnchanged ==
  ASSUME UNCHANGED vars
  PROVE  /\ Published' = Published /\ MapOf' = MapOf
         /\ nkey' = nkey /\ nval' = nval /\ level' = level /\ slot' = slot
  BY DEF vars, Published, MapOf, Holders

\* What was reported stays so as long as no node it tells of is ahead again.
LEMMA ToldKept ==
  ASSUME Told, reported' = reported,
         \A n \in Published : /\ n \in Published' /\ nkey'[n] = nkey[n]
                              /\ Ahead(n)' => Ahead(n)
  PROVE  Told'
<1>1. ASSUME NEW i \in 1..Len(reported)
      PROVE  \E n \in Published' : nkey'[n] = reported[i][1] /\ ~Ahead(n)'
  <2>1. PICK n \in Published : nkey[n] = reported[i][1] /\ ~Ahead(n)
    BY <1>1 DEF Told
  <2> QED BY <2>1
<1>2. \A i \in 1..Len(reported) :
        \E n \in Published' : nkey'[n] = reported[i][1] /\ ~Ahead(n)'
  BY <1>1
<1>3. /\ reported' \in Seq(Keys \X Values)
      /\ \A i, j \in 1..Len(reported') : reported'[i][1] = reported'[j][1] => i = j
  BY DEF Told
<1> QED BY <1>2, <1>3 DEF Told

\* A key in the map is in a published node; its value is that node's.
LEMMA HolderOf ==
  ASSUME IInv, NEW k \in Keys, MapOf[k] # NoValue
  PROVE  \E n \in Published : nkey[n] = k
  BY MapFacts DEF Holders

\* A route has a branch at every level.
LEMMA RouteFacts ==
  ASSUME NEW k \in Keys, NEW d \in 0..MaxDepth
  PROVE  Route[k][d] \in Branches
  BY TrieAssumption

LEMMA WalkBegins ==
  ASSUME IInv, IterInv, ForEachBegin, UNCHANGED vars
  PROVE  IterInv'
<1>1. /\ frames' = <<Frame(Root, TRUE)>> /\ reported' = << >> /\ ended' = "no"
      /\ during' = [k \in Keys |-> {MapOf[k]}]
  BY DEF ForEachBegin, WatchBegin
<1>2. Published' = Published /\ nkey' = nkey /\ level' = level
  BY TrieUnchanged
<1>3. /\ Frame(Root, TRUE) \in FrameSet /\ Frame(Root, TRUE).node = Root
      /\ Frame(Root, TRUE).visited /\ Frame(Root, TRUE).todo = Branches
  BY DEF Frame, FrameSet
<1>4. /\ frames' \in Seq(FrameSet) /\ Len(frames') = 1 /\ frames'[1] = Frame(Root, TRUE)
      /\ reported' \in Seq(Keys \X Values) /\ Len(reported') = 0
  <2> DEFINE f == Frame(Root, TRUE)
  <2>1. f \in FrameSet
    BY <1>3
  <2> HIDE DEF f
  <2>2. <<f>> \in Seq(FrameSet) /\ Len(<<f>>) = 1 /\ <<f>>[1] = f
    BY <2>1
  <2>3. reported' \in Seq(Keys \X Values) /\ Len(reported') = 0
    BY <1>1
  <2> QED BY <1>1, <2>2, <2>3 DEF f
<1>5. Stack'
  <2>0. 1..Len(frames') = {1}
    <3>1. 1..1 = {1}
      OBVIOUS
    <3> QED BY <3>1, <1>4
  <2>1. \A i \in 1..Len(frames') : i = 1 /\ frames'[i] = Frame(Root, TRUE)
    BY <1>4, <2>0
  <2>2. \A i, j \in 1..Len(frames') : ~ (i < j)
    BY <2>0
  <2>3. \A i \in 1..Len(frames') :
          /\ i = 1 => frames'[i].node = Root /\ frames'[i].visited
          /\ ~ (i > 1) /\ ~ (i < Len(frames'))
    <3>1. ~ (1 > 1) /\ ~ (1 < 1)
      OBVIOUS
    <3> QED BY <1>3, <1>4, <2>1, <3>1
  <2> QED BY <1>4, <2>2, <2>3 DEF Stack
<1>6. Told' /\ SnapshotReported' /\ OldOrNew'
  BY <1>1, <1>4 DEF Told, SnapshotReported, OldOrNew
<1>7. ASSUME NEW n \in Published PROVE Ahead(n)'
  <2>1. nkey[n] \in Keys /\ level[n] \in Nat
    BY PublishedFacts DEF IInv, Shape
  <2>2. 0 \in 0..MaxDepth
    BY TrieAssumption
  <2>3. OnList(n, 1)'
    <3>1. \A j \in 0..(1 - 1 - 1) : FALSE
      OBVIOUS
    <3>2. Route[nkey[n]][0] \in Branches /\ 1 - 1 = 0
      BY <2>1, <2>2, RouteFacts
    <3>4. level[n] >= 0
      <4>1. \A l \in Nat : l >= 0
        OBVIOUS
      <4> QED BY <2>1, <4>1
    <3>3. frames'[1].todo = Branches
      BY <1>3, <1>4
    <3> QED BY <1>2, <3>1, <3>2, <3>3, <3>4 DEF OnList, Agree
  <2> QED BY <2>3, <1>4 DEF Ahead
<1>8. Covered'
  BY <1>2, <1>7 DEF Covered
<1> QED BY <1>1, <1>5, <1>6, <1>8 DEF IterInv

\* The frames of a walk that goes on with the same path.
SamePath(d) ==
  /\ frames' \in Seq(FrameSet) /\ Len(frames') = d + 1
  /\ \A i \in 1..d : frames'[i] = frames[i]
  /\ frames'[d + 1].node = frames[d + 1].node
  /\ frames'[d + 1].todo \subseteq frames[d + 1].todo

LEMMA PathKept ==
  ASSUME Stack, UNCHANGED vars, NEW d \in Nat, Len(frames) = d + 1, SamePath(d),
         d = 0 => frames'[d + 1].visited
  PROVE  Stack'
<1>1. Published' = Published /\ nkey' = nkey /\ level' = level
  BY TrieUnchanged
<1>2. \A i \in 1..(d + 1) : /\ frames'[i].node = frames[i].node
                            /\ frames'[i].todo \subseteq frames[i].todo
                            /\ i < d + 1 => frames'[i] = frames[i]
  BY DEF SamePath
<1>3. ASSUME NEW i \in 1..(d + 1)
      PROVE  /\ i = 1 => frames'[i].node = Root /\ frames'[i].visited
             /\ i > 1 => frames'[i].node \in Published /\ level[frames'[i].node] = i - 2
             /\ i < d + 1 => frames'[i].visited
  <2>1. /\ i = 1 => frames[i].node = Root /\ frames[i].visited
        /\ i > 1 => frames[i].node \in Published /\ level[frames[i].node] = i - 2
        /\ i < d + 1 => frames[i].visited
    BY DEF Stack
  <2>2. CASE i < d + 1
    BY <2>1, <2>2, <1>2
  <2>3. CASE i = d + 1
    BY <2>1, <2>3, <1>2
  <2> QED BY <2>2, <2>3
<1>4. ASSUME NEW i \in 1..(d + 1), NEW j \in 1..(d + 1), i < j
      PROVE  /\ Agree(nkey[frames'[j].node], nkey[frames'[i].node], i - 1)
             /\ Route[nkey[frames'[j].node]][i - 1] \notin frames'[i].todo
  <2>1. /\ Agree(nkey[frames[j].node], nkey[frames[i].node], i - 1)
        /\ Route[nkey[frames[j].node]][i - 1] \notin frames[i].todo
    BY <1>4 DEF Stack
  <2> QED BY <2>1, <1>2
<1>5. frames' \in Seq(FrameSet) /\ Len(frames') = d + 1
  BY DEF SamePath
<1> QED BY <1>1, <1>3, <1>4, <1>5 DEF Stack, Agree

LEMMA AheadOnPath ==
  ASSUME Stack, UNCHANGED vars, NEW d \in Nat, Len(frames) = d + 1, SamePath(d),
         frames'[d + 1].visited
  PROVE  /\ \A n : Ahead(n)' => \E i \in 1..(d + 1) : OnList(n, i)
         /\ \A n : \A i \in 1..d : OnList(n, i) => Ahead(n)'
         /\ \A n : /\ OnList(n, d + 1) /\ Route[nkey[n]][d] \in frames'[d + 1].todo
                   => Ahead(n)'
<1>1. nkey' = nkey /\ level' = level
  BY TrieUnchanged
<1>2. \A n : \A i \in 1..d : OnList(n, i)' <=> OnList(n, i)
  BY <1>1 DEF SamePath, OnList, Agree
<1>3. \A n : OnList(n, d + 1)' => OnList(n, d + 1)
  BY <1>1 DEF SamePath, OnList, Agree
<1>4. \A n : OnList(n, d + 1) /\ Route[nkey[n]][d] \in frames'[d + 1].todo => OnList(n, d + 1)'
  <2>1. d + 1 - 1 = d
    OBVIOUS
  <2> QED BY <1>1, <2>1 DEF SamePath, OnList, Agree
<1>5. Len(frames') = d + 1 /\ Top' = frames'[d + 1]
  BY DEF SamePath, Top
<1>6. ASSUME NEW n PROVE Ahead(n)' <=> \E i \in 1..(d + 1) : OnList(n, i)'
  BY <1>5 DEF Ahead
<1>7. \A i \in 1..(d + 1) : i \in 1..d \/ i = d + 1
  OBVIOUS
<1>8. d + 1 \in 1..(d + 1) /\ \A i \in 1..d : i \in 1..(d + 1)
  OBVIOUS
<1> QED BY <1>2, <1>3, <1>4, <1>6, <1>7, <1>8

\* The top frame is replaced.
LEMMA TopReplaced ==
  ASSUME Stack, frames # << >>, NEW d \in Nat, Len(frames) = d + 1, NEW f \in FrameSet
  PROVE  LET g == Append(Below, f) IN
         /\ g \in Seq(FrameSet) /\ Len(g) = d + 1 /\ g[d + 1] = f
         /\ \A i \in 1..d : g[i] = frames[i]
<1>1. frames \in Seq(FrameSet)
  BY DEF Stack
<1>2. (d + 1) - 1 = d
  OBVIOUS
<1> QED BY <1>1, <1>2, ReplaceTop DEF Below

\* The top frame's node is reported.
LEMMA WalkVisits ==
  ASSUME IInv, IterInv, Watched, UNCHANGED vars, NEW stop \in BOOLEAN, Visit(stop)
  PROVE  IterInv'
<1> DEFINE f == [Top EXCEPT !.visited = TRUE]
<1>0. PICK n0 : n0 = Top.node
  OBVIOUS
<1>1. /\ frames # << >> /\ ~Top.visited
      /\ reported' = Append(reported, <<nkey[n0], nval[n0]>>)
      /\ frames' = IF stop THEN << >> ELSE Append(Below, f)
      /\ ended' = IF stop THEN "stopped" ELSE "no"
      /\ stop => \A k \in Keys : during'[k] = {}
      /\ ~stop => during' = during
      /\ Stack /\ Told /\ Covered
  BY <1>0 DEF Visit, WatchEnd, IterInv
<1>2. Published' = Published /\ nkey' = nkey /\ level' = level
  BY TrieUnchanged
<1>3. PICK d \in Nat : /\ Len(frames) = d + 1 /\ Top = frames[d + 1] /\ Top \in FrameSet
                       /\ Top.visited \in BOOLEAN
  BY <1>1, TopFacts
<1>4. /\ n0 \in Published /\ level[n0] = d - 1 /\ d > 0
      /\ \A i \in 1..d : Route[nkey[n0]][i - 1] \notin frames[i].todo
  <2>3. d + 1 \in 1..(d + 1) /\ \A i \in 1..d : i \in 1..(d + 1) /\ i < d + 1
    OBVIOUS
  <2>4. /\ d + 1 = 1 => frames[d + 1].visited
        /\ d + 1 > 1 => /\ frames[d + 1].node \in Published
                        /\ level[frames[d + 1].node] = (d + 1) - 2
    BY <1>1, <1>3, <2>3 DEF Stack
  <2>5. \A i \in 1..d : Route[nkey[frames[d + 1].node]][i - 1] \notin frames[i].todo
    BY <1>1, <1>3, <2>3 DEF Stack
  <2>1. /\ d + 1 = 1 => frames[d + 1].visited
        /\ d + 1 > 1 => /\ frames[d + 1].node \in Published
                        /\ level[frames[d + 1].node] = (d + 1) - 2
        /\ \A i \in 1..d : Route[nkey[frames[d + 1].node]][i - 1] \notin frames[i].todo
    BY <2>4, <2>5
  <2>2. d > 0
    BY <1>1, <1>3, <2>1
  <2> QED BY <1>0, <1>3, <2>1, <2>2
<1>5. ~stop => /\ SamePath(d) /\ frames'[d + 1].visited
               /\ frames'[d + 1].todo = frames[d + 1].todo
  <2> SUFFICES ASSUME ~stop
               PROVE  /\ SamePath(d) /\ frames'[d + 1].visited
                      /\ frames'[d + 1].todo = frames[d + 1].todo
    OBVIOUS
  <2>1. f \in FrameSet /\ f.node = Top.node /\ f.todo = Top.todo /\ f.visited
    BY <1>3 DEF FrameSet
  <2>2. frames' = Append(Below, f)
    BY <1>1
  <2> HIDE DEF f
  <2>3. /\ frames' \in Seq(FrameSet) /\ Len(frames') = d + 1 /\ frames'[d + 1] = f
        /\ \A i \in 1..d : frames'[i] = frames[i]
    BY <1>1, <1>3, <2>1, <2>2, TopReplaced
  <2> QED BY <1>3, <2>1, <2>3 DEF SamePath
<1>6. stop => Len(frames') = 0 /\ frames' = << >> /\ frames' \in Seq(FrameSet)
  BY <1>1
<1>7. Stack'
  <2>1. CASE ~stop
    BY <2>1, <1>1, <1>3, <1>5, PathKept
  <2>2. CASE stop
    BY <2>2, <1>6 DEF Stack
  <2> QED BY <2>1, <2>2
<1>8. /\ \A n : Ahead(n)' => Ahead(n)
      /\ ~Ahead(n0)'
      /\ ~stop => \A n : Ahead(n) => n = n0 \/ Ahead(n)'
  <2>1. CASE stop
    BY <2>1, <1>6 DEF Ahead
  <2>2. CASE ~stop
    <3>1. /\ \A n : Ahead(n)' => \E i \in 1..(d + 1) : OnList(n, i)
          /\ \A n : \A i \in 1..d : OnList(n, i) => Ahead(n)'
          /\ \A n : /\ OnList(n, d + 1) /\ Route[nkey[n]][d] \in frames'[d + 1].todo
                    => Ahead(n)'
      BY <2>2, <1>1, <1>3, <1>5, AheadOnPath
    <3>2. \A n : Ahead(n) => n = n0 \/ \E i \in 1..(d + 1) : OnList(n, i)
      BY <1>0, <1>3 DEF Ahead
    <3>3. frames'[d + 1].todo = frames[d + 1].todo
      BY <2>2, <1>5
    <3>4. \A n : OnList(n, d + 1) => Ahead(n)'
      <4>1. (d + 1) - 1 = d
        OBVIOUS
      <4> QED BY <3>1, <3>3, <4>1 DEF OnList
    <3>5. \A i \in 1..(d + 1) : i \in 1..d \/ i = d + 1
      OBVIOUS
    <3>6. \A n : (\E i \in 1..(d + 1) : OnList(n, i)) => Ahead(n) /\ Ahead(n)'
      BY <3>1, <3>4, <3>5, <1>3 DEF Ahead
    <3>7. ASSUME NEW i \in 1..(d + 1), OnList(n0, i) PROVE FALSE
      <4>1. CASE i = d + 1
        BY <3>7, <4>1, <1>4 DEF OnList
      <4>2. CASE i \in 1..d
        BY <3>7, <4>2, <1>4 DEF OnList
      <4> QED BY <4>1, <4>2, <3>5
    <3>8. ~Ahead(n0)'
      BY <3>1, <3>7
    <3>9. \A n : Ahead(n)' => Ahead(n)
      BY <3>1, <3>6
    <3>10. \A n : Ahead(n) => n = n0 \/ Ahead(n)'
      BY <3>2, <3>6
    <3> QED BY <3>8, <3>9, <3>10
  <2> QED BY <2>1, <2>2
<1>9. Ahead(n0)
  BY <1>0, <1>1 DEF Ahead
<1>10. /\ nkey[n0] \in Keys /\ nval[n0] \in Values /\ MapOf[nkey[n0]] = nval[n0]
  BY <1>4, PublishedFacts, MapFacts DEF IInv, Shape
<1> DEFINE e == <<nkey[n0], nval[n0]>>
<1>11. PICK m \in Nat :
         /\ Len(reported) = m /\ Len(reported') = m + 1 /\ reported'[m + 1] = e
         /\ reported' \in Seq(Keys \X Values) /\ \A i \in 1..m : reported'[i] = reported[i]
  <2>1. reported \in Seq(Keys \X Values) /\ e \in Keys \X Values
    BY <1>1, <1>10 DEF Told
  <2>2. reported' = Append(reported, e)
    BY <1>1
  <2> HIDE DEF e
  <2>3. Len(reported) \in Nat
    BY <2>1
  <2> QED BY <2>1, <2>2, <2>3, PushTop
<1>12. \A i \in 1..(m + 1) : i \in 1..m \/ i = m + 1
  OBVIOUS
<1>13. \A i \in 1..m : reported[i][1] # nkey[n0]
  BY <1>1, <1>4, <1>9, <1>11 DEF Told, IInv, Shape, KeyOnce
<1>14. Told'
  <2>1. e[1] = nkey[n0]
    OBVIOUS
  <2> HIDE DEF e
  <2>2. ASSUME NEW i \in 1..(m + 1), NEW j \in 1..(m + 1), reported'[i][1] = reported'[j][1]
        PROVE  i = j
    <3>1. CASE i \in 1..m /\ j \in 1..m
      BY <1>1, <1>11, <2>2, <3>1 DEF Told
    <3>2. CASE i = m + 1 /\ j \in 1..m
      BY <1>11, <1>13, <2>1, <2>2, <3>2
    <3>3. CASE i \in 1..m /\ j = m + 1
      BY <1>11, <1>13, <2>1, <2>2, <3>3
    <3> QED BY <1>12, <3>1, <3>2, <3>3
  <2>3. ASSUME NEW i \in 1..(m + 1)
        PROVE  \E n \in Published' : nkey'[n] = reported'[i][1] /\ ~Ahead(n)'
    <3>1. CASE i \in 1..m
      <4>1. PICK n \in Published : nkey[n] = reported[i][1] /\ ~Ahead(n)
        BY <1>1, <1>11, <3>1 DEF Told
      <4> QED BY <4>1, <1>2, <1>8, <1>11, <3>1
    <3>2. CASE i = m + 1
      <4>1. n0 \in Published' /\ nkey'[n0] = reported'[i][1]
        BY <1>2, <1>4, <1>11, <2>1, <3>2
      <4> QED BY <4>1, <1>8
    <3> QED BY <1>12, <3>1, <3>2
  <2> QED BY <1>11, <2>2, <2>3 DEF Told
<1>15. nkey[n0] \in KeysIn(reported)' /\ KeysIn(reported) \subseteq KeysIn(reported)'
  <2>1. m + 1 \in 1..(m + 1) /\ \A i \in 1..m : i \in 1..(m + 1)
    OBVIOUS
  <2>2. DOMAIN reported' = 1..(m + 1) /\ DOMAIN reported = 1..m
    BY <1>1, <1>11 DEF Told
  <2>3. reported'[m + 1][1] = nkey[n0]
    BY <1>11
  <2>4. ASSUME NEW k \in KeysIn(reported) PROVE k \in KeysIn(reported)'
    <3>1. PICK i \in 1..m : k = reported[i][1]
      BY <2>2 DEF KeysIn
    <3>2. i \in DOMAIN reported' /\ k = reported'[i][1]
      BY <3>1, <2>1, <2>2, <1>11
    <3> QED BY <3>2 DEF KeysIn
  <2> QED BY <2>1, <2>2, <2>3, <2>4 DEF KeysIn
<1>16. Covered'
  <2> SUFFICES ASSUME ~stop, NEW n \in Published, AlwaysThere(nkey[n])
               PROVE  Ahead(n)' \/ nkey[n] \in KeysIn(reported)'
    BY <1>1, <1>2 DEF Covered, InForEach, AlwaysThere
  <2>1. Ahead(n) \/ nkey[n] \in KeysIn(reported)
    BY <1>1 DEF Covered, InForEach
  <2> QED BY <2>1, <1>8, <1>15
<1>17. SnapshotReported'
  BY <1>1 DEF SnapshotReported
<1>18. OldOrNew'
  <2> SUFFICES ASSUME ~stop, NEW i \in 1..(m + 1)
               PROVE  reported'[i][2] \in during[reported'[i][1]]
    <3>1. DOMAIN reported' = 1..(m + 1)
      BY <1>11
    <3> QED BY <3>1, <1>1 DEF OldOrNew
  <2>1. CASE i \in 1..m
    <3>1. DOMAIN reported = 1..m
      BY <1>1, <1>11 DEF Told
    <3> QED BY <3>1, <2>1, <1>1, <1>11 DEF IterInv, OldOrNew
  <2>2. CASE i = m + 1
    <3>1. MapOf[nkey[n0]] \in during[nkey[n0]]
      BY <1>1, <1>10 DEF Watched, InForEach
    <3> QED BY <3>1, <2>2, <1>10, <1>11
  <2> QED BY <1>12, <2>1, <2>2
<1>19. InForEach' => ended' = "no"
  BY <1>1 DEF InForEach
<1> QED BY <1>7, <1>14, <1>16, <1>17, <1>18, <1>19 DEF IterInv

\* A step that reports nothing, ends nothing and loses nothing that is ahead.
LEMMA WalkGoesOn ==
  ASSUME IterInv, UNCHANGED vars, UNCHANGED <<reported, ended, during>>,
         frames # << >>, frames' # << >>, Stack',
         \A n \in Published : Ahead(n)' <=> Ahead(n)
  PROVE  IterInv'
<1>1. Published' = Published /\ nkey' = nkey
  BY TrieUnchanged
<1>2. Told'
  BY <1>1, ToldKept DEF IterInv
<1>3. Covered'
  BY <1>1 DEF IterInv, Covered, InForEach, AlwaysThere, KeysIn
<1>4. SnapshotReported' /\ OldOrNew' /\ (InForEach' => ended' = "no")
  BY DEF IterInv, SnapshotReported, OldOrNew, InForEach, AlwaysThere, KeysIn
<1> QED BY <1>2, <1>3, <1>4 DEF IterInv

\* The slot of the next branch is loaded.
LEMMA WalkLoads ==
  ASSUME IInv, IterInv, UNCHANGED vars, Child
  PROVE  IterInv'
<1>0. PICK b, p, c : b = Lowest(Top.todo) /\ p = Top.node /\ c = slot[<<p, b>>]
  OBVIOUS
<1> DEFINE f    == [Top EXCEPT !.todo = @ \ {b}]
           rest == Append(Below, f)
           g    == Frame(c, FALSE)
<1>1. /\ frames # << >> /\ Top.visited /\ Top.todo # {}
      /\ frames' = IF c = Null THEN rest ELSE Append(rest, g)
      /\ UNCHANGED <<reported, ended, during>> /\ Stack
  BY <1>0 DEF Child, IterInv
<1>2. Published' = Published /\ nkey' = nkey /\ level' = level
  BY TrieUnchanged
<1>3. PICK d \in Nat : /\ Len(frames) = d + 1 /\ Top = frames[d + 1] /\ Top \in FrameSet
                       /\ Top.todo \in SUBSET Branches
  BY <1>1, TopFacts
<1>4. b \in Top.todo /\ b \in Branches
  BY <1>0, <1>1, <1>3, LowestFacts
<1>5. /\ \A n \in Published :
           level[n] >= d /\ Agree(nkey[n], nkey[p], d) /\ Route[nkey[n]][d] = b
           => c # Null /\ Agree(nkey[n], nkey[c], d + 1)
      /\ c # Null => /\ c \in Published /\ level[c] = d /\ Agree(nkey[c], nkey[p], d)
                     /\ Route[nkey[c]][d] = b
  BY <1>0, <1>1, <1>3, <1>4, TopSlot
<1>6. /\ f \in FrameSet /\ f.node = frames[d + 1].node /\ f.todo = frames[d + 1].todo \ {b}
      /\ f.visited
  BY <1>1, <1>3 DEF FrameSet
<1> HIDE DEF f
<1>7. /\ rest \in Seq(FrameSet) /\ Len(rest) = d + 1 /\ rest[d + 1] = f
      /\ \A i \in 1..d : rest[i] = frames[i]
  BY <1>1, <1>3, <1>6, TopReplaced
<1> HIDE DEF rest
<1>8. (d + 1) - 1 = d /\ d + 1 \in 1..(d + 1) /\ \A i \in 1..(d + 1) : i \in 1..d \/ i = d + 1
  OBVIOUS
<1>9. \A n : OnList(n, d + 1) <=> /\ level[n] >= d /\ Agree(nkey[n], nkey[p], d)
                                  /\ Route[nkey[n]][d] \in Top.todo
  BY <1>0, <1>3, <1>8 DEF OnList
<1>10. \A n : Ahead(n) <=> \E i \in 1..(d + 1) : OnList(n, i)
  BY <1>1, <1>3 DEF Ahead
<1>11. CASE c = Null
  <2>1. frames' = rest /\ SamePath(d) /\ frames'[d + 1].visited
    BY <1>1, <1>6, <1>7, <1>11 DEF SamePath
  <2>2. Stack'
    BY <2>1, <1>1, <1>3, PathKept
  <2>3. /\ \A n : Ahead(n)' => \E i \in 1..(d + 1) : OnList(n, i)
        /\ \A n : \A i \in 1..d : OnList(n, i) => Ahead(n)'
        /\ \A n : /\ OnList(n, d + 1) /\ Route[nkey[n]][d] \in frames'[d + 1].todo
                  => Ahead(n)'
    BY <2>1, <1>1, <1>3, AheadOnPath
  <2>4. ASSUME NEW n \in Published, OnList(n, d + 1) PROVE Ahead(n)'
    <3>1. Route[nkey[n]][d] # b /\ Route[nkey[n]][d] \in Top.todo
      BY <2>4, <1>5, <1>9, <1>11
    <3>2. Route[nkey[n]][d] \in frames'[d + 1].todo
      BY <3>1, <2>1, <1>3, <1>6, <1>7
    <3> QED BY <3>2, <2>3, <2>4
  <2>5. \A n \in Published : Ahead(n)' <=> Ahead(n)
    BY <2>3, <2>4, <1>8, <1>10
  <2>6. frames' # << >>
    BY <2>1 DEF SamePath
  <2> QED BY <2>2, <2>5, <2>6, <1>1, WalkGoesOn
<1>12. CASE c # Null
  <2>1. /\ g \in FrameSet /\ g.node = c /\ ~g.visited /\ g.todo = Branches
        /\ c \in Node
    <3>1. c \in Published /\ Published \subseteq Node
      BY <1>5, <1>12, PublishedFacts DEF IInv, Shape
    <3> QED BY <3>1 DEF Frame, FrameSet
  <2> HIDE DEF g
  <2>2. /\ frames' \in Seq(FrameSet) /\ Len(frames') = d + 2 /\ frames'[d + 2] = g
        /\ frames'[d + 1] = f /\ \A i \in 1..d : frames'[i] = frames[i]
    <3>1. frames' = Append(rest, g) /\ (d + 1) + 1 = d + 2
      BY <1>1, <1>12
    <3>2. /\ frames' \in Seq(FrameSet) /\ Len(frames') = (d + 1) + 1 /\ frames'[(d + 1) + 1] = g
          /\ \A i \in 1..(d + 1) : frames'[i] = rest[i]
      BY <3>1, <2>1, <1>7, PushTop
    <3>3. \A i \in 1..d : i \in 1..(d + 1)
      OBVIOUS
    <3> QED BY <3>1, <3>2, <3>3, <1>7, <1>8
  <2>3. /\ (d + 2) - 1 = d + 1 /\ (d + 2) - 2 = d /\ d + 2 > 1 /\ d + 2 # 1
        /\ \A i \in 1..(d + 2) : i \in 1..(d + 1) \/ i = d + 2
        /\ \A i \in 1..(d + 1) : i \in 1..(d + 2) /\ i < d + 2 /\ i - 1 \in 0..d
        /\ d + 2 \in 1..(d + 2)
    OBVIOUS
  <2>4. \A i \in 1..(d + 1) : /\ frames'[i].node = frames[i].node
                              /\ frames'[i].todo \subseteq frames[i].todo
                              /\ frames'[i].visited
                              /\ i \in 1..d => frames'[i].todo = frames[i].todo
    <3>1. ASSUME NEW i \in 1..d
          PROVE  frames'[i] = frames[i] /\ frames[i].visited /\ i # d + 1
      BY <2>2, <1>1, <1>3 DEF Stack
    <3> QED BY <3>1, <2>2, <1>6, <1>8
  <2>5. Stack'
    <3>1. ASSUME NEW i \in 1..(d + 2)
          PROVE  /\ i = 1 => frames'[i].node = Root /\ frames'[i].visited
                 /\ i > 1 => frames'[i].node \in Published /\ level[frames'[i].node] = i - 2
                 /\ i < d + 2 => frames'[i].visited
      <4>1. CASE i \in 1..(d + 1)
        <5>1. /\ i = 1 => frames[i].node = Root
              /\ i > 1 => frames[i].node \in Published /\ level[frames[i].node] = i - 2
          BY <4>1, <1>1, <1>3 DEF Stack
        <5> QED BY <5>1, <4>1, <2>4
      <4>2. CASE i = d + 2
        BY <4>2, <2>1, <2>2, <2>3, <1>5, <1>12
      <4> QED BY <4>1, <4>2, <2>3
    <3>2. ASSUME NEW i \in 1..d, NEW a, Agree(a, nkey[p], d)
          PROVE  Agree(a, nkey[frames[i].node], i - 1) /\ Route[a][i - 1] = Route[nkey[p]][i - 1]
      <4>1. Agree(nkey[p], nkey[frames[i].node], i - 1)
        <5>1. i < d + 1 /\ i \in 1..(d + 1) /\ d + 1 \in 1..(d + 1)
          OBVIOUS
        <5> QED BY <5>1, <1>0, <1>1, <1>3 DEF Stack
      <4>2. i - 1 \in 0..d /\ i - 1 \in Nat /\ i - 1 \in 0..(d - 1)
        OBVIOUS
      <4>3. Agree(a, nkey[p], i - 1)
        BY <4>2, <3>2, AgreeFacts
      <4> QED BY <4>1, <4>2, <4>3, <3>2, AgreeFacts DEF Agree
    <3>3. ASSUME NEW i \in 1..(d + 2), NEW j \in 1..(d + 2), i < j
          PROVE  /\ Agree(nkey[frames'[j].node], nkey[frames'[i].node], i - 1)
                 /\ Route[nkey[frames'[j].node]][i - 1] \notin frames'[i].todo
      <4>0. i \in 1..(d + 1)
        BY <3>3
      <4>1. CASE j \in 1..(d + 1)
        <5>1. /\ Agree(nkey[frames[j].node], nkey[frames[i].node], i - 1)
              /\ Route[nkey[frames[j].node]][i - 1] \notin frames[i].todo
          BY <4>0, <4>1, <3>3, <1>1, <1>3 DEF Stack
        <5> QED BY <5>1, <4>0, <4>1, <2>4
      <4>2. CASE j = d + 2 /\ i = d + 1
        BY <4>2, <2>1, <2>2, <2>3, <2>4, <1>0, <1>3, <1>5, <1>6, <1>8, <1>12
      <4>3. CASE j = d + 2 /\ i \in 1..d
        <5>1. /\ Agree(nkey[c], nkey[frames[i].node], i - 1)
              /\ Route[nkey[c]][i - 1] = Route[nkey[p]][i - 1]
          BY <4>0, <4>3, <3>2, <1>5, <1>12
        <5>2. Route[nkey[p]][i - 1] \notin frames[i].todo
          <6>1. i < d + 1 /\ i \in 1..(d + 1) /\ d + 1 \in 1..(d + 1)
            BY <4>3
          <6> QED BY <6>1, <1>0, <1>1, <1>3 DEF Stack
        <5> QED BY <5>1, <5>2, <4>0, <4>3, <2>1, <2>2, <2>4
      <4>4. (i \in 1..d \/ i = d + 1) /\ (j \in 1..(d + 1) \/ j = d + 2)
        BY <4>0, <2>3, <1>8
      <4> QED BY <4>1, <4>2, <4>3, <4>4
    <3>4. \A i \in 1..Len(frames') :
            /\ i = 1 => frames'[i].node = Root /\ frames'[i].visited
            /\ i > 1 => frames'[i].node \in Published' /\ level'[frames'[i].node] = i - 2
            /\ i < Len(frames') => frames'[i].visited
      BY <3>1, <2>2, <1>2
    <3>5. \A i, j \in 1..Len(frames') : i < j =>
            /\ Agree(nkey'[frames'[j].node], nkey'[frames'[i].node], i - 1)
            /\ Route[nkey'[frames'[j].node]][i - 1] \notin frames'[i].todo
      BY <3>3, <2>2, <1>2
    <3> QED BY <3>4, <3>5, <2>2 DEF Stack, Agree
  <2>6. ASSUME NEW n \in Published
        PROVE  Ahead(n)' <=> Ahead(n)
    <3>1. /\ nkey[n] \in Keys /\ level[n] \in Nat /\ level[n] \in 0..MaxDepth
          /\ level[c] = d /\ c \in Published
      BY <1>5, <1>12, PublishedFacts DEF IInv, Shape, TypeOK
    <3>2. \A i \in 1..d : OnList(n, i)' <=> OnList(n, i)
      BY <2>2, <1>2 DEF OnList, Agree
    <3>3. OnList(n, d + 1)' <=> OnList(n, d + 1) /\ Route[nkey[n]][d] # b
      BY <2>2, <1>2, <1>6, <1>8 DEF OnList, Agree
    <3>4. OnList(n, d + 2)' <=> /\ level[n] >= d + 1 /\ Agree(nkey[n], nkey[c], d + 1)
                                /\ Route[nkey[n]][d + 1] \in Branches
      BY <2>1, <2>2, <2>3, <1>2 DEF OnList, Agree
    <3>5. Ahead(n)' <=> \/ n = c \/ \E i \in 1..(d + 2) : OnList(n, i)'
      <4>1. frames' # << >> /\ Top' = g
        BY <2>2 DEF Top
      <4> QED BY <4>1, <2>1, <2>2 DEF Ahead
    <3>6. ASSUME OnList(n, d + 1), Route[nkey[n]][d] = b
          PROVE  n = c \/ OnList(n, d + 2)'
      <4>1. Agree(nkey[n], nkey[c], d + 1) /\ level[n] >= d
        BY <3>6, <1>5, <1>9
      <4>2. CASE level[n] = d
        BY <4>1, <4>2, <3>1 DEF IInv, Shape, OnePerPrefix
      <4>3. CASE level[n] # d
        <5>1. level[n] >= d + 1 /\ d + 1 \in 0..MaxDepth
          <6>1. \A l \in Nat : l >= d /\ l # d /\ l \in 0..MaxDepth
                   => l >= d + 1 /\ d + 1 \in 0..MaxDepth
            BY TrieAssumption
          <6> QED BY <6>1, <4>1, <4>3, <3>1
        <5>2. Route[nkey[n]][d + 1] \in Branches
          BY <5>1, <3>1, RouteFacts
        <5> QED BY <5>1, <5>2, <4>1, <3>4
      <4> QED BY <4>2, <4>3
    <3>7. ASSUME n = c \/ OnList(n, d + 2)'
          PROVE  OnList(n, d + 1)
      <4>1. level[n] >= d /\ Agree(nkey[n], nkey[c], d + 1)
        <5>1. \A l \in Nat : (l >= d + 1 => l >= d) /\ (l = d => l >= d)
          OBVIOUS
        <5> QED BY <5>1, <3>1, <3>4, <3>7 DEF Agree
      <4>2. Agree(nkey[n], nkey[c], d) /\ Route[nkey[n]][d] = b
        BY <4>1, <1>5, <1>12, AgreeFacts
      <4>3. Agree(nkey[n], nkey[p], d)
        BY <4>2, <1>5, <1>12, AgreeFacts
      <4> QED BY <4>1, <4>2, <4>3, <1>4, <1>9
    <3> QED BY <3>2, <3>3, <3>5, <3>6, <3>7, <2>3, <1>8, <1>10
  <2>7. frames' # << >>
    BY <2>2
  <2> QED BY <2>5, <2>6, <2>7, <1>1, WalkGoesOn
<1> QED BY <1>11, <1>12

\* All children of the top frame's node have been seen.
LEMMA WalkLeaves ==
  ASSUME IInv, IterInv, Watched, UNCHANGED vars, Leave
  PROVE  IterInv'
<1>1. /\ frames # << >> /\ Top.visited /\ Top.todo = {} /\ frames' = Below
      /\ ended' = IF Below = << >> THEN "all" ELSE "no"
      /\ UNCHANGED <<reported, during>> /\ Stack /\ Told /\ Covered
  BY DEF Leave, IterInv
<1>2. Published' = Published /\ nkey' = nkey /\ level' = level
  BY TrieUnchanged
<1>3. PICK d \in Nat : Len(frames) = d + 1 /\ Top = frames[d + 1]
  BY <1>1, TopFacts
<1>4. /\ frames' \in Seq(FrameSet) /\ Len(frames') = d
      /\ \A i \in 1..d : frames'[i] = frames[i]
  <2>1. frames \in Seq(FrameSet) /\ (d + 1) - 1 = d
    BY <1>1 DEF Stack
  <2> QED BY <2>1, <1>1, <1>3, DropTop DEF Below
<1>5. /\ \A i \in 1..(d + 1) : i \in 1..d \/ i = d + 1
      /\ \A i \in 1..d : i \in 1..(d + 1) /\ i < d + 1
      /\ d = 0 \/ d \in 1..d
  OBVIOUS
<1>6. \A i \in 1..d : frames[i].visited
  BY <1>1, <1>3, <1>5 DEF Stack
<1>7. Stack'
  <2>1. ASSUME NEW i \in 1..d
        PROVE  /\ i = 1 => frames'[i].node = Root /\ frames'[i].visited
               /\ i > 1 => frames'[i].node \in Published /\ level[frames'[i].node] = i - 2
               /\ frames'[i].visited
    BY <1>1, <1>3, <1>4, <1>5, <1>6 DEF Stack
  <2>2. ASSUME NEW i \in 1..d, NEW j \in 1..d, i < j
        PROVE  /\ Agree(nkey[frames'[j].node], nkey[frames'[i].node], i - 1)
               /\ Route[nkey[frames'[j].node]][i - 1] \notin frames'[i].todo
    <3>1. /\ Agree(nkey[frames[j].node], nkey[frames[i].node], i - 1)
          /\ Route[nkey[frames[j].node]][i - 1] \notin frames[i].todo
      BY <2>2, <1>1, <1>3, <1>5 DEF Stack
    <3> QED BY <3>1, <1>4
  <2>3. \A i \in 1..Len(frames') :
          /\ i = 1 => frames'[i].node = Root /\ frames'[i].visited
          /\ i > 1 => frames'[i].node \in Published' /\ level'[frames'[i].node] = i - 2
          /\ i < Len(frames') => frames'[i].visited
    BY <1>2, <1>4, <2>1
  <2>4. \A i, j \in 1..Len(frames') : i < j =>
          /\ Agree(nkey'[frames'[j].node], nkey'[frames'[i].node], i - 1)
          /\ Route[nkey'[frames'[j].node]][i - 1] \notin frames'[i].todo
    BY <1>2, <1>4, <2>2
  <2> QED BY <1>4, <2>3, <2>4 DEF Stack, Agree
<1>8. \A n : Ahead(n)' <=> Ahead(n)
  <2> SUFFICES ASSUME NEW n PROVE Ahead(n)' <=> Ahead(n)
    OBVIOUS
  <2>1. \A i \in 1..d : OnList(n, i)' <=> OnList(n, i)
    BY <1>2, <1>4 DEF OnList, Agree
  <2>2. ~OnList(n, d + 1)
    BY <1>1, <1>3 DEF OnList
  <2>3. Ahead(n) <=> \E i \in 1..d : OnList(n, i)
    BY <1>1, <1>3, <1>5, <2>2 DEF Ahead
  <2>4. frames' # << >> => Top'.visited
    <3> SUFFICES ASSUME frames' # << >> PROVE Top'.visited
      OBVIOUS
    <3>1. d \in 1..d
      BY <1>4, <1>5
    <3> QED BY <3>1, <1>4, <1>6 DEF Top
  <2> QED BY <2>1, <2>3, <2>4, <1>4 DEF Ahead
<1>9. CASE Below # << >>
  <2>1. ended = "no"
    BY <1>1 DEF IterInv, InForEach
  <2> QED BY <2>1, <1>1, <1>7, <1>8, <1>9, WalkGoesOn
<1>10. CASE Below = << >>
  <2>1. frames' = << >> /\ Len(frames') = 0 /\ ended' = "all"
    BY <1>1, <1>10
  <2>2. \A n : ~Ahead(n)
    BY <2>1, <1>8 DEF Ahead
  <2>3. Told'
    BY <1>1, <1>2, <1>8, ToldKept
  <2>4. ASSUME NEW k \in Keys, AlwaysThere(k) PROVE k \in KeysIn(reported)
    <3>1. MapOf[k] # NoValue
      BY <2>4, <1>1 DEF Watched, InForEach, AlwaysThere
    <3>2. PICK n \in Published : nkey[n] = k
      BY <3>1, HolderOf
    <3> QED BY <2>2, <2>4, <3>2, <1>1 DEF Covered, InForEach
  <2>5. SnapshotReported'
    BY <2>4, <1>1 DEF SnapshotReported, AlwaysThere, KeysIn
  <2>6. Covered' /\ OldOrNew' /\ (InForEach' => ended' = "no")
    BY <2>1 DEF Covered, InForEach, OldOrNew
  <2> QED BY <2>3, <2>5, <2>6, <1>7 DEF IterInv
<1> QED BY <1>9, <1>10

\* A writer's step in the way of a walk.
LEMMA WalkWatches ==
  ASSUME IInv, IInv', IterInv, Watched, [Next]_vars,
         InForEach, Watch, UNCHANGED iter
  PROVE  IterInv'
<1>1. /\ frames' = frames /\ reported' = reported /\ ended' = ended
      /\ \A k \in Keys : during'[k] = during[k] \cup {MapOf'[k]}
      /\ frames # << >> /\ Stack /\ Told /\ Covered
  BY DEF iter, Watch, InForEach, IterInv
<1>2. /\ \A n \in Published : /\ n \in Published' /\ nkey'[n] = nkey[n]
                              /\ level'[n] = level[n]
      /\ \A n \in Published' \ Published : nkey'[n] \in Keys /\ MapOf[nkey'[n]] = NoValue
  BY WriterStep
<1>3. \A i \in 1..Len(frames) :
        /\ i > 1 => frames[i].node \in Published /\ nkey'[frames[i].node] = nkey[frames[i].node]
        /\ i > 1 => level'[frames[i].node] = level[frames[i].node]
  BY <1>1, <1>2 DEF Stack
<1>4. \A a, b : Agree(a, b, 1 - 1)
  BY DEF Agree
<1>6. Stack'
  <2>1. \A i \in 1..Len(frames) :
          /\ i = 1 => frames[i].node = Root /\ frames[i].visited
          /\ i > 1 => frames[i].node \in Published' /\ level'[frames[i].node] = i - 2
          /\ i < Len(frames) => frames[i].visited
    <3> SUFFICES ASSUME NEW i \in 1..Len(frames)
                 PROVE  /\ i = 1 => frames[i].node = Root /\ frames[i].visited
                        /\ i > 1 => frames[i].node \in Published' /\ level'[frames[i].node] = i - 2
                        /\ i < Len(frames) => frames[i].visited
      OBVIOUS
    <3>1. /\ i = 1 => frames[i].node = Root /\ frames[i].visited
          /\ i > 1 => frames[i].node \in Published /\ level[frames[i].node] = i - 2
          /\ i < Len(frames) => frames[i].visited
      BY <1>1 DEF Stack
    <3> QED BY <3>1, <1>2
  <2>2. ASSUME NEW i \in 1..Len(frames), NEW j \in 1..Len(frames), i < j
        PROVE  /\ Agree(nkey'[frames[j].node], nkey'[frames[i].node], i - 1)
               /\ Route[nkey'[frames[j].node]][i - 1] \notin frames[i].todo
    <3>1. /\ Agree(nkey[frames[j].node], nkey[frames[i].node], i - 1)
          /\ Route[nkey[frames[j].node]][i - 1] \notin frames[i].todo
      BY <2>2, <1>1 DEF Stack
    <3>2. j > 1 /\ (i = 1 \/ i > 1)
      BY <2>2
    <3>3. nkey'[frames[j].node] = nkey[frames[j].node]
      BY <3>2, <1>3
    <3>4. CASE i = 1
      BY <3>1, <3>3, <3>4, <1>4
    <3>5. CASE i > 1
      BY <3>1, <3>3, <3>5, <1>3
    <3> QED BY <3>2, <3>4, <3>5
  <2>3. frames \in Seq(FrameSet)
    BY <1>1 DEF Stack
  <2>4. \A i \in 1..Len(frames') :
          /\ i = 1 => frames'[i].node = Root /\ frames'[i].visited
          /\ i > 1 => frames'[i].node \in Published' /\ level'[frames'[i].node] = i - 2
          /\ i < Len(frames') => frames'[i].visited
    BY <1>1, <2>1
  <2>5. \A i, j \in 1..Len(frames') : i < j =>
          /\ Agree(nkey'[frames'[j].node], nkey'[frames'[i].node], i - 1)
          /\ Route[nkey'[frames'[j].node]][i - 1] \notin frames'[i].todo
    BY <1>1, <2>2
  <2> QED BY <1>1, <2>3, <2>4, <2>5 DEF Stack, Agree
<1>7. ASSUME NEW n \in Published PROVE Ahead(n)' <=> Ahead(n)
  <2>1. ASSUME NEW i \in 1..Len(frames) PROVE OnList(n, i)' <=> OnList(n, i)
    <3>1. i = 1 \/ i > 1
      BY <1>1 DEF Stack
    <3>2. CASE i = 1
      BY <3>2, <1>1, <1>2, <1>4 DEF OnList, Agree
    <3>3. CASE i > 1
      BY <3>3, <1>1, <1>2, <1>3 DEF OnList, Agree
    <3> QED BY <3>1, <3>2, <3>3
  <2> QED BY <2>1, <1>1 DEF Ahead, Top
<1>8. Told'
  BY <1>1, <1>2, <1>7, ToldKept
<1>9. Covered'
  <2> SUFFICES ASSUME NEW n \in Published', AlwaysThere(nkey[n])'
               PROVE  Ahead(n)' \/ nkey'[n] \in KeysIn(reported)'
    BY DEF Covered
  <2>1. CASE n \in Published
    <3>1. nkey[n] \in Keys
      BY <2>1, PublishedFacts DEF IInv, Shape
    <3>2. AlwaysThere(nkey[n])
      BY <3>1, <2>1, <1>1, <1>2 DEF AlwaysThere, Watched, InForEach
    <3> QED BY <3>2, <2>1, <1>1, <1>2, <1>7 DEF Covered, InForEach, KeysIn
  <2>2. CASE n \notin Published
    <3>1. nkey'[n] \in Keys /\ MapOf[nkey'[n]] = NoValue
      BY <2>2, <1>2
    <3>2. NoValue \in during[nkey'[n]]
      BY <3>1 DEF Watched
    <3> QED BY <3>1, <3>2, <1>1 DEF AlwaysThere
  <2> QED BY <2>1, <2>2
<1>10. ended' = "no"
  BY <1>1 DEF IterInv, InForEach
<1>11. OldOrNew'
  <2> SUFFICES ASSUME NEW i \in DOMAIN reported
               PROVE  reported[i][2] \in during'[reported[i][1]]
    BY <1>1 DEF OldOrNew
  <2>1. reported[i][1] \in Keys
    <3>1. reported \in Seq(Keys \X Values)
      BY <1>1 DEF Told
    <3>2. reported[i] \in Keys \X Values
      BY <3>1
    <3> QED BY <3>2
  <2> QED BY <2>1, <1>1 DEF IterInv, OldOrNew
<1> QED BY <1>6, <1>8, <1>9, <1>10, <1>11 DEF IterInv, SnapshotReported
------------------------------------------------------------------------------
(***************************************************************************)
(* The invariant of a batch.                                               *)
(***************************************************************************)
LanesTyped ==
  /\ batch \in Seq(Keys) /\ next \in 1..(Len(batch) + 1) /\ hits \in Nat
  /\ idx \in [Lane -> 0..Len(batch)]
  /\ lcur \in [Lane -> Node \cup {Null}] /\ ldepth \in [Lane -> 0..MaxDepth]
  /\ DOMAIN answer = 1..Len(batch)

\* A lane on its way is on the route of its key, and has left no node with it
\* behind that was there all the time; one that is not has a right answer.
LaneRight(i) ==
  idx[i] # 0 =>
    /\ lcur[i] = Null => answer[idx[i]] \in during[LaneKey(i)]
    /\ lcur[i] # Null =>
         /\ answer[idx[i]] = NoValue
         /\ lcur[i] \in Published /\ level[lcur[i]] = ldepth[i]
         /\ Agree(LaneKey(i), nkey[lcur[i]], ldepth[i] + 1)
         /\ \/ NoValue \in during[LaneKey(i)]
            \/ \A n \in Published : nkey[n] = LaneKey(i) => level[n] >= ldepth[i]

\* Each index started is some lane's, and no two lanes', or has its answer.
Accounted ==
  /\ \A i \in Lane : idx[i] < next
  /\ \A i, j \in Lane : idx[i] # 0 /\ idx[i] = idx[j] => i = j
  /\ \A j \in 1..(next - 1) : answer[j] \in during[batch[j]] \/ \E i \in Lane : idx[i] = j

Found == {j \in 1..(next - 1) : answer[j] # NoValue}
Counted == hits = Cardinality(Found)

LanesInv == LanesTyped /\ Accounted /\ Counted /\ \A i \in Lane : LaneRight(i)

\* Lanes are filled in order; a call that has returned has started every key
\* and has no lane left.
Phased ==
  /\ phase \in {"idle", "fill", "walk", "done"} /\ turn \in Lane
  /\ phase \in {"idle", "done"} => \A i \in Lane : idx[i] = 0
  /\ phase = "fill" => /\ \A i \in Lane : i >= turn => idx[i] = 0
                       /\ turn = 0 => next = 1
                       /\ turn > 0 /\ idx[0] = 0 => batch = << >>
  /\ phase = "walk" => idx[turn] # 0
  /\ phase = "idle" => next = 1
  /\ phase = "done" => next = Len(batch) + 1

\* Between calls the lanes' history is gone.
BatchInv == /\ LanesTyped /\ Accounted /\ Counted /\ Phased
            /\ InBatch => \A i \in Lane : LaneRight(i)

LEMMA BatchLength ==
  ASSUME LanesInv
  PROVE  \E L \in Nat : L = Len(batch)
  BY DEF LanesInv, LanesTyped

\* What a lane learns from the slot it loads.
LEMMA LaneLooks ==
  ASSUME IInv, NEW k \in Keys, NEW s \in Slots, NEW d \in Nat, OnRoute(k, s, d),
         NEW D, MapOf[k] \in D,
         NoValue \in D \/ \A n \in Published : nkey[n] = k => level[n] >= d
  PROVE  /\ slot[s] = Null => NoValue \in D
         /\ slot[s] # Null => /\ slot[s] \in Published /\ level[slot[s]] = d
                              /\ Agree(k, nkey[slot[s]], d + 1)
<1>1. ASSUME slot[s] = Null PROVE NoValue \in D
  <2> SUFFICES ASSUME MapOf[k] # NoValue PROVE NoValue \in D
    OBVIOUS
  <2>1. PICK n \in Published : nkey[n] = k
    BY HolderOf
  <2>2. Agree(k, nkey[n], d + 1)
    BY <2>1 DEF Agree
  <2>3. ~ (level[n] >= d)
    BY <2>2, <1>1, ReadSlot DEF IInv
  <2> QED BY <2>1, <2>3
<1> QED BY <1>1, ReadSlot DEF IInv

\* A lane that a step does not touch.
LEMMA LaneKept ==
  ASSUME UNCHANGED vars, UNCHANGED <<batch, during>>, NEW j \in Lane, LaneRight(j),
         idx'[j] = idx[j], lcur'[j] = lcur[j], ldepth'[j] = ldepth[j],
         idx[j] # 0 => answer'[idx[j]] = answer[idx[j]]
  PROVE  LaneRight(j)'
<1>1. Published' = Published /\ nkey' = nkey /\ level' = level
  BY TrieUnchanged
<1>2. LaneKey(j)' = LaneKey(j)
  BY DEF LaneKey
<1> QED BY <1>1, <1>2 DEF LaneRight, Agree

\* A lane without a key, or finished with it, takes the next one.
LEMMA LaneStarts ==
  ASSUME IInv, LanesInv, \A k \in Keys : MapOf[k] \in during[k],
         UNCHANGED vars, UNCHANGED <<batch, hits, during>>,
         NEW i \in Lane, Start(i), idx[i] = 0 \/ lcur[i] = Null
  PROVE  /\ LanesInv'
         /\ \A j \in Lane : j # i => idx'[j] = idx[j]
         /\ idx'[i] = 0 => next = Len(batch) + 1 /\ next' = next
<1>1. PICK L \in Nat : L = Len(batch)
  BY DEF LanesInv, LanesTyped
<1>2. /\ batch \in Seq(Keys) /\ next \in 1..(L + 1) /\ next \in Nat /\ hits \in Nat
      /\ idx \in [Lane -> 0..L] /\ lcur \in [Lane -> Node \cup {Null}]
      /\ ldepth \in [Lane -> 0..MaxDepth] /\ DOMAIN answer = 1..L
  BY <1>1 DEF LanesInv, LanesTyped
<1>3. CASE Rest(i)
  <2>1. /\ next > L /\ idx' = [idx EXCEPT ![i] = 0] /\ ldepth' = [ldepth EXCEPT ![i] = 0]
        /\ lcur' = lcur /\ next' = next /\ answer' = answer
    BY <1>1, <1>3 DEF Rest
  <2>2. /\ idx'[i] = 0 /\ \A j \in Lane : j # i => idx'[j] = idx[j] /\ ldepth'[j] = ldepth[j]
        /\ idx' \in [Lane -> 0..L] /\ ldepth' \in [Lane -> 0..MaxDepth]
    BY <2>1, <1>2, TrieAssumption
  <2>3. next = L + 1
    BY <2>1, <1>2
  <2>4. LanesTyped'
    BY <2>1, <2>2, <1>1, <1>2 DEF LanesTyped
  <2>5. Accounted'
    <3>1. \A j \in Lane : idx'[j] < next'
      BY <2>1, <2>2, <1>2 DEF LanesInv, Accounted
    <3>2. \A a, b \in Lane : idx'[a] # 0 /\ idx'[a] = idx'[b] => a = b
      BY <2>2 DEF LanesInv, Accounted
    <3>3. ASSUME NEW j \in 1..(next - 1)
          PROVE  answer[j] \in during[batch[j]] \/ \E a \in Lane : idx'[a] = j
      <4>1. CASE idx[i] = j
        <5>1. idx[i] # 0 /\ lcur[i] = Null
          BY <4>1, <1>2
        <5>2. answer[idx[i]] \in during[batch[idx[i]]]
          BY <5>1 DEF LanesInv, LaneRight, LaneKey
        <5> QED BY <4>1, <5>2
      <4>2. CASE idx[i] # j
        BY <4>2, <2>2 DEF LanesInv, Accounted
      <4> QED BY <4>1, <4>2
    <3> QED BY <3>1, <3>2, <3>3, <2>1 DEF Accounted
  <2>6. Counted'
    BY <2>1 DEF LanesInv, Counted, Found
  <2>7. \A j \in Lane : LaneRight(j)'
    <3> SUFFICES ASSUME NEW j \in Lane PROVE LaneRight(j)'
      OBVIOUS
    <3>1. CASE j = i
      BY <3>1, <2>2 DEF LaneRight
    <3>2. CASE j # i
      BY <3>2, <2>1, <2>2, LaneKept DEF LanesInv
    <3> QED BY <3>1, <3>2
  <2> QED BY <2>1, <2>2, <2>3, <2>4, <2>5, <2>6, <2>7, <1>1 DEF LanesInv
<1>4. CASE ~Rest(i)
  <2>0. PICK k, c : k = batch[next] /\ c = slot[<<Root, Route[k][0]>>]
    OBVIOUS
  <2>1. /\ next <= L /\ idx' = [idx EXCEPT ![i] = next] /\ ldepth' = [ldepth EXCEPT ![i] = 0]
        /\ lcur' = [lcur EXCEPT ![i] = c]
        /\ answer' = [answer EXCEPT ![next] = NoValue] /\ next' = next + 1
    BY <1>1, <1>4, <2>0 DEF Start
  <2>2. next \in 1..L
    BY <2>1, <1>2
  <2>3. k \in Keys
    BY <2>0, <2>2, <1>1, <1>2
  <2>4. /\ c = Null => NoValue \in during[k]
        /\ c # Null => c \in Published /\ c \in Node /\ level[c] = 0 /\ Agree(k, nkey[c], 0 + 1)
    <3>1. 0 \in 0..MaxDepth
      BY TrieAssumption
    <3>2. <<Root, Route[k][0]>> \in Slots
      BY <2>3, <3>1, RouteFacts DEF Slots
    <3>3. OnRoute(k, <<Root, Route[k][0]>>, 0)
      BY DEF OnRoute
    <3>4. \A n \in Published : level[n] >= 0
      <4>1. \A l \in Nat : l >= 0
        OBVIOUS
      <4> QED BY <4>1, PublishedFacts DEF IInv, Shape
    <3>5. /\ c = Null => NoValue \in during[k]
          /\ c # Null => c \in Published /\ level[c] = 0 /\ Agree(k, nkey[c], 0 + 1)
      BY <2>0, <2>3, <3>2, <3>3, <3>4, LaneLooks
    <3> QED BY <3>5, PublishedFacts DEF IInv, Shape
  <2>5. /\ idx'[i] = next /\ lcur'[i] = c /\ ldepth'[i] = 0
        /\ \A j \in Lane : j # i => /\ idx'[j] = idx[j] /\ ldepth'[j] = ldepth[j]
                                    /\ lcur'[j] = lcur[j]
        /\ idx' \in [Lane -> 0..L] /\ ldepth' \in [Lane -> 0..MaxDepth]
        /\ lcur' \in [Lane -> Node \cup {Null}]
    BY <2>1, <2>2, <2>4, <1>2, TrieAssumption
  <2>6. /\ DOMAIN answer' = 1..L /\ answer'[next] = NoValue
        /\ \A j \in 1..L : j # next => answer'[j] = answer[j]
        /\ next' \in 1..(L + 1) /\ next' - 1 = next /\ next # 0
        /\ \A j \in 1..next : j = next \/ j \in 1..(next - 1)
        /\ \A j \in 1..(next - 1) : j \in 1..L /\ j # next /\ j \in 1..next
    BY <2>1, <2>2, <1>2
  <2>7. LanesTyped'
    BY <2>5, <2>6, <1>1, <1>2 DEF LanesTyped
  <2>8. \A j \in Lane : idx[j] < next /\ idx[j] # next /\ (idx[j] # 0 => idx[j] \in 1..L)
    BY <1>2, <2>2 DEF LanesInv, Accounted
  <2>9. Accounted'
    <3>1. \A j \in Lane : idx'[j] < next'
      BY <2>1, <2>5, <2>8, <1>2
    <3>2. \A a, b \in Lane : idx'[a] # 0 /\ idx'[a] = idx'[b] => a = b
      BY <2>5, <2>8 DEF LanesInv, Accounted
    <3>3. ASSUME NEW j \in 1..next
          PROVE  answer'[j] \in during[batch[j]] \/ \E a \in Lane : idx'[a] = j
      <4>1. CASE j = next
        BY <4>1, <2>5
      <4>2. CASE j \in 1..(next - 1) /\ idx[i] = j
        <5>1. idx[i] # 0 /\ lcur[i] = Null
          BY <4>2, <1>2
        <5>2. answer[idx[i]] \in during[batch[idx[i]]]
          BY <5>1 DEF LanesInv, LaneRight, LaneKey
        <5> QED BY <4>2, <5>2, <2>6
      <4>3. CASE j \in 1..(next - 1) /\ idx[i] # j
        <5>1. answer[j] \in during[batch[j]] \/ \E a \in Lane : idx[a] = j
          BY <4>3 DEF LanesInv, Accounted
        <5> QED BY <4>3, <5>1, <2>5, <2>6
      <4> QED BY <4>1, <4>2, <4>3, <2>6
    <3> QED BY <3>1, <3>2, <3>3, <2>6 DEF Accounted
  <2>10. Counted'
    <3>1. Found' = Found
      BY <2>6 DEF Found
    <3> QED BY <3>1 DEF LanesInv, Counted
  <2>11. \A j \in Lane : LaneRight(j)'
    <3> SUFFICES ASSUME NEW j \in Lane PROVE LaneRight(j)'
      OBVIOUS
    <3>1. CASE j = i
      <4>1. LaneKey(i)' = k /\ idx'[i] = next
        BY <2>0, <2>5 DEF LaneKey
      <4>2. Published' = Published /\ nkey' = nkey /\ level' = level
        BY TrieUnchanged
      <4>3. \A n \in Published : level[n] >= 0
        <5>1. \A l \in Nat : l >= 0
          OBVIOUS
        <5> QED BY <5>1, PublishedFacts DEF IInv, Shape
      <4> QED BY <3>1, <4>1, <4>2, <4>3, <2>4, <2>5, <2>6 DEF LaneRight, Agree
    <3>2. CASE j # i
      BY <3>2, <2>5, <2>6, <2>8, LaneKept DEF LanesInv
    <3> QED BY <3>1, <3>2
  <2> QED BY <2>5, <2>6, <2>7, <2>9, <2>10, <2>11 DEF LanesInv
<1> QED BY <1>3, <1>4
------------------------------------------------------------------------------
(***************************************************************************)
(* The steps of a batch.                                                   *)
(***************************************************************************)

\* The turn after a lane's is another live lane's.
LEMMA AfterFacts ==
  ASSUME NEW i \in Lane, NEW live, live \subseteq Lane, live # {}
  PROVE  After(i, live) \in live
<1> DEFINE dist(j) == (j - i - 1) % Lanes
           T == {dist(j) : j \in live}
<1>1. \A j \in live : dist(j) \in Nat
  <2> SUFFICES ASSUME NEW j \in live PROVE dist(j) \in Nat
    OBVIOUS
  <2>1. j \in Int /\ i \in Int /\ Lanes \in Nat \ {0}
    BY BatchAssumption DEF Lane
  <2>2. j - i - 1 \in Int /\ Lanes \in Int /\ Lanes > 0
    BY <2>1
  <2> QED BY <2>2
<1> HIDE DEF dist
<1>2. T \subseteq Nat /\ T # {}
  BY <1>1
<1>3. PICK x \in T : \A y \in T : x <= y
  BY <1>2, Least
<1>4. \E j \in live : \A k \in live : dist(j) <= dist(k)
  BY <1>3
<1> QED BY <1>4 DEF After, dist

\* A call begins: no lane has a key.
LEMMA BatchBegins ==
  ASSUME IInv, BatchInv, UNCHANGED vars, NEW keys \in Batches, BatchBegin(keys)
  PROVE  BatchInv'
<1>1. /\ \A i \in Lane : idx[i] = 0
      /\ batch' = keys /\ phase' = "fill" /\ turn' = 0 /\ next' = 1 /\ hits' = 0
      /\ answer' = [j \in DOMAIN keys |-> Null]
      /\ idx' = idx /\ lcur' = lcur /\ ldepth' = ldepth
  BY DEF BatchBegin, lanes, BatchInv, Phased
<1>2. keys \in Seq(Keys) /\ 0 \in Lane
  BY BatchAssumption DEF Lane
<1>3. PICK L \in Nat : L = Len(keys) /\ DOMAIN keys = 1..L
  BY <1>2
<1>4. LanesTyped'
  <2>1. idx' \in [Lane -> 0..L]
    BY <1>1 DEF BatchInv, LanesTyped
  <2>2. DOMAIN answer' = 1..L /\ 1 \in 1..(L + 1) /\ 0 \in Nat
    BY <1>1, <1>3
  <2> QED BY <2>1, <2>2, <1>1, <1>2, <1>3 DEF BatchInv, LanesTyped
<1>5. \A j \in 1..(1 - 1) : FALSE
  OBVIOUS
<1>6. Accounted'
  <2>1. \A i \in Lane : idx'[i] < next'
    BY <1>1
  <2> QED BY <2>1, <1>1, <1>5 DEF Accounted
<1>7. Counted'
  <2>1. Found' = {}
    BY <1>1, <1>5 DEF Found
  <2> QED BY <2>1, <1>1, FS_EmptySet DEF Counted
<1>8. Phased'
  BY <1>1, <1>2 DEF Phased
<1>9. \A i \in Lane : LaneRight(i)'
  BY <1>1 DEF LaneRight
<1> QED BY <1>4, <1>6, <1>7, <1>8, <1>9 DEF BatchInv

\* The values a call has seen include those of now.
LEMMA BatchSees ==
  ASSUME IInv, BatchInv, Watched, phase \in {"fill", "walk"}
  PROVE  LanesInv /\ \A k \in Keys : MapOf[k] \in during[k]
  BY DEF BatchInv, InBatch, LanesInv, Watched

LEMMA LanesFill ==
  ASSUME IInv, BatchInv, Watched, UNCHANGED vars, Fill
  PROVE  BatchInv'
<1>1. /\ phase = "fill" /\ Start(turn) /\ UNCHANGED <<batch, hits, during>>
      /\ turn' = (turn + 1) % Lanes
      /\ phase' = IF turn < Lanes - 1 THEN "fill"
                  ELSE IF idx'[0] = 0 THEN "done" ELSE "walk"
  BY DEF Fill
<1>2. /\ turn \in Lane /\ \A i \in Lane : i >= turn => idx[i] = 0
      /\ turn = 0 => next = 1
      /\ turn > 0 /\ idx[0] = 0 => batch = << >>
  BY <1>1 DEF BatchInv, Phased
<1>3. turn \in Nat /\ turn <= Lanes - 1 /\ Lanes \in Nat /\ Lanes > 0 /\ 0 \in Lane
  BY <1>2, BatchAssumption DEF Lane
<1>4. idx[turn] = 0
  BY <1>2, <1>3
<1>5. /\ LanesInv'
      /\ \A j \in Lane : j # turn => idx'[j] = idx[j]
      /\ idx'[turn] = 0 => next = Len(batch) + 1 /\ next' = next
  BY <1>1, <1>2, <1>4, BatchSees, LaneStarts
<1>6. idx'[0] = 0 => batch = << >>
  <2> SUFFICES ASSUME idx'[0] = 0 PROVE batch = << >>
    OBVIOUS
  <2>1. CASE turn = 0
    <3>1. Len(batch) + 1 = 1
      BY <2>1, <1>2, <1>5
    <3>2. batch \in Seq(Keys)
      BY DEF BatchInv, LanesTyped
    <3>3. Len(batch) = 0
      <4>1. \A l \in Nat : l + 1 = 1 => l = 0
        OBVIOUS
      <4> QED BY <3>1, <3>2, <4>1
    <3> QED BY <3>2, <3>3
  <2>2. CASE turn # 0
    <3>1. turn > 0 /\ idx[0] = 0
      BY <2>2, <1>3, <1>5
    <3> QED BY <3>1, <1>2
  <2> QED BY <2>1, <2>2
<1>7. CASE turn < Lanes - 1
  <2>1. turn' = turn + 1 /\ turn + 1 \in Lane /\ turn + 1 > 0 /\ turn + 1 # 0
    <3>1. turn + 1 \in 0..(Lanes - 1) /\ turn + 1 > 0 /\ turn + 1 # 0
      BY <1>3, <1>7
    <3>2. (turn + 1) % Lanes = turn + 1
      BY <3>1, <1>3
    <3> QED BY <3>1, <3>2, <1>1 DEF Lane
  <2>2. phase' = "fill"
    BY <1>1, <1>7
  <2>3. \A i \in Lane : i >= turn + 1 => i >= turn /\ i # turn
    BY <1>3 DEF Lane
  <2>4. Phased'
    BY <2>1, <2>2, <2>3, <1>1, <1>2, <1>5, <1>6 DEF Phased
  <2> QED BY <2>4, <1>5 DEF BatchInv, LanesInv
<1>8. CASE ~ (turn < Lanes - 1)
  <2>1. turn' = 0
    <3>1. turn + 1 = Lanes
      BY <1>3, <1>8
    <3>2. Lanes % Lanes = 0
      BY <1>3
    <3> QED BY <3>1, <3>2, <1>1
  <2>2. CASE idx'[0] = 0
    <3>1. phase' = "done" /\ batch = << >> /\ batch' = << >>
      BY <2>2, <1>1, <1>6, <1>8
    <3>2. \A i \in Lane : idx'[i] = 0
      <4>1. Len(batch') = 0 /\ 0..0 = {0}
        BY <3>1
      <4> QED BY <4>1, <1>5 DEF LanesInv, LanesTyped
    <3>3. next' = Len(batch') + 1
      <4>1. next' \in 1..(0 + 1)
        BY <3>1, <1>5 DEF LanesInv, LanesTyped
      <4> QED BY <4>1, <3>1
    <3>4. Phased'
      BY <2>1, <3>1, <3>2, <3>3, <1>3 DEF Phased
    <3> QED BY <3>4, <1>5 DEF BatchInv, LanesInv
  <2>3. CASE idx'[0] # 0
    <3>1. phase' = "walk"
      BY <2>3, <1>1, <1>8
    <3>2. Phased'
      BY <2>1, <2>3, <3>1, <1>3 DEF Phased
    <3> QED BY <3>2, <1>5 DEF BatchInv, LanesInv
  <2> QED BY <2>2, <2>3
<1> QED BY <1>7, <1>8

LEMMA LanesRefill ==
  ASSUME IInv, BatchInv, Watched, UNCHANGED vars, Refill
  PROVE  BatchInv'
<1>1. /\ phase = "walk" /\ lcur[turn] = Null /\ Start(turn) /\ turn \in Lane
      /\ UNCHANGED <<batch, hits, during>>
      /\ IF Live' = {} THEN phase' = "done" /\ turn' = 0
                       ELSE phase' = "walk" /\ turn' = After(turn, Live')
  BY DEF Refill, BatchInv, Phased
<1>2. /\ LanesInv'
      /\ idx'[turn] = 0 => next = Len(batch) + 1 /\ next' = next
  BY <1>1, BatchSees, LaneStarts
<1>3. Live' \subseteq Lane /\ (\A i \in Live' : idx'[i] # 0)
      /\ (\A i \in Lane : idx'[i] # 0 => i \in Live')
  BY DEF Live
<1>4. 0 \in Lane
  BY BatchAssumption DEF Lane
<1>5. CASE Live' = {}
  <2>1. \A i \in Lane : idx'[i] = 0
    BY <1>3, <1>5
  <2>2. next' = Len(batch') + 1
    BY <2>1, <1>1, <1>2
  <2>3. Phased'
    BY <2>1, <2>2, <1>1, <1>4, <1>5 DEF Phased
  <2> QED BY <2>3, <1>2 DEF BatchInv, LanesInv
<1>6. CASE Live' # {}
  <2>1. After(turn, Live') \in Live'
    BY <1>1, <1>3, <1>6, AfterFacts
  <2>2. Phased'
    BY <2>1, <1>1, <1>3, <1>6 DEF Phased
  <2> QED BY <2>2, <1>2 DEF BatchInv, LanesInv
<1> QED BY <1>5, <1>6

\* The node visited is another key's.
LEMMA LanesDescend ==
  ASSUME IInv, BatchInv, Watched, UNCHANGED vars, LaneDescend
  PROVE  BatchInv'
<1>0. PICK i, k, n, c : /\ i = turn /\ k = LaneKey(i) /\ n = lcur[i]
                        /\ c = slot[<<n, Route[k][ldepth[i] + 1]>>]
  OBVIOUS
<1>1. /\ phase = "walk" /\ i \in Lane /\ idx[i] # 0 /\ n # Null /\ nkey[n] # k
      /\ ldepth[i] < MaxDepth
      /\ lcur' = [lcur EXCEPT ![i] = c] /\ ldepth' = [ldepth EXCEPT ![i] = @ + 1]
      /\ turn' = After(i, Live)
      /\ UNCHANGED <<batch, phase, next, idx, answer, hits, during>>
  BY <1>0 DEF LaneDescend, Matches, BatchInv, Phased
<1>2. LanesInv /\ \A a \in Keys : MapOf[a] \in during[a]
  BY <1>1, BatchSees
<1>3. PICK L \in Nat : L = Len(batch)
  BY <1>2, BatchLength
<1>4. /\ batch \in Seq(Keys) /\ idx \in [Lane -> 0..L]
      /\ lcur \in [Lane -> Node \cup {Null}] /\ ldepth \in [Lane -> 0..MaxDepth]
  BY <1>2, <1>3 DEF LanesInv, LanesTyped
<1>5. PICK d \in Nat : d = ldepth[i] /\ d + 1 \in 0..MaxDepth /\ d + 1 \in Nat
  <2>1. ldepth[i] \in 0..MaxDepth
    BY <1>1, <1>4
  <2>2. \A d \in 0..MaxDepth : d < MaxDepth => d \in Nat /\ d + 1 \in 0..MaxDepth /\ d + 1 \in Nat
    BY TrieAssumption
  <2> QED BY <2>1, <2>2, <1>1
<1>6. k \in Keys
  <2>1. idx[i] \in 1..L
    BY <1>1, <1>4
  <2> QED BY <2>1, <1>0, <1>3, <1>4 DEF LaneKey
<1>7. /\ answer[idx[i]] = NoValue /\ n \in Published /\ level[n] = d
      /\ Agree(k, nkey[n], d + 1)
      /\ \/ NoValue \in during[k]
         \/ \A m \in Published : nkey[m] = k => level[m] >= d
  BY <1>0, <1>1, <1>2, <1>5 DEF LanesInv, LaneRight
<1>8. NoValue \in during[k] \/ \A m \in Published : nkey[m] = k => level[m] >= d + 1
  <2> SUFFICES ASSUME NoValue \notin during[k], NEW m \in Published, nkey[m] = k
               PROVE  level[m] >= d + 1
    OBVIOUS
  <2>1. level[m] # d
    <3> SUFFICES ASSUME level[m] = d PROVE FALSE
      OBVIOUS
    <3>1. Agree(nkey[m], nkey[n], d + 1) /\ level[m] = level[n]
      BY <1>7
    <3>2. m = n
      BY <3>1, <1>7 DEF IInv, Shape, OnePerPrefix
    <3> QED BY <3>2, <1>1
  <2>2. level[m] >= d /\ level[m] \in Nat
    BY <1>7, PublishedFacts DEF IInv, Shape
  <2>3. \A l \in Nat : l >= d /\ l # d => l >= d + 1
    OBVIOUS
  <2> QED BY <2>1, <2>2, <2>3
<1>9. /\ c = Null => NoValue \in during[k]
      /\ c # Null => /\ c \in Published /\ c \in Node /\ level[c] = d + 1
                     /\ Agree(k, nkey[c], (d + 1) + 1)
  <2> DEFINE s == <<n, Route[k][d + 1]>>
  <2>1. s \in Slots /\ n # Root
    <3>1. n \in Node /\ n # Root
      BY <1>7, PublishedFacts, TrieAssumption DEF IInv, Shape, Node
    <3> QED BY <3>1, <1>5, <1>6, RouteFacts DEF Slots
  <2>2. OnRoute(k, s, d + 1)
    BY <2>1, <1>7 DEF OnRoute
  <2>3. c = slot[s]
    BY <1>0, <1>5
  <2> HIDE DEF s
  <2>4. /\ c = Null => NoValue \in during[k]
        /\ c # Null => /\ c \in Published /\ level[c] = d + 1
                       /\ Agree(k, nkey[c], (d + 1) + 1)
    BY <2>1, <2>2, <2>3, <1>2, <1>5, <1>6, <1>8, LaneLooks
  <2> QED BY <2>4, PublishedFacts DEF IInv, Shape
<1>10. /\ lcur'[i] = c /\ ldepth'[i] = d + 1
       /\ \A j \in Lane : j # i => lcur'[j] = lcur[j] /\ ldepth'[j] = ldepth[j]
       /\ lcur' \in [Lane -> Node \cup {Null}] /\ ldepth' \in [Lane -> 0..MaxDepth]
  BY <1>1, <1>4, <1>5, <1>9
<1>11. LanesTyped'
  BY <1>1, <1>2, <1>10 DEF LanesInv, LanesTyped
<1>12. Accounted' /\ Counted'
  BY <1>1, <1>2 DEF LanesInv, Accounted, Counted, Found
<1>13. ASSUME NEW j \in Lane PROVE LaneRight(j)'
  <2>1. CASE j = i
    <3>1. LaneKey(i)' = k /\ idx'[i] = idx[i] /\ answer' = answer /\ during' = during
      BY <1>0, <1>1 DEF LaneKey
    <3>2. Published' = Published /\ nkey' = nkey /\ level' = level
      BY TrieUnchanged
    <3> QED BY <2>1, <3>1, <3>2, <1>7, <1>8, <1>9, <1>10 DEF LaneRight, Agree
  <2>2. CASE j # i
    BY <2>2, <1>1, <1>2, <1>10, LaneKept DEF LanesInv
  <2> QED BY <2>1, <2>2
<1>14. Phased'
  <2>1. Live \subseteq Lane /\ i \in Live
    BY <1>1 DEF Live
  <2>2. After(i, Live) \in Live
    BY <2>1, <1>1, AfterFacts
  <2>3. turn' \in Lane /\ idx'[turn'] # 0
    BY <2>2, <1>1 DEF Live
  <2> QED BY <2>3, <1>1 DEF Phased
<1> QED BY <1>11, <1>12, <1>13, <1>14 DEF BatchInv

\* The node visited has the lane's key.
LEMMA LanesHit ==
  ASSUME IInv, BatchInv, Watched, UNCHANGED vars, LaneHit
  PROVE  BatchInv'
<1>0. PICK i, k, n, x : i = turn /\ k = LaneKey(i) /\ n = lcur[i] /\ x = idx[i]
  OBVIOUS
<1>1. /\ phase = "walk" /\ i \in Lane /\ x # 0 /\ n # Null /\ nkey[n] = k
      /\ answer' = [answer EXCEPT ![x] = nval[n]] /\ lcur' = [lcur EXCEPT ![i] = Null]
      /\ hits' = hits + 1
      /\ UNCHANGED <<batch, phase, turn, next, idx, ldepth, during>>
  BY <1>0 DEF LaneHit, Matches, BatchInv, Phased
<1>2. LanesInv /\ \A a \in Keys : MapOf[a] \in during[a]
  BY <1>1, BatchSees
<1>3. PICK L \in Nat : L = Len(batch)
  BY <1>2, BatchLength
<1>4. /\ batch \in Seq(Keys) /\ idx \in [Lane -> 0..L] /\ next \in 1..(L + 1)
      /\ lcur \in [Lane -> Node \cup {Null}] /\ DOMAIN answer = 1..L /\ hits \in Nat
  BY <1>2, <1>3 DEF LanesInv, LanesTyped
<1>5. x \in 1..L /\ x \in 1..(next - 1) /\ next - 1 \in 0..L
  <2>1. x < next /\ x \in 0..L
    BY <1>0, <1>1, <1>2, <1>4 DEF LanesInv, Accounted
  <2> QED BY <2>1, <1>1, <1>4
<1>6. k \in Keys /\ k = batch[x]
  BY <1>0, <1>3, <1>4, <1>5 DEF LaneKey
<1>7. answer[x] = NoValue /\ n \in Published
  BY <1>0, <1>1, <1>2 DEF LanesInv, LaneRight
<1>8. nval[n] # NoValue /\ nval[n] \in during[k]
  BY <1>1, <1>2, <1>6, <1>7, MapFacts
<1>9. /\ answer'[x] = nval[n] /\ \A j \in 1..L : j # x => answer'[j] = answer[j]
      /\ DOMAIN answer' = 1..L
      /\ lcur'[i] = Null /\ \A j \in Lane : j # i => lcur'[j] = lcur[j]
      /\ lcur' \in [Lane -> Node \cup {Null}]
  BY <1>1, <1>4, <1>5
<1>10. \A j \in 1..(next - 1) : j \in 1..L
  BY <1>4
<1>11. LanesTyped'
  BY <1>1, <1>2, <1>3, <1>4, <1>9 DEF LanesInv, LanesTyped
<1>12. Accounted'
  <2>1. ASSUME NEW j \in 1..(next - 1)
        PROVE  answer'[j] \in during[batch[j]] \/ \E a \in Lane : idx[a] = j
    <3>1. CASE j = x
      BY <3>1, <1>6, <1>8, <1>9
    <3>2. CASE j # x
      BY <3>2, <1>2, <1>9, <1>10 DEF LanesInv, Accounted
    <3> QED BY <3>1, <3>2
  <2> QED BY <2>1, <1>1, <1>2 DEF LanesInv, Accounted
<1>13. Counted'
  <2>1. Found' = Found \cup {x} /\ x \notin Found
    BY <1>1, <1>5, <1>7, <1>8, <1>9, <1>10 DEF Found
  <2>2. IsFiniteSet(Found)
    <3>1. IsFiniteSet(1..(next - 1))
      BY <1>4, FS_Interval
    <3> QED BY <3>1, FS_Subset DEF Found
  <2>3. Cardinality(Found') = Cardinality(Found) + 1
    BY <2>1, <2>2, FS_AddElement
  <2> QED BY <2>3, <1>1, <1>2 DEF LanesInv, Counted
<1>14. ASSUME NEW j \in Lane PROVE LaneRight(j)'
  <2>1. CASE j = i
    <3>1. LaneKey(i)' = k /\ idx'[i] = x /\ during' = during
      BY <1>0, <1>1 DEF LaneKey
    <3> QED BY <2>1, <3>1, <1>8, <1>9 DEF LaneRight
  <2>2. CASE j # i
    <3>1. idx[j] # 0 => idx[j] \in 1..L /\ idx[j] # x
      BY <2>2, <1>0, <1>1, <1>2, <1>4 DEF LanesInv, Accounted
    <3> QED BY <2>2, <3>1, <1>1, <1>2, <1>9, LaneKept DEF LanesInv
  <2> QED BY <2>1, <2>2
<1>15. Phased'
  BY <1>1 DEF BatchInv, Phased
<1> QED BY <1>11, <1>12, <1>13, <1>14, <1>15 DEF BatchInv

\* A writer's step in the way of a batch.
LEMMA LanesWatch ==
  ASSUME IInv, IInv', BatchInv, Watched, [Next]_vars, InBatch, Watch, UNCHANGED bvars
  PROVE  BatchInv'
<1>1. /\ UNCHANGED <<batch, phase, turn, next, idx, lcur, ldepth, answer, hits>>
      /\ \A k \in Keys : during'[k] = during[k] \cup {MapOf'[k]}
  BY DEF bvars, lanes, Watch
<1>2. /\ \A n \in Published : /\ n \in Published' /\ nkey'[n] = nkey[n]
                              /\ level'[n] = level[n]
      /\ \A n \in Published' \ Published : nkey'[n] \in Keys /\ MapOf[nkey'[n]] = NoValue
  BY WriterStep
<1>3. LanesInv /\ \A k \in Keys : MapOf[k] \in during[k]
  BY BatchSees DEF InBatch
<1>4. PICK L \in Nat : /\ L = Len(batch) /\ batch \in Seq(Keys) /\ idx \in [Lane -> 0..L]
                       /\ next \in 1..(L + 1)
  BY <1>3 DEF LanesInv, LanesTyped
<1>5. LanesTyped' /\ Counted' /\ Phased'
  BY <1>1, <1>3 DEF BatchInv, LanesInv, LanesTyped, Counted, Found, Phased
<1>6. Accounted'
  <2>1. \A j \in 1..(next - 1) : batch[j] \in Keys
    <3>1. \A j \in 1..(next - 1) : j \in 1..L
      BY <1>4
    <3> QED BY <3>1, <1>4
  <2>2. \A j \in 1..(next - 1) :
          answer[j] \in during'[batch[j]] \/ \E i \in Lane : idx[i] = j
    BY <2>1, <1>1, <1>3 DEF LanesInv, Accounted
  <2> QED BY <2>2, <1>1, <1>3 DEF LanesInv, Accounted
<1>7. ASSUME NEW i \in Lane, idx[i] # 0 PROVE LaneRight(i)'
  <2>0. PICK k : k = LaneKey(i)
    OBVIOUS
  <2>1. k \in Keys /\ LaneKey(i)' = k
    <3>1. idx[i] \in 1..L
      BY <1>4, <1>7
    <3> QED BY <2>0, <3>1, <1>1, <1>4 DEF LaneKey
  <2>2. during[k] \subseteq during'[k]
    BY <2>1, <1>1
  <2>3. /\ lcur[i] = Null => answer[idx[i]] \in during[k]
        /\ lcur[i] # Null =>
             /\ answer[idx[i]] = NoValue
             /\ lcur[i] \in Published /\ level[lcur[i]] = ldepth[i]
             /\ Agree(k, nkey[lcur[i]], ldepth[i] + 1)
             /\ \/ NoValue \in during[k]
                \/ \A n \in Published : nkey[n] = k => level[n] >= ldepth[i]
    BY <2>0, <1>3, <1>7 DEF LanesInv, LaneRight
  <2>4. ASSUME NoValue \notin during'[k], \A n \in Published : nkey[n] = k => level[n] >= ldepth[i]
        PROVE  \A n \in Published' : nkey'[n] = k => level'[n] >= ldepth[i]
    <3> SUFFICES ASSUME NEW n \in Published', nkey'[n] = k PROVE level'[n] >= ldepth[i]
      OBVIOUS
    <3>1. n \in Published
      <4> SUFFICES ASSUME n \notin Published PROVE FALSE
        OBVIOUS
      <4>1. MapOf[k] = NoValue
        BY <1>2
      <4> QED BY <4>1, <2>1, <2>2, <2>4, <1>3
    <3> QED BY <3>1, <2>4, <1>2
  <2>5. lcur[i] # Null => /\ lcur[i] \in Published' /\ level'[lcur[i]] = ldepth[i]
                          /\ Agree(k, nkey'[lcur[i]], ldepth[i] + 1)
    BY <2>3, <1>2
  <2> QED BY <2>1, <2>2, <2>3, <2>4, <2>5, <1>1 DEF LaneRight, Agree
<1>8. ASSUME NEW i \in Lane PROVE LaneRight(i)'
  <2>1. CASE idx[i] # 0
    BY <2>1, <1>7
  <2>2. CASE idx[i] = 0
    BY <2>2, <1>1 DEF LaneRight
  <2> QED BY <2>1, <2>2
<1> QED BY <1>5, <1>6, <1>8 DEF BatchInv

\* A batch that is not under way is in nobody's way.
LEMMA BatchRests ==
  ASSUME BatchInv, phase = "idle", UNCHANGED bvars
  PROVE  BatchInv'
<1>1. UNCHANGED <<batch, phase, turn, next, idx, lcur, ldepth, answer, hits>>
  BY DEF bvars, lanes
<1>2. LanesTyped' /\ Counted' /\ Phased' /\ ~InBatch'
  BY <1>1 DEF BatchInv, LanesTyped, Counted, Found, Phased, InBatch
<1>3. Accounted'
  <2>1. next = 1 /\ \A j \in 1..(1 - 1) : FALSE
    BY DEF BatchInv, Phased
  <2> QED BY <2>1, <1>1 DEF BatchInv, Accounted
<1> QED BY <1>2, <1>3 DEF BatchInv

LEMMA BatchForgotten ==
  ASSUME BatchInv, ~InBatch, BatchForget
  PROVE  BatchInv' /\ phase' = "idle"
<1>1. /\ \A i \in Lane : idx[i] = 0
      /\ phase' = "idle" /\ batch' = << >> /\ answer' = << >> /\ next' = 1 /\ hits' = 0
      /\ turn' = turn /\ idx' = idx /\ lcur' = lcur /\ ldepth' = ldepth
  BY DEF BatchForget, lanes, BatchInv, Phased, InBatch
<1>2. Len(<< >>) = 0 /\ << >> \in Seq(Keys) /\ DOMAIN << >> = 1..0 /\ 1 \in 1..(0 + 1)
      /\ \A j \in 1..(1 - 1) : FALSE
  OBVIOUS
<1>3. LanesTyped'
  <2>1. idx' \in [Lane -> 0..0]
    BY <1>1 DEF BatchInv, LanesTyped
  <2> QED BY <2>1, <1>1, <1>2 DEF BatchInv, LanesTyped
<1>4. Accounted'
  <2>1. \A i \in Lane : idx'[i] < next'
    BY <1>1
  <2> QED BY <2>1, <1>1, <1>2 DEF Accounted
<1>5. Counted'
  <2>1. Found' = {}
    BY <1>1, <1>2 DEF Found
  <2> QED BY <2>1, <1>1, FS_EmptySet DEF Counted
<1>6. Phased' /\ ~InBatch'
  BY <1>1 DEF BatchInv, Phased, InBatch
<1> QED BY <1>1, <1>3, <1>4, <1>5, <1>6 DEF BatchInv

\* Nor is a walk that is not.
LEMMA WalkForgotten ==
  ASSUME frames = << >>, ForEachForget
  PROVE  IterInv'
<1>1. frames' = << >> /\ reported' = << >> /\ ended' = "no"
  BY DEF ForEachForget
<1>2. Len(<< >>) = 0 /\ << >> \in Seq(FrameSet) /\ << >> \in Seq(Keys \X Values)
  OBVIOUS
<1>3. Stack'
  BY <1>1, <1>2 DEF Stack
<1>4. Told' /\ Covered' /\ SnapshotReported' /\ OldOrNew' /\ ~InForEach'
  BY <1>1, <1>2 DEF Told, Covered, SnapshotReported, OldOrNew, InForEach
<1> QED BY <1>3, <1>4 DEF IterInv
------------------------------------------------------------------------------
(***************************************************************************)
(* The theorems.                                                           *)
(***************************************************************************)
RInv == IInv /\ Watched /\ OneCall /\ IterInv /\ BatchInv

LEMMA ReadersStart == ReadersInit => RInv
<1> SUFFICES ASSUME ReadersInit PROVE RInv
  OBVIOUS
<1>1. IInv
  BY InitInv DEF ReadersInit
<1>2. /\ frames = << >> /\ reported = << >> /\ ended = "no"
      /\ during = [k \in Keys |-> {}]
      /\ batch = << >> /\ phase = "idle" /\ turn = 0 /\ next = 1 /\ hits = 0
      /\ idx = [i \in Lane |-> 0] /\ lcur = [i \in Lane |-> Null]
      /\ ldepth = [i \in Lane |-> 0] /\ answer = << >>
  BY DEF ReadersInit, WatchInit, ForEachInit, BatchInit
<1>3. Watched /\ OneCall
  BY <1>2 DEF Watched, OneCall, InForEach, InBatch
<1>4. IterInv
  <2>1. Len(<< >>) = 0 /\ << >> \in Seq(FrameSet) /\ << >> \in Seq(Keys \X Values)
    OBVIOUS
  <2>2. Stack
    BY <1>2, <2>1 DEF Stack
  <2>3. Told /\ Covered /\ SnapshotReported /\ OldOrNew /\ ~InForEach
    BY <1>2, <2>1 DEF Told, Covered, SnapshotReported, OldOrNew, InForEach
  <2> QED BY <2>2, <2>3 DEF IterInv
<1>5. BatchInv
  <2>1. /\ Len(<< >>) = 0 /\ << >> \in Seq(Keys) /\ DOMAIN << >> = 1..0 /\ 1 \in 1..(0 + 1)
        /\ \A j \in 1..(1 - 1) : FALSE
    OBVIOUS
  <2>2. /\ 0 \in Lane /\ idx \in [Lane -> 0..0] /\ lcur \in [Lane -> Node \cup {Null}]
        /\ ldepth \in [Lane -> 0..MaxDepth]
    BY <1>2, BatchAssumption, TrieAssumption DEF Lane
  <2>3. LanesTyped
    BY <1>2, <2>1, <2>2 DEF LanesTyped
  <2>4. Accounted
    BY <1>2, <2>1 DEF Accounted
  <2>5. Counted
    <3>1. Found = {}
      BY <1>2, <2>1 DEF Found
    <3> QED BY <3>1, <1>2, FS_EmptySet DEF Counted
  <2>6. Phased /\ ~InBatch
    BY <1>2, <2>2 DEF Phased, InBatch
  <2> QED BY <2>3, <2>4, <2>5, <2>6 DEF BatchInv
<1> QED BY <1>1, <1>3, <1>4, <1>5 DEF RInv

LEMMA WriteStep == RInv /\ Write => RInv'
<1> SUFFICES ASSUME RInv, Write PROVE RInv'
  OBVIOUS
<1>1. [Next]_vars
  BY DEF Write, Next
<1>2. IInv /\ IInv' /\ Watched /\ OneCall /\ IterInv /\ BatchInv
  BY <1>1, NextInv DEF RInv
<1>3. CASE InForEach
  <2>1. Watch /\ UNCHANGED iter /\ UNCHANGED bvars /\ phase = "idle"
    BY <1>2, <1>3 DEF Write, OneCall
  <2>2. IterInv' /\ BatchInv'
    BY <2>1, <1>1, <1>2, <1>3, WalkWatches, BatchRests
  <2>3. Watched' /\ OneCall'
    BY <2>1, <1>2, <1>3 DEF Watch, Watched, OneCall, InForEach, InBatch, iter, bvars
  <2> QED BY <2>2, <2>3, <1>2 DEF RInv
<1>4. CASE InBatch
  <2>1. Watch /\ UNCHANGED iter /\ UNCHANGED bvars /\ frames = << >> /\ reported = << >>
        /\ ended = "no"
    BY <1>2, <1>4 DEF Write, OneCall
  <2>2. IterInv' /\ BatchInv'
    BY <2>1, <1>1, <1>2, <1>4, WalkForgotten, LanesWatch DEF ForEachForget, iter
  <2>3. Watched' /\ OneCall'
    BY <2>1, <1>2, <1>4 DEF Watch, Watched, OneCall, InForEach, InBatch, iter, bvars
  <2> QED BY <2>2, <2>3, <1>2 DEF RInv
<1>5. CASE ~InForEach /\ ~InBatch
  <2>1. WatchEnd /\ ForEachForget /\ BatchForget /\ frames = << >>
    BY <1>5 DEF Write, InForEach
  <2>2. IterInv' /\ BatchInv' /\ phase' = "idle"
    BY <2>1, <1>2, <1>5, WalkForgotten, BatchForgotten
  <2>3. Watched' /\ OneCall'
    BY <2>1, <2>2 DEF WatchEnd, Watched, OneCall, InForEach, InBatch, ForEachForget
  <2> QED BY <2>2, <2>3, <1>2 DEF RInv
<1> QED BY <1>3, <1>4, <1>5

LEMMA ReadForEachStep == RInv /\ ReadForEach /\ UNCHANGED vars => RInv'
<1> SUFFICES ASSUME RInv, ReadForEach, UNCHANGED vars PROVE RInv'
  OBVIOUS
<1>1. /\ IInv /\ IInv' /\ Watched /\ OneCall /\ IterInv /\ BatchInv
      /\ ~InBatch /\ Iterate /\ MapOf' = MapOf
  BY NextInv, TrieUnchanged DEF RInv, ReadForEach
<1>2. CASE InForEach
  <2>1. /\ phase = "idle" /\ UNCHANGED bvars /\ frames # << >>
        /\ Child \/ Leave \/ \E stop \in BOOLEAN : Visit(stop)
    BY <1>1, <1>2 DEF OneCall, ReadForEach, Iterate, ForEachBegin, InForEach
  <2>2. IterInv'
    BY <2>1, <1>1, WalkLoads, WalkLeaves, WalkVisits
  <2>3. BatchInv' /\ phase' = "idle"
    BY <2>1, <1>1, BatchRests DEF bvars
  <2>4. frames' # << >> => during' = during
    BY <2>1 DEF Child, Leave, Visit
  <2>5. DOMAIN during' = Keys
    BY <2>1, <1>1 DEF Child, Leave, Visit, WatchEnd, Watched
  <2>6. Watched' /\ OneCall'
    BY <2>3, <2>4, <2>5, <1>1, <1>2 DEF Watched, OneCall, InForEach, InBatch
  <2> QED BY <2>2, <2>3, <2>6, <1>1 DEF RInv
<1>3. CASE ~InForEach
  <2>1. BatchForget /\ ForEachBegin
    BY <1>1, <1>3 DEF ReadForEach, Iterate, Child, Leave, Visit, InForEach
  <2>2. IterInv' /\ BatchInv' /\ phase' = "idle"
    BY <2>1, <1>1, WalkBegins, BatchForgotten
  <2>3. Watched' /\ OneCall'
    BY <2>1, <2>2, <1>1 DEF ForEachBegin, WatchBegin, Watched, OneCall, InBatch
  <2> QED BY <2>2, <2>3, <1>1 DEF RInv
<1> QED BY <1>2, <1>3

LEMMA ReadBatchStep == RInv /\ ReadBatch /\ UNCHANGED vars => RInv'
<1> SUFFICES ASSUME RInv, ReadBatch, UNCHANGED vars PROVE RInv'
  OBVIOUS
<1>1. /\ IInv /\ IInv' /\ Watched /\ OneCall /\ IterInv /\ BatchInv
      /\ frames = << >> /\ GetBatch /\ MapOf' = MapOf
  BY NextInv, TrieUnchanged DEF RInv, ReadBatch, InForEach
<1>2. CASE InBatch
  <2>1. /\ UNCHANGED iter /\ reported = << >> /\ ended = "no"
        /\ Fill \/ LaneDescend \/ LaneHit \/ Refill
    BY <1>1, <1>2 DEF OneCall, ReadBatch, GetBatch, BatchBegin, InBatch
  <2>2. BatchInv'
    BY <2>1, <1>1, LanesFill, LanesDescend, LanesHit, LanesRefill
  <2>3. IterInv' /\ frames' = << >> /\ reported' = << >> /\ ended' = "no"
    BY <2>1, <1>1, WalkForgotten DEF ForEachForget, iter
  <2>4. during' = during
    BY <2>1 DEF Fill, LaneDescend, LaneHit, Refill
  <2>5. Watched' /\ OneCall'
    BY <2>3, <2>4, <1>1, <1>2 DEF Watched, OneCall, InForEach
  <2> QED BY <2>2, <2>3, <2>5, <1>1 DEF RInv
<1>3. CASE ~InBatch
  <2>1. ForEachForget /\ \E keys \in Batches : BatchBegin(keys)
    BY <1>1, <1>3 DEF ReadBatch, GetBatch, Fill, LaneDescend, LaneHit, Refill, InBatch
  <2>2. BatchInv'
    BY <2>1, <1>1, BatchBegins
  <2>3. IterInv' /\ frames' = << >> /\ reported' = << >> /\ ended' = "no"
    BY <2>1, <1>1, WalkForgotten DEF ForEachForget
  <2>4. Watched' /\ OneCall'
    BY <2>1, <2>3, <1>1 DEF BatchBegin, WatchBegin, Watched, OneCall, InForEach
  <2> QED BY <2>2, <2>3, <2>4, <1>1 DEF RInv
<1> QED BY <1>2, <1>3

\* The walk of ForEach, the lanes of a batch and the trie under both keep an
\* inductive invariant, whatever the writers do between two of the loads.
THEOREM ReadersInvariant == ReadersSpec => []RInv
<1>1. RInv /\ [ReadersNext]_<<vars, iter, bvars, during>> => RInv'
  <2> SUFFICES ASSUME RInv, [ReadersNext]_<<vars, iter, bvars, during>> PROVE RInv'
    OBVIOUS
  <2>1. CASE Write
    BY <2>1, WriteStep
  <2>2. CASE ReadForEach /\ UNCHANGED vars
    BY <2>2, ReadForEachStep
  <2>3. CASE ReadBatch /\ UNCHANGED vars
    BY <2>3, ReadBatchStep
  <2>4. CASE UNCHANGED <<vars, iter, bvars, during>>
    <3>1. IInv' /\ MapOf' = MapOf
      BY <2>4, NextInv, TrieUnchanged DEF RInv
    <3>2. Watched' /\ OneCall'
      BY <2>4, <3>1 DEF RInv, Watched, OneCall, InForEach, InBatch, iter, bvars
    <3>3. UNCHANGED <<Published, nkey, level, frames, reported, ended, during>>
          /\ UNCHANGED <<batch, phase, turn, next, idx, lcur, ldepth, answer, hits>>
      BY <2>4, TrieUnchanged DEF iter, bvars, lanes
    <3>4. IterInv'
      <4>1. Stack'
        BY <3>3 DEF RInv, IterInv, Stack, Agree
      <4>2. \A n : Ahead(n)' <=> Ahead(n)
        BY <3>3 DEF Ahead, OnList, Top, Agree
      <4>3. Told'
        BY <3>3, <4>2, ToldKept DEF RInv, IterInv
      <4>4. Covered'
        BY <3>3, <4>2 DEF RInv, IterInv, Covered, InForEach, AlwaysThere, KeysIn
      <4>5. SnapshotReported' /\ OldOrNew' /\ (InForEach' => ended' = "no")
        BY <3>3 DEF RInv, IterInv, SnapshotReported, OldOrNew, InForEach, AlwaysThere, KeysIn
      <4> QED BY <4>1, <4>3, <4>4, <4>5 DEF IterInv
    <3>5. BatchInv'
      <4>1. LanesTyped' /\ Accounted' /\ Counted' /\ Phased'
        BY <3>3 DEF RInv, BatchInv, LanesTyped, Accounted, Counted, Found, Phased
      <4>2. InBatch' => \A i \in Lane : LaneRight(i)'
        BY <3>3, <2>4, LaneKept DEF RInv, BatchInv, InBatch
      <4> QED BY <4>1, <4>2 DEF BatchInv
    <3> QED BY <3>1, <3>2, <3>4, <3>5 DEF RInv
  <2> QED BY <2>1, <2>2, <2>3, <2>4 DEF ReadersNext
<1> QED BY <1>1, ReadersStart, PTL DEF ReadersSpec

\* ForEach gives its callback no entry twice.
THEOREM NoEntryTwice == ReadersSpec => []ReportedOnce
<1>1. ASSUME RInv PROVE ReportedOnce
  <2>1. PICK m \in Nat : /\ Len(reported) = m /\ DOMAIN reported = 1..m
                         /\ \A i, j \in 1..m : reported[i][1] = reported[j][1] => i = j
    <3>1. reported \in Seq(Keys \X Values)
      BY <1>1 DEF RInv, IterInv, Told
    <3>2. Len(reported) \in Nat /\ DOMAIN reported = 1..Len(reported)
      BY <3>1
    <3> QED BY <3>2, <1>1 DEF RInv, IterInv, Told
  <2> DEFINE f == [i \in 1..m |-> reported[i][1]]
  <2>2. f \in Bijection(1..m, KeysIn(reported))
    <3>1. f \in [1..m -> KeysIn(reported)]
      BY <2>1 DEF KeysIn
    <3>2. \A a, b \in 1..m : f[a] = f[b] => a = b
      BY <2>1
    <3>3. \A k \in KeysIn(reported) : \E i \in 1..m : f[i] = k
      BY <2>1 DEF KeysIn
    <3> QED BY <3>1, <3>2, <3>3, Fun_IsBij
  <2> HIDE DEF f
  <2>5. ExistsBijection(1..m, KeysIn(reported))
    BY <2>2 DEF ExistsBijection
  <2>3. IsFiniteSet(1..m) /\ Cardinality(1..m) = m
    BY FS_Interval, FS_CountingElements
  <2>4. Cardinality(KeysIn(reported)) = m
    BY <2>3, <2>5, FS_Bijection
  <2> QED BY <2>1, <2>4 DEF ReportedOnce
<1> QED BY <1>1, ReadersInvariant, PTL

\* A walk its callback did not stop has reported every key that was there from
\* before it began until it ended.
THEOREM SnapshotIsReported == ReadersSpec => []SnapshotReported
<1>1. RInv => SnapshotReported
  BY DEF RInv, IterInv
<1> QED BY <1>1, ReadersInvariant, PTL

\* A value reported is one its key had while the walk was under way.
THEOREM ReportedOldOrNew == ReadersSpec => []OldOrNew
<1>1. RInv => OldOrNew
  BY DEF RInv, IterInv
<1> QED BY <1>1, ReadersInvariant, PTL

\* A batch that has returned has a right answer at every index, and counts its
\* hits.
THEOREM BatchAnswersRight == ReadersSpec => []BatchAnswersFit
<1>1. ASSUME RInv PROVE BatchAnswersFit
  <2> SUFFICES ASSUME phase = "done"
               PROVE  /\ \A j \in DOMAIN batch : answer[j] \in during[batch[j]]
                      /\ hits = Cardinality({j \in DOMAIN batch : answer[j] # NoValue})
    BY DEF BatchAnswersFit
  <2>1. /\ \A i \in Lane : idx[i] = 0
        /\ next = Len(batch) + 1 /\ batch \in Seq(Keys)
    BY <1>1 DEF RInv, BatchInv, Phased, LanesTyped
  <2>2. DOMAIN batch = 1..(next - 1)
    <3>1. \A l \in Nat : (l + 1) - 1 = l
      OBVIOUS
    <3> QED BY <2>1, <3>1
  <2>3. \A j \in 1..(next - 1) : j # 0
    OBVIOUS
  <2> QED BY <2>1, <2>2, <2>3, <1>1 DEF RInv, BatchInv, Accounted, Counted, Found
<1> QED BY <1>1, ReadersInvariant, PTL
==============================================================================
