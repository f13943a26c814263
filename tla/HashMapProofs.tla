---------------------------- MODULE HashMapProofs ----------------------------
(***************************************************************************)
(* The persistent map, for any file size, keys, routes and values, full    *)
(* collisions included: it holds what was stored in it, in a sound graph,  *)
(* through any Puts, Saves, deaths of the process and reopenings.          *)
(***************************************************************************)
EXTENDS HashMap, FiniteSetTheorems, FunctionTheorems, NaturalsInduction,
        WellFoundedInduction, TLAPS

USE MapAssumption

Contents == [Off -> NodeCell \cup IndexCell \cup {Blank}]

NodesBelow(m, w) == {o \in 1..(w - 1) : IsNode(m, o)}
KeysBelow(m, w)  == {m[o].key : o \in NodesBelow(m, w)}

\* Roots and links lead to nodes below w, and links to higher offsets.
Rising(m, roots, w) ==
  /\ \A r \in Roots : roots[r] # 0 => roots[r] \in NodesBelow(m, w)
  /\ \A o \in NodesBelow(m, w), b \in Branches :
       m[o].child[b] # 0 => m[o].child[b] > o /\ m[o].child[b] \in NodesBelow(m, w)

\* Node c is where the walk of its key stops, at level d, and hangs nowhere else.
HangsAt(m, roots, w, c, d) ==
  LET k == m[c].key
      s == Walk(m, roots, k)
  IN /\ s[d] = c
     /\ \A e \in 0..(d - 1) : s[e] \in NodesBelow(m, w) /\ m[s[e]].key # k
     /\ \A r \in Roots : roots[r] = c => d = 0 /\ r = Route[k][0]
     /\ \A o \in NodesBelow(m, w), b \in Branches :
          m[o].child[b] = c => d > 0 /\ o = s[d - 1] /\ b = Route[k][d]

\* Every node below w hangs from the roots, in one place.
Tree(m, roots, w) ==
  \A c \in NodesBelow(m, w) : \E d \in 0..MaxDepth : HangsAt(m, roots, w, c, d)

\* What lies below w is led to, by roots and nodes, as nodes.
Leads(m, roots, w) ==
  /\ \A r \in Roots : roots[r] \in 1..(w - 1) => IsNode(m, roots[r])
  /\ \A o \in NodesBelow(m, w), b \in Branches :
       m[o].child[b] \in 1..(w - 1) => IsNode(m, m[o].child[b])

Planted(m, roots, w) == Tree(m, roots, w) /\ Leads(m, roots, w)

\* The header is that of a completed Save.
Complete == hdr.magic /\ hdr.index # 0
Saved    == mem[hdr.index].roots

\* The roots of the file but for one broken off, which was empty before.
Unbroken == [r \in Roots |-> IF r \in broken THEN 0 ELSE Saved[r]]

\* The nodes below w have the values of d.
Holds(m, d, w) == \A o \in NodesBelow(m, w) : m[o].val = d[m[o].key]

HeaderInv ==
  /\ ~hdr.magic => hdr = NoHeader
  /\ Complete => /\ hdr.index < hdr.highWater /\ hdr.index < Reach
                 /\ mem[hdr.index].kind = "index"

\* The file, whoever has it open: what an Open may find.
FileInv ==
  Complete => /\ Planted(mem, Unbroken, hdr.highWater)
              /\ Holds(mem, dict, hdr.highWater)
              /\ KeysBelow(mem, hdr.highWater) \in {ckpt, pending}

\* The map of a process.
LiveInv ==
  Live => /\ pos >= 1 /\ broken = {}
          /\ Rising(mem, top, pos) /\ Tree(mem, top, pos)
          /\ Holds(mem, dict, pos)
          /\ \A k \in Keys : dict[k] # NoValue => k \in KeysBelow(mem, pos)

\* How the two are related: the map has grown from the file's.
SessionInv ==
  Live /\ Complete =>
    /\ hdr.highWater <= pos
    /\ \A r \in Roots : \/ Saved[r] = top[r]
                        \/ Saved[r] = 0 /\ top[r] >= hdr.highWater
    /\ phase # "index" => KeysBelow(mem, hdr.highWater) = ckpt

\* A Save under way.
SaveInv ==
  phase \in Saving =>
    /\ idx \in 1..(pos - 1) /\ idx < Reach /\ mem[idx].kind = "index"
    /\ Complete => idx = hdr.index
    /\ \A r \in Roots \ todo : mem[idx].roots[r] = top[r]
    /\ pending = KeysBelow(mem, pos) /\ torn
    /\ phase # "copy" => todo = {}
    /\ phase \in {"highwater", "index"} => hdr.magic
    /\ phase = "index" => hdr.highWater = pos

\* A Save that nothing has spoilt.
CheckpointInv ==
  ckpt # Null /\ ~torn /\ ~hung =>
    /\ Complete /\ broken = {}
    /\ Rising(mem, Saved, hdr.highWater)
    /\ KeysBelow(mem, hdr.highWater) = ckpt

SoundInv == /\ TypeOK /\ HeaderInv /\ FileInv /\ LiveInv /\ SessionInv
            /\ SaveInv /\ CheckpointInv

\* All of it, until a map is opened with a root broken off.
MapInv == TypeOK /\ (~phantom => SoundInv)
------------------------------------------------------------------------------
(* The walk of a key, a recursive function of the level.                   *)

\* A nonempty set of naturals has a least element.
LEMMA LeastNatural ==
  ASSUME NEW T, T \subseteq Nat, T # {}
  PROVE  \E x \in T : \A y \in T : x <= y
<1> DEFINE R == OpToRel(<, Nat)
<1>1. IsWellFoundedOn(R, Nat)
  BY NatLessThanWellFounded
<1>2. \E x \in T : \A y \in T : ~ (<<y, x>> \in R)
  <2> HIDE DEF R
  <2> QED BY <1>1, WFMin
<1>3. \A x, y \in Nat : y < x => <<y, x>> \in R
  BY DEF OpToRel
<1> HIDE DEF R
<1>4. PICK x \in T : \A y \in T : ~ (<<y, x>> \in R)
  BY <1>2
<1>5. ASSUME NEW y \in T PROVE x <= y
  <2>1. x \in Nat /\ y \in Nat /\ ~ (<<y, x>> \in R)
    BY <1>4
  <2>2. ~ (y < x)
    BY <2>1, <1>3
  <2> QED BY <2>1, <2>2
<1> QED BY <1>5

\* The first n levels of a walk, and that there are any, whatever n.
IsWalk(f, m, roots, k, n) ==
  f = [d \in 0..n |-> IF d = 0 THEN roots[Route[k][0]] ELSE Child(m, f[d - 1], Route[k][d])]

LEMMA WalkExists ==
  ASSUME NEW m, NEW roots, NEW k, NEW n, n \in Nat
  PROVE  \E f : IsWalk(f, m, roots, k, n)
<1> USE DEF IsWalk
<1> DEFINE Is(f, j) == IsWalk(f, m, roots, k, j)
           T == {j \in Nat : ~ \E f : Is(f, j)}
<1>1. SUFFICES ASSUME T # {} PROVE FALSE
  BY <1>1
<1>2. PICK j \in T : \A i \in T : j <= i
  BY <1>1, LeastNatural
<1>3. CASE j = 0
  <2> DEFINE f == [d \in 0..0 |-> roots[Route[k][0]]]
  <2>1. Is(f, 0)
    OBVIOUS
  <2> QED BY <2>1, <1>2, <1>3
<1>4. CASE j # 0
  <2>1. j \in Nat /\ j - 1 \in Nat /\ j - 1 \notin T
    BY <1>2, <1>4
  <2>2. PICK f : Is(f, j - 1)
    BY <2>1
  <2> DEFINE g == [d \in 0..j |-> IF d = j THEN Child(m, f[j - 1], Route[k][j]) ELSE f[d]]
  <2>3. \A d \in 0..(j - 1) : g[d] = f[d]
    BY <2>1
  <2>4. g[j] = Child(m, g[j - 1], Route[k][j])
    BY <2>1, <2>3
  <2>5. ASSUME NEW d \in 0..j
        PROVE  g[d] = IF d = 0 THEN roots[Route[k][0]] ELSE Child(m, g[d - 1], Route[k][d])
    <3>1. CASE d = j
      BY <3>1, <2>4, <1>4
    <3>2. CASE d # j
      <4>1. d \in 0..(j - 1) /\ g[d] = f[d]
        BY <3>2, <2>1, <2>3
      <4>2. f[d] = IF d = 0 THEN roots[Route[k][0]] ELSE Child(m, f[d - 1], Route[k][d])
        BY <4>1, <2>2
      <4>3. d # 0 => g[d - 1] = f[d - 1]
        BY <4>1, <2>1, <2>3
      <4> QED BY <4>1, <4>2, <4>3
    <3> QED BY <3>1, <3>2
  <2>6. Is(g, j)
    <3> DEFINE h == [d \in 0..j |-> IF d = 0 THEN roots[Route[k][0]]
                                    ELSE Child(m, g[d - 1], Route[k][d])]
    <3>1. \A d \in 0..j : g[d] = h[d]
      BY <2>5
    <3>2. g = h
      <4>1. g = [d \in 0..j |-> g[d]] /\ h = [d \in 0..j |-> h[d]]
        OBVIOUS
      <4> QED BY <3>1, <4>1
    <3> QED BY <3>2
  <2> QED BY <2>6, <1>2
<1> QED BY <1>3, <1>4

\* A root, then child after child.
LEMMA WalkIs ==
  ASSUME NEW m, NEW roots, NEW k
  PROVE  /\ Walk(m, roots, k)[0] = roots[Route[k][0]]
         /\ \A d \in 1..MaxDepth :
              Walk(m, roots, k)[d] = Child(m, Walk(m, roots, k)[d - 1], Route[k][d])
<1> DEFINE s == Walk(m, roots, k)
<1>1. PICK n \in Nat : n = MaxDepth
  BY DEF MaxDepth
<1>2. \E f : IsWalk(f, m, roots, k, n)
  BY WalkExists
<1>3. s = CHOOSE f : IsWalk(f, m, roots, k, n)
  BY <1>1 DEF Walk, IsWalk
<1>4. IsWalk(s, m, roots, k, n)
  BY <1>2, <1>3
<1> HIDE DEF s
<1>5. s[0] = roots[Route[k][0]]
  BY <1>4 DEF IsWalk
<1>6. \A d \in 1..MaxDepth : s[d] = Child(m, s[d - 1], Route[k][d])
  BY <1>1, <1>4 DEF IsWalk
<1> QED BY <1>5, <1>6 DEF s

\* What holds at level 0, and at a level when at the one before, holds at all levels.
LEMMA Upwards ==
  ASSUME NEW n, n \in Nat, NEW T, 0 \in T, \A d \in 1..n : d - 1 \in T => d \in T
  PROVE  \A d \in 0..n : d \in T
<1> DEFINE B == {d \in 0..n : d \notin T}
<1>1. SUFFICES ASSUME B # {} PROVE FALSE
  BY <1>1
<1>2. PICK d \in B : \A e \in B : d <= e
  <2>1. B \subseteq Nat
    OBVIOUS
  <2> HIDE DEF B
  <2> QED BY <1>1, <2>1, LeastNatural
<1>3. d \in 1..n /\ d - 1 \in 0..n /\ d - 1 \notin B
  BY <1>2
<1> QED BY <1>2, <1>3

\* A walk goes to higher offsets, level by level, until it finds a slot empty.
LEMMA WalkRises ==
  ASSUME NEW m, NEW roots, NEW w, NEW k, k \in Keys,
         w \in 0..Capacity, Rising(m, roots, w)
  PROVE  \A d \in 0..MaxDepth :
           LET s == Walk(m, roots, k) IN
           /\ s[d] \in NodesBelow(m, w) \cup {0}
           /\ s[d] # 0 => s[d] > d
<1> DEFINE s == Walk(m, roots, k)
           T == {d \in 0..MaxDepth : /\ s[d] \in NodesBelow(m, w) \cup {0}
                                     /\ s[d] # 0 => s[d] > d}
<1>1. /\ s[0] = roots[Route[k][0]]
      /\ \A d \in 1..MaxDepth : s[d] = Child(m, s[d - 1], Route[k][d])
  BY WalkIs
<1> HIDE DEF s
<1>2. MaxDepth = Capacity /\ MaxDepth \in Nat
  BY DEF MaxDepth
<1>3. 0 \in T
  <2>1. Route[k][0] \in Roots
    OBVIOUS
  <2>2. s[0] # 0 => s[0] \in NodesBelow(m, w)
    BY <2>1, <1>1 DEF Rising
  <2> QED BY <2>2, <1>2 DEF NodesBelow
<1>4. ASSUME NEW d \in 1..MaxDepth, d - 1 \in T PROVE d \in T
  <2>1. Route[k][d] \in Branches
    BY <1>2
  <2>2. s[d] = Child(m, s[d - 1], Route[k][d])
    BY <1>1
  <2>3. s[d] # 0 => /\ s[d - 1] \in NodesBelow(m, w) /\ s[d - 1] > d - 1
                    /\ s[d] = m[s[d - 1]].child[Route[k][d]]
    BY <2>2, <1>4 DEF Child
  <2>4. s[d] # 0 => s[d] > s[d - 1] /\ s[d] \in NodesBelow(m, w)
    BY <2>3, <2>1 DEF Rising
  <2>5. s[d] # 0 => s[d] \in Int /\ s[d - 1] \in Int
    BY <2>3, <2>4 DEF NodesBelow
  <2> QED BY <2>3, <2>4, <2>5, <1>2
<1>5. \A d \in 0..MaxDepth : d \in T
  <2> HIDE DEF T
  <2> QED BY <1>2, <1>3, <1>4, Upwards
<1> QED BY <1>5 DEF s

\* The level a walk stops at is the one a CHOOSE finds.
LEMMA StopsThere ==
  ASSUME NEW m, NEW roots, NEW k, NEW d, d \in 0..MaxDepth,
         Stops(m, roots, k, d), \A e \in 0..(d - 1) : ~Stops(m, roots, k, e)
  PROVE  StopLevel(m, roots, k) = d /\ Find(m, roots, k) = Walk(m, roots, k)[d]
<1> DEFINE First(x) == /\ Stops(m, roots, k, x)
                       /\ \A e \in 0..(x - 1) : ~Stops(m, roots, k, e)
<1>1. MaxDepth \in Nat
  BY DEF MaxDepth
<1>2. \A x \in 0..MaxDepth : First(x) => x = d
  <2> SUFFICES ASSUME NEW x \in 0..MaxDepth, First(x), x # d PROVE FALSE
    OBVIOUS
  <2>1. x < d \/ d < x
    BY <1>1
  <2> QED BY <2>1, <1>1
<1>3. StopLevel(m, roots, k) = CHOOSE x \in 0..MaxDepth : First(x)
  BY DEF StopLevel
<1>4. First(d)
  OBVIOUS
<1>5. StopLevel(m, roots, k) = d
  <2> HIDE DEF First
  <2> QED BY <1>2, <1>3, <1>4
<1> QED BY <1>5 DEF Find

\* Every walk of a rising graph stops, at nodes of other keys until then.
LEMMA WalkStops ==
  ASSUME NEW m, NEW roots, NEW w, NEW k, k \in Keys,
         w \in 0..Capacity, Rising(m, roots, w)
  PROVE  \E d \in 0..MaxDepth :
           /\ d = StopLevel(m, roots, k)
           /\ Walk(m, roots, k)[d] = Find(m, roots, k)
           /\ Find(m, roots, k) # 0 => /\ Find(m, roots, k) \in NodesBelow(m, w)
                                      /\ m[Find(m, roots, k)].key = k
           /\ \A e \in 0..(d - 1) : /\ Walk(m, roots, k)[e] \in NodesBelow(m, w)
                                    /\ m[Walk(m, roots, k)[e]].key # k
<1> DEFINE s == Walk(m, roots, k)
           T == {d \in 0..MaxDepth : Stops(m, roots, k, d)}
<1>1. MaxDepth = Capacity /\ MaxDepth \in Nat
  BY DEF MaxDepth
<1>2. \A d \in 0..MaxDepth : s[d] \in NodesBelow(m, w) \cup {0} /\ (s[d] # 0 => s[d] > d)
  BY WalkRises
<1>3. \A d \in 0..MaxDepth : Stops(m, roots, k, d) <=> s[d] = 0 \/ m[s[d]].key = k
  BY <1>2 DEF Stops, NodesBelow
<1> HIDE DEF s
<1>4. s[MaxDepth] = 0
  BY <1>1, <1>2 DEF NodesBelow
<1>5. T # {}
  BY <1>1, <1>3, <1>4
<1>6. PICK d \in T : \A e \in T : d <= e
  <2>1. T \subseteq Nat
    BY <1>1
  <2> HIDE DEF T
  <2> QED BY <1>5, <2>1, LeastNatural
<1>7. \A e \in 0..(d - 1) : e \in 0..MaxDepth /\ ~Stops(m, roots, k, e)
  BY <1>1, <1>6
<1>8. StopLevel(m, roots, k) = d /\ Find(m, roots, k) = s[d]
  <2>1. d \in 0..MaxDepth /\ Stops(m, roots, k, d)
    BY <1>6
  <2> QED BY <2>1, <1>7, StopsThere DEF s
<1>9. s[d] # 0 => s[d] \in NodesBelow(m, w) /\ m[s[d]].key = k
  BY <1>2, <1>3, <1>6
<1>10. \A e \in 0..(d - 1) : s[e] \in NodesBelow(m, w) /\ m[s[e]].key # k
  BY <1>2, <1>3, <1>7
<1> QED BY <1>6, <1>8, <1>9, <1>10 DEF s

\* Every node of a tree is found by its key.
LEMMA TreeFinds ==
  ASSUME NEW m, NEW roots, NEW w, Tree(m, roots, w), NEW c, c \in NodesBelow(m, w)
  PROVE  Find(m, roots, m[c].key) = c
<1>1. PICK d \in 0..MaxDepth : HangsAt(m, roots, w, c, d)
  BY DEF Tree
<1>2. PICK k : k = m[c].key
  OBVIOUS
<1>3. Walk(m, roots, k)[d] = c /\ Stops(m, roots, k, d)
  BY <1>1, <1>2 DEF HangsAt, Stops, NodesBelow
<1>4. \A e \in 0..(d - 1) : ~Stops(m, roots, k, e)
  BY <1>1, <1>2 DEF HangsAt, Stops, NodesBelow
<1> QED BY <1>2, <1>3, <1>4, StopsThere

\* The keys found from the roots of a rising tree are those of its nodes.
LEMMA KeysFound ==
  ASSUME NEW m, NEW roots, NEW w, m \in Contents,
         w \in 0..Capacity, Rising(m, roots, w), Tree(m, roots, w)
  PROVE  /\ KeysIn(m, roots) = KeysBelow(m, w)
         /\ \A k \in Keys : LET o == Find(m, roots, k) IN
              o # 0 => o \in NodesBelow(m, w) /\ m[o].key = k
<1>1. ASSUME NEW k \in Keys, Find(m, roots, k) # 0
      PROVE  Find(m, roots, k) \in NodesBelow(m, w) /\ m[Find(m, roots, k)].key = k
  BY <1>1, WalkStops
<1>2. ASSUME NEW c \in NodesBelow(m, w) PROVE Find(m, roots, m[c].key) # 0 /\ m[c].key \in Keys
  <2>1. Find(m, roots, m[c].key) = c /\ c # 0
    BY TreeFinds DEF NodesBelow
  <2>2. m[c].key \in Keys
    BY DEF NodesBelow, Contents, NodeCell, IndexCell, Blank, Off, IsNode
  <2> QED BY <2>1, <2>2
<1> QED BY <1>1, <1>2 DEF KeysIn, KeysBelow

------------------------------------------------------------------------------
(* A tree that grows.                                                      *)

\* What was below w has stayed; a slot that has changed was empty and leads past w.
Grown(m, roots, m2, roots2, w) ==
  /\ \A o \in 1..(w - 1) : IsNode(m2, o) <=> IsNode(m, o)
  /\ \A o \in NodesBelow(m, w) :
       /\ m2[o].key = m[o].key
       /\ \A b \in Branches : \/ m2[o].child[b] = m[o].child[b]
                              \/ m[o].child[b] = 0 /\ m2[o].child[b] >= w
  /\ \A r \in Roots : \/ roots2[r] = roots[r]
                      \/ roots[r] = 0 /\ roots2[r] >= w

\* A walk through what was below w is still the same.
LEMMA WalkStays ==
  ASSUME NEW m, NEW roots, NEW m2, NEW roots2, NEW w, NEW k, NEW d,
         k \in Keys, w \in 0..Capacity, d \in 0..MaxDepth,
         Grown(m, roots, m2, roots2, w),
         \A e \in 0..(d - 1) : Walk(m, roots, k)[e] \in NodesBelow(m, w)
  PROVE  /\ \A e \in 0..(d - 1) : Walk(m2, roots2, k)[e] = Walk(m, roots, k)[e]
         /\ Walk(m, roots, k)[d] # 0 => Walk(m2, roots2, k)[d] = Walk(m, roots, k)[d]
<1> DEFINE s  == Walk(m, roots, k)
           s2 == Walk(m2, roots2, k)
           T  == {e \in 0..d : s[e] # 0 => s2[e] = s[e]}
<1>1. MaxDepth = Capacity /\ MaxDepth \in Nat /\ d \in Nat
  BY DEF MaxDepth
<1>2. /\ s[0] = roots[Route[k][0]] /\ s2[0] = roots2[Route[k][0]]
      /\ \A e \in 1..MaxDepth : /\ s[e] = Child(m, s[e - 1], Route[k][e])
                                /\ s2[e] = Child(m2, s2[e - 1], Route[k][e])
  BY WalkIs
<1>3. \A e \in 0..(d - 1) : s[e] \in NodesBelow(m, w)
  OBVIOUS
<1> HIDE DEF s, s2
<1>4. 0 \in T
  <2>1. PICK r \in Roots : r = Route[k][0]
    OBVIOUS
  <2>2. roots2[r] = roots[r] \/ roots[r] = 0
    BY DEF Grown
  <2>3. s[0] = roots[r] /\ s2[0] = roots2[r]
    BY <1>2, <2>1
  <2> QED BY <1>1, <2>2, <2>3
<1>5. ASSUME NEW e \in 1..d, e - 1 \in T PROVE e \in T
  <2>1. SUFFICES ASSUME s[e] # 0 PROVE s2[e] = s[e]
    BY <1>1
  <2>2. PICK b \in Branches : b = Route[k][e]
    BY <1>1
  <2>3. s[e] = Child(m, s[e - 1], b) /\ s2[e] = Child(m2, s2[e - 1], b)
    BY <1>1, <1>2, <2>2
  <2>4. s[e - 1] \in NodesBelow(m, w)
    BY <1>1, <1>3
  <2>5. s2[e - 1] = s[e - 1]
    BY <1>5, <2>4 DEF NodesBelow
  <2>6. PICK o \in NodesBelow(m, w) : o = s[e - 1]
    BY <2>4
  <2>7. o # 0 /\ IsNode(m, o) /\ IsNode(m2, o) /\ s[e] = m[o].child[b] /\ s2[e] = m2[o].child[b]
    BY <2>3, <2>5, <2>6 DEF Grown, NodesBelow, Child, IsNode
  <2> QED BY <2>1, <2>7 DEF Grown
<1>6. \A e \in 0..d : e \in T
  <2> HIDE DEF T
  <2> QED BY <1>1, <1>4, <1>5, Upwards
<1>7. \A e \in 0..(d - 1) : s[e] # 0 /\ e \in 0..d
  BY <1>1, <1>3 DEF NodesBelow
<1> QED BY <1>1, <1>6, <1>7 DEF s, s2

\* Nodes, keys and where they hang are still the same below w.
LEMMA TreeStays ==
  ASSUME NEW m, NEW roots, NEW m2, NEW roots2, NEW w, m \in Contents, w \in 0..Capacity,
         Grown(m, roots, m2, roots2, w)
  PROVE  /\ NodesBelow(m2, w) = NodesBelow(m, w)
         /\ KeysBelow(m2, w) = KeysBelow(m, w)
         /\ Tree(m, roots, w) => Tree(m2, roots2, w)
         /\ Planted(m, roots, w) => Planted(m2, roots2, w)
<1>1. NodesBelow(m2, w) = NodesBelow(m, w)
  BY DEF Grown, NodesBelow
<1>2. KeysBelow(m2, w) = KeysBelow(m, w)
  BY <1>1 DEF Grown, KeysBelow
<1>3. ASSUME Tree(m, roots, w), NEW c \in NodesBelow(m, w)
      PROVE  \E d \in 0..MaxDepth : HangsAt(m2, roots2, w, c, d)
  <2>1. PICK d \in 0..MaxDepth : HangsAt(m, roots, w, c, d)
    BY <1>3 DEF Tree
  <2>2. PICK k \in Keys : k = m[c].key
    BY DEF NodesBelow, Contents, NodeCell, IndexCell, Blank, Off, IsNode
  <2> DEFINE s  == Walk(m, roots, k)
             s2 == Walk(m2, roots2, k)
  <2>3. /\ s[d] = c
        /\ \A e \in 0..(d - 1) : s[e] \in NodesBelow(m, w) /\ m[s[e]].key # k
        /\ \A r \in Roots : roots[r] = c => d = 0 /\ r = Route[k][0]
        /\ \A o \in NodesBelow(m, w), b \in Branches :
             m[o].child[b] = c => d > 0 /\ o = s[d - 1] /\ b = Route[k][d]
    BY <2>1, <2>2 DEF HangsAt
  <2>4. c # 0 /\ c \in Int /\ ~(c >= w)
    BY DEF NodesBelow
  <2>5. (\A e \in 0..(d - 1) : s2[e] = s[e]) /\ s2[d] = c
    <3>1. (\A e \in 0..(d - 1) : s2[e] = s[e]) /\ (s[d] # 0 => s2[d] = s[d])
      BY <2>3, WalkStays
    <3> QED BY <3>1, <2>3, <2>4
  <2> HIDE DEF s, s2
  <2>6. \A e \in 0..(d - 1) : s2[e] \in NodesBelow(m2, w) /\ m2[s2[e]].key # k
    BY <1>1, <2>3, <2>5 DEF Grown
  <2>7. \A r \in Roots : roots2[r] = c => roots[r] = c
    BY <2>4 DEF Grown
  <2>8. \A o \in NodesBelow(m, w), b \in Branches : m2[o].child[b] = c => m[o].child[b] = c
    BY <2>4 DEF Grown
  <2>9. MaxDepth \in Nat
    BY DEF MaxDepth
  <2>10. d > 0 => s2[d - 1] = s[d - 1]
    BY <2>5, <2>9
  <2>11. m2[c].key = k
    BY <2>2 DEF Grown
  <2> QED BY <1>1, <2>3, <2>5, <2>6, <2>7, <2>8, <2>10, <2>11 DEF HangsAt, s2
<1>4. Tree(m, roots, w) => Tree(m2, roots2, w)
  BY <1>1, <1>3 DEF Tree
<1>5. Leads(m, roots, w) => Leads(m2, roots2, w)
  <2> SUFFICES ASSUME Leads(m, roots, w) PROVE Leads(m2, roots2, w)
    OBVIOUS
  <2>1. ASSUME NEW x \in 1..(w - 1) PROVE (IsNode(m2, x) <=> IsNode(m, x)) /\ ~(x >= w)
    BY DEF Grown
  <2>2. ASSUME NEW r \in Roots, roots2[r] \in 1..(w - 1) PROVE IsNode(m2, roots2[r])
    <3>1. roots2[r] = roots[r]
      BY <2>1, <2>2 DEF Grown
    <3> QED BY <2>1, <2>2, <3>1 DEF Leads
  <2>3. ASSUME NEW o \in NodesBelow(m, w), NEW b \in Branches, m2[o].child[b] \in 1..(w - 1)
        PROVE  IsNode(m2, m2[o].child[b])
    <3>1. m2[o].child[b] = m[o].child[b]
      BY <2>1, <2>3 DEF Grown
    <3> QED BY <2>1, <2>3, <3>1 DEF Leads
  <2> QED BY <1>1, <2>2, <2>3 DEF Leads
<1> QED BY <1>1, <1>2, <1>4, <1>5 DEF Planted

\* What rises leads to nodes.
LEMMA RisingLeads ==
  ASSUME NEW m, NEW roots, NEW w, Rising(m, roots, w) PROVE Leads(m, roots, w)
BY DEF Rising, Leads, NodesBelow

\* With the same links, the links still rise.
LEMMA RisingStays ==
  ASSUME NEW m, NEW roots, NEW m2, NEW roots2, NEW w, Rising(m, roots, w),
         \A o \in 1..(w - 1) : IsNode(m2, o) <=> IsNode(m, o),
         \A o \in NodesBelow(m, w), b \in Branches : m2[o].child[b] = m[o].child[b],
         \A r \in Roots : roots2[r] = roots[r]
  PROVE  Rising(m2, roots2, w)
<1>1. NodesBelow(m2, w) = NodesBelow(m, w)
  BY DEF NodesBelow
<1> QED BY <1>1 DEF Rising

\* The walk of k ends at an empty slot, at level d, of a root or of the node before.
ToGap(m, roots, w, k, d) ==
  /\ d \in 0..MaxDepth
  /\ \A e \in 0..(d - 1) : /\ Walk(m, roots, k)[e] \in NodesBelow(m, w)
                           /\ m[Walk(m, roots, k)[e]].key # k
  /\ d = 0 => roots[Route[k][0]] = 0
  /\ d # 0 => LET up == Walk(m, roots, k)[d - 1] IN
              /\ up \in NodesBelow(m, w) /\ m[up].child[Route[k][d]] = 0
              /\ Route[k][d] \in Branches

\* That of an absent key does.
LEMMA WalkToGap ==
  ASSUME NEW m, NEW roots, NEW w, NEW k, NEW d, w \in 0..Capacity, k \in Keys,
         Rising(m, roots, w), Find(m, roots, k) = 0, d = StopLevel(m, roots, k)
  PROVE  ToGap(m, roots, w, k, d)
<1> DEFINE s == Walk(m, roots, k)
<1>1. MaxDepth = Capacity /\ Capacity \in Nat
  BY DEF MaxDepth
<1>2. /\ d \in 0..MaxDepth /\ s[d] = 0
      /\ \A e \in 0..(d - 1) : s[e] \in NodesBelow(m, w) /\ m[s[e]].key # k
  <2>1. PICK x \in 0..MaxDepth :
          /\ x = StopLevel(m, roots, k)
          /\ s[x] = Find(m, roots, k)
          /\ \A e \in 0..(x - 1) : s[e] \in NodesBelow(m, w) /\ m[s[e]].key # k
    BY WalkStops
  <2>2. x = d
    BY <2>1
  <2> QED BY <2>1, <2>2
<1>3. /\ s[0] = roots[Route[k][0]]
      /\ \A e \in 1..MaxDepth : s[e] = Child(m, s[e - 1], Route[k][e])
  BY WalkIs
<1> HIDE DEF s
<1>4. ASSUME d # 0
      PROVE  /\ s[d - 1] \in NodesBelow(m, w) /\ m[s[d - 1]].child[Route[k][d]] = 0
             /\ Route[k][d] \in Branches
  <2>1. d \in 1..MaxDepth /\ d - 1 \in 0..(d - 1)
    BY <1>1, <1>2, <1>4
  <2>2. s[d - 1] \in NodesBelow(m, w)
    BY <1>2, <2>1
  <2>3. Route[k][d] \in Branches
    BY <1>1, <2>1
  <2>4. 0 = Child(m, s[d - 1], Route[k][d])
    BY <1>2, <1>3, <2>1
  <2> QED BY <2>2, <2>3, <2>4 DEF Child, NodesBelow, IsNode
<1> QED BY <1>2, <1>3, <1>4 DEF s, ToGap

\* A leaf with key k is at w, and slot d of the walk of k, of a root or of the node up,
\* was empty and leads to it; nothing else has changed below w.
Linked(m, roots, m2, roots2, w, k, d, up) ==
  /\ \A o \in 1..(w - 1) : IsNode(m2, o) <=> IsNode(m, o)
  /\ \A o \in NodesBelow(m, w) : m2[o].key = m[o].key /\ m2[o].val = m[o].val
  /\ \A o \in NodesBelow(m, w), b \in Branches :
       \/ m2[o].child[b] = m[o].child[b]
       \/ d # 0 /\ o = up /\ b = Route[k][d] /\ m[o].child[b] = 0 /\ m2[o].child[b] = w
  /\ \A r \in Roots : \/ roots2[r] = roots[r]
                      \/ d = 0 /\ r = Route[k][0] /\ roots[r] = 0 /\ roots2[r] = w
  /\ d = 0 => roots2[Route[k][0]] = w
  /\ d # 0 => m2[up].child[Route[k][d]] = w
  /\ IsNode(m2, w) /\ m2[w].key = k /\ m2[w].val = 0
  /\ \A b \in Branches : m2[w].child[b] = 0

Leaf(k) == [kind |-> "node", key |-> k, val |-> 0, child |-> [b \in Branches |-> 0]]

\* What Insert stores, where an empty slot was.
Inserted(m, roots, m2, roots2, w, k, d, up) ==
  /\ d = 0 => roots[Route[k][0]] = 0
  /\ d # 0 => /\ up \in NodesBelow(m, w) /\ m[up].child[Route[k][d]] = 0
              /\ Route[k][d] \in Branches
  /\ IF d = 0
     THEN /\ roots2 = [roots EXCEPT ![Route[k][0]] = w]
          /\ m2 = [m EXCEPT ![w] = Leaf(k)]
     ELSE /\ roots2 = roots
          /\ m2 = [m EXCEPT ![w] = Leaf(k), ![up].child[Route[k][d]] = w]

LEMMA InsertLinks ==
  ASSUME NEW m, NEW roots, NEW m2, NEW roots2, NEW w, NEW k, NEW d, NEW up,
         m \in Contents, roots \in [Roots -> Off], w \in Off, w # 0, k \in Keys,
         Inserted(m, roots, m2, roots2, w, k, d, up)
  PROVE  /\ m2 \in Contents /\ roots2 \in [Roots -> Off]
         /\ \A o \in Off : o > w => m2[o] = m[o]
         /\ \A o \in Off \ {w} : ~IsNode(m, o) => m2[o] = m[o]
         /\ Linked(m, roots, m2, roots2, w, k, d, up)
<1> USE DEF Inserted
<1>1. PICK leaf : leaf = Leaf(k)
  OBVIOUS
<1>2. /\ leaf \in NodeCell /\ leaf.kind = "node" /\ leaf.key = k /\ leaf.val = 0
      /\ \A b \in Branches : leaf.child[b] = 0
  BY <1>1 DEF NodeCell, Off, Leaf
<1>3. Capacity \in Nat /\ w \in 1..(Capacity - 1) /\ Off = 0..(Capacity - 1)
  BY DEF Off
<1>4. \A o \in NodesBelow(m, w) : o \in Off /\ o < w /\ m[o] \in NodeCell
  BY <1>3 DEF NodesBelow, Contents, NodeCell, IndexCell, Blank, IsNode
<1>5. CASE d = 0
  <2>1. roots2 = [roots EXCEPT ![Route[k][0]] = w] /\ m2 = [m EXCEPT ![w] = leaf]
    BY <1>1, <1>5
  <2>2. PICK r \in Roots : r = Route[k][0]
    OBVIOUS
  <2>3. roots2 \in [Roots -> Off] /\ roots2[r] = w /\ roots[r] = 0
        /\ \A x \in Roots : x # r => roots2[x] = roots[x]
    BY <2>1, <2>2, <1>5
  <2>4. m2 \in Contents /\ m2[w] = leaf /\ \A o \in Off : o # w => m2[o] = m[o]
    BY <2>1, <1>2 DEF Contents
  <2>5. \A o \in 1..(w - 1) : m2[o] = m[o]
    BY <2>4, <1>3
  <2>6. \A o \in NodesBelow(m, w) : m2[o] = m[o]
    BY <2>4, <1>4, <1>3
  <2>7. \A o \in Off : o > w => m2[o] = m[o]
    BY <2>4, <1>3
  <2> QED BY <1>2, <1>5, <2>2, <2>3, <2>4, <2>5, <2>6, <2>7 DEF Linked, IsNode
<1>6. CASE d # 0
  <2>1. PICK b \in Branches : b = Route[k][d]
    BY <1>6
  <2>2. roots2 = roots /\ m2 = [m EXCEPT ![w] = leaf, ![up].child[b] = w]
    BY <1>1, <1>6, <2>1
  <2>3. up \in NodesBelow(m, w) /\ up \in Off /\ up < w /\ m[up] \in NodeCell /\ m[up].child[b] = 0
    BY <1>4, <1>6, <2>1
  <2>4. PICK cell : cell = [m[up] EXCEPT !.child[b] = w]
    OBVIOUS
  <2>5. /\ cell \in NodeCell /\ cell.kind = "node" /\ cell.key = m[up].key /\ cell.val = m[up].val
        /\ cell.child[b] = w /\ \A x \in Branches : x # b => cell.child[x] = m[up].child[x]
    BY <2>3, <2>4 DEF NodeCell
  <2>6. /\ m2 \in Contents /\ m2[w] = leaf /\ m2[up] = cell
        /\ \A o \in Off : o # w /\ o # up => m2[o] = m[o]
    <3>1. up # w
      BY <2>3, <1>3
    <3>2. m2 = [o \in Off |-> IF o = up THEN cell ELSE IF o = w THEN leaf ELSE m[o]]
      BY <3>1, <2>2, <2>3, <2>4 DEF Contents
    <3> QED BY <3>1, <3>2, <2>3, <2>5, <1>2 DEF Contents
  <2>7. \A o \in 1..(w - 1) : o = up \/ m2[o] = m[o]
    BY <2>6, <1>3
  <2>8. \A o \in NodesBelow(m, w) : o = up \/ m2[o] = m[o]
    BY <2>6, <1>3, <1>4
  <2>9. IsNode(m, up) /\ IsNode(m2, up) /\ IsNode(m2, w)
    BY <2>3, <2>5, <2>6, <1>2 DEF NodesBelow, IsNode
  <2>10. \A o \in 1..(w - 1) : IsNode(m2, o) <=> IsNode(m, o)
    BY <2>7, <2>9 DEF IsNode
  <2>11. \A o \in NodesBelow(m, w) : m2[o].key = m[o].key /\ m2[o].val = m[o].val
    BY <2>5, <2>6, <2>8
  <2>12. \A o \in NodesBelow(m, w), x \in Branches :
           \/ m2[o].child[x] = m[o].child[x]
           \/ o = up /\ x = b /\ m[o].child[x] = 0 /\ m2[o].child[x] = w
    BY <2>3, <2>5, <2>6, <2>8
  <2>13. \A o \in Off : o > w => m2[o] = m[o]
    BY <2>3, <2>6, <1>3
  <2>14. \A o \in Off \ {w} : ~IsNode(m, o) => m2[o] = m[o]
    BY <2>6, <2>9
  <2>15. Linked(m, roots, m2, roots2, w, k, d, up)
    <3>1. /\ m2[up].child[b] = w
          /\ IsNode(m2, w) /\ m2[w].key = k /\ m2[w].val = 0
          /\ \A x \in Branches : m2[w].child[x] = 0
      BY <1>2, <2>5, <2>6, <2>9
    <3>2. \A r \in Roots : roots2[r] = roots[r]
      BY <2>2
    <3>3. \A o \in NodesBelow(m, w), x \in Branches :
             \/ m2[o].child[x] = m[o].child[x]
             \/ d # 0 /\ o = up /\ x = Route[k][d] /\ m[o].child[x] = 0 /\ m2[o].child[x] = w
      BY <1>6, <2>1, <2>12
    <3>4. m2[up].child[Route[k][d]] = w
      BY <2>1, <3>1
    <3> QED BY <1>6, <2>10, <2>11, <3>1, <3>2, <3>3, <3>4 DEF Linked
  <2> QED BY <2>2, <2>6, <2>13, <2>14, <2>15
<1> QED BY <1>5, <1>6

\* The tree has one node more, where the walk of its key ends.
LEMMA TreeGrows ==
  ASSUME NEW m, NEW roots, NEW m2, NEW roots2, NEW w, NEW k, NEW d, NEW up,
         m \in Contents, w \in Off, w # 0, k \in Keys, d \in 0..MaxDepth,
         \A e \in 0..(d - 1) : /\ Walk(m, roots, k)[e] \in NodesBelow(m, w)
                               /\ m[Walk(m, roots, k)[e]].key # k,
         d # 0 => up = Walk(m, roots, k)[d - 1],
         Rising(m, roots, w), Tree(m, roots, w),
         Linked(m, roots, m2, roots2, w, k, d, up)
  PROVE  /\ Grown(m, roots, m2, roots2, w)
         /\ NodesBelow(m2, w + 1) = NodesBelow(m, w) \cup {w}
         /\ Rising(m2, roots2, w + 1) /\ Tree(m2, roots2, w + 1)
<1> DEFINE s  == Walk(m, roots, k)
           s2 == Walk(m2, roots2, k)
<1>1. Capacity \in Nat /\ w \in 1..(Capacity - 1) /\ w \in 0..Capacity /\ MaxDepth = Capacity
  BY DEF MaxDepth, Off
<1>2. \A e \in 0..(d - 1) : s[e] \in NodesBelow(m, w) /\ m[s[e]].key # k
  OBVIOUS
<1>3. d # 0 => up = s[d - 1] /\ d - 1 \in 0..(d - 1) /\ d \in 1..MaxDepth
  BY <1>1
<1>4. Grown(m, roots, m2, roots2, w)
  <2>1. ASSUME NEW o \in NodesBelow(m, w), NEW b \in Branches
        PROVE  \/ m2[o].child[b] = m[o].child[b]
               \/ m[o].child[b] = 0 /\ m2[o].child[b] >= w
    BY <1>1 DEF Linked
  <2>2. ASSUME NEW r \in Roots
        PROVE  \/ roots2[r] = roots[r]
               \/ roots[r] = 0 /\ roots2[r] >= w
    BY <1>1 DEF Linked
  <2> QED BY <2>1, <2>2 DEF Grown, Linked
<1>5. NodesBelow(m2, w) = NodesBelow(m, w) /\ Tree(m2, roots2, w)
  BY <1>1, <1>4, TreeStays
<1>6. NodesBelow(m2, w + 1) = NodesBelow(m, w) \cup {w}
  BY <1>1, <1>5 DEF NodesBelow, Linked
<1>7. /\ \A o \in NodesBelow(m, w) : o < w /\ o # 0
      /\ \A r \in Roots : roots[r] # w
      /\ \A o \in NodesBelow(m, w), b \in Branches : m[o].child[b] # w
  BY <1>1 DEF Rising, NodesBelow
<1>8. \A e \in 0..(d - 1) : s2[e] = s[e]
  <2>1. \A e \in 0..(d - 1) : Walk(m, roots, k)[e] \in NodesBelow(m, w)
    BY <1>2
  <2> QED BY <2>1, <1>1, <1>4, WalkStays
<1>9. /\ s2[0] = roots2[Route[k][0]]
      /\ \A e \in 1..MaxDepth : s2[e] = Child(m2, s2[e - 1], Route[k][e])
  BY WalkIs
<1> HIDE DEF s, s2
<1>10. s2[d] = w
  <2>1. CASE d = 0
    BY <2>1, <1>9 DEF Linked
  <2>2. CASE d # 0
    <3>1. s2[d] = Child(m2, up, Route[k][d]) /\ up \in NodesBelow(m2, w)
      BY <2>2, <1>2, <1>3, <1>5, <1>8, <1>9
    <3>2. up # 0 /\ IsNode(m2, up)
      BY <3>1 DEF NodesBelow
    <3> QED BY <3>1, <3>2, <2>2 DEF Linked, Child, IsNode
  <2> QED BY <2>1, <2>2
<1>11. Rising(m2, roots2, w + 1)
  <2>1. ASSUME NEW r \in Roots, roots2[r] # 0 PROVE roots2[r] \in NodesBelow(m2, w + 1)
    <3>1. roots[r] # 0 => roots[r] \in NodesBelow(m, w)
      BY DEF Rising
    <3>2. roots2[r] = roots[r] \/ roots2[r] = w
      BY DEF Linked
    <3> QED BY <2>1, <3>1, <3>2, <1>6
  <2>2. ASSUME NEW o \in NodesBelow(m2, w + 1), NEW b \in Branches, m2[o].child[b] # 0
        PROVE  m2[o].child[b] > o /\ m2[o].child[b] \in NodesBelow(m2, w + 1)
    <3>1. o \in NodesBelow(m, w) /\ o < w
      BY <2>2, <1>6, <1>7 DEF Linked
    <3>2. CASE m2[o].child[b] = m[o].child[b]
      BY <2>2, <3>1, <3>2, <1>6 DEF Rising
    <3>3. CASE m2[o].child[b] = w
      BY <3>1, <3>3, <1>1, <1>6 DEF NodesBelow
    <3> QED BY <3>1, <3>2, <3>3 DEF Linked
  <2> QED BY <2>1, <2>2 DEF Rising
<1>12. HangsAt(m2, roots2, w + 1, w, d)
  <2>1. \A e \in 0..(d - 1) : s2[e] \in NodesBelow(m2, w + 1) /\ m2[s2[e]].key # k
    BY <1>2, <1>6, <1>8 DEF Linked
  <2>2. \A r \in Roots : roots2[r] = w => d = 0 /\ r = Route[k][0]
    BY <1>7 DEF Linked
  <2>3. ASSUME NEW o \in NodesBelow(m2, w + 1), NEW b \in Branches, m2[o].child[b] = w
        PROVE  d > 0 /\ o = s2[d - 1] /\ b = Route[k][d]
    <3>1. o \in NodesBelow(m, w)
      BY <2>3, <1>1, <1>6 DEF Linked
    <3>2. d # 0 /\ o = up /\ b = Route[k][d]
      BY <3>1, <2>3, <1>7 DEF Linked
    <3> QED BY <3>2, <1>1, <1>3, <1>8
  <2>4. m2[w].key = k
    BY DEF Linked
  <2> QED BY <1>10, <2>1, <2>2, <2>3, <2>4 DEF HangsAt, s2
<1>13. ASSUME NEW c \in NodesBelow(m, w) PROVE \E e \in 0..MaxDepth : HangsAt(m2, roots2, w + 1, c, e)
  <2>1. PICK e \in 0..MaxDepth : HangsAt(m2, roots2, w, c, e)
    BY <1>5 DEF Tree
  <2>2. \A b \in Branches : m2[w].child[b] # c
    BY <1>7 DEF Linked
  <2>3. HangsAt(m2, roots2, w + 1, c, e)
    BY <2>1, <2>2, <1>5, <1>6 DEF HangsAt
  <2> QED BY <2>3
<1>14. Tree(m2, roots2, w + 1)
  BY <1>6, <1>12, <1>13 DEF Tree
<1> QED BY <1>4, <1>6, <1>11, <1>14

------------------------------------------------------------------------------
(* What the validation accepts.                                            *)

\* Function f is the one ValidGraph is defined by.
IsValid(f, m, w) ==
  f = [o \in Off |-> /\ o < w
                     /\ \A b \in Branches : LET c == Child(m, o, b) IN
                          c # 0 => c > o /\ f[c]]

\* Some function says which subtrees are valid: those closed under links.
LEMMA ValidExists ==
  ASSUME NEW m, NEW w, m \in Contents
  PROVE  \E f : IsValid(f, m, w)
<1> DEFINE Closed(S) == \A o \in S : /\ o < w
                                     /\ \A b \in Branches : LET c == Child(m, o, b) IN
                                          c # 0 => c > o /\ c \in S
           F == {o \in Off : \E S \in SUBSET Off : o \in S /\ Closed(S)}
           f == [o \in Off |-> o \in F]
<1>1. Closed(F)
  <2>1. SUFFICES ASSUME NEW o \in F
                 PROVE  /\ o < w
                        /\ \A b \in Branches : LET c == Child(m, o, b) IN
                             c # 0 => c > o /\ c \in F
    OBVIOUS
  <2>2. PICK S \in SUBSET Off : o \in S /\ Closed(S)
    OBVIOUS
  <2>3. \A c \in S : c \in F
    BY <2>2
  <2> HIDE DEF F
  <2> QED BY <2>2, <2>3
<1>2. ASSUME NEW o \in Off, o < w,
             \A b \in Branches : LET c == Child(m, o, b) IN c # 0 => c > o /\ c \in F
      PROVE  o \in F
  <2> DEFINE S == F \cup {o}
  <2>1. S \in SUBSET Off
    OBVIOUS
  <2>2. Closed(S)
    <3> HIDE DEF F
    <3> QED BY <1>1, <1>2
  <2> HIDE DEF S
  <2>3. o \in S
    BY DEF S
  <2> QED BY <2>1, <2>2, <2>3
<1>3. \A o \in Off, b \in Branches : Child(m, o, b) \in Off
  BY DEF Child, Contents, NodeCell, IndexCell, Blank, IsNode, Off
<1> DEFINE g == [o \in Off |-> /\ o < w
                               /\ \A b \in Branches : LET c == Child(m, o, b) IN
                                    c # 0 => c > o /\ f[c]]
<1>4. ASSUME NEW o \in Off PROVE f[o] = g[o]
  <2>1. f[o] <=> o \in F
    OBVIOUS
  <2>2. \A b \in Branches : f[Child(m, o, b)] <=> Child(m, o, b) \in F
    BY <1>3
  <2> HIDE DEF f, F
  <2>3. g[o] <=> /\ o < w
                 /\ \A b \in Branches : LET c == Child(m, o, b) IN c # 0 => c > o /\ c \in F
    BY <2>2
  <2>4. g[o] <=> o \in F
    BY <2>3, <1>1, <1>2
  <2>5. f[o] \in BOOLEAN /\ g[o] \in BOOLEAN
    BY DEF f
  <2> QED BY <2>1, <2>4, <2>5
<1>5. f = g
  <2>1. f = [o \in Off |-> f[o]] /\ g = [o \in Off |-> g[o]]
    OBVIOUS
  <2> HIDE DEF f, g
  <2> QED BY <2>1, <1>4
<1>6. IsValid(f, m, w)
  BY <1>5 DEF IsValid
<1> QED BY <1>6

\* What a valid graph, and one whose nodes are valid, is.
LEMMA ValidIs ==
  ASSUME NEW m, NEW roots, NEW w, m \in Contents
  PROVE  \E f : /\ IsValid(f, m, w)
                /\ ValidGraph(m, roots, w) <=>
                     /\ \A r \in Roots : roots[r] # 0 => f[roots[r]]
                     /\ Visits(m, roots) <= Budget * w
<1> DEFINE f == CHOOSE f : IsValid(f, m, w)
<1>1. IsValid(f, m, w)
  BY ValidExists
<1>2. ValidGraph(m, roots, w) <=>
        /\ \A r \in Roots : roots[r] # 0 => f[roots[r]]
        /\ Visits(m, roots) <= Budget * w
  BY DEF ValidGraph, IsValid
<1> QED BY <1>1, <1>2

\* Roots that a valid graph has, to nodes that lead to nodes, rise when they are a tree's.
LEMMA ValidRises ==
  ASSUME NEW m, NEW roots, NEW all, NEW w, m \in Contents, all \in [Roots -> Off],
         w \in 0..Capacity, \A r \in Roots : roots[r] \in {0, all[r]},
         Planted(m, roots, w), ValidGraph(m, all, w)
  PROVE  Rising(m, roots, w)
<1> USE DEF Planted
<1>1. PICK f : /\ IsValid(f, m, w)
               /\ \A r \in Roots : roots[r] # 0 => f[roots[r]]
  BY ValidIs
<1>2. Off = 0..(Capacity - 1) /\ Capacity \in Nat /\ MaxDepth = Capacity
  BY DEF Off, MaxDepth
<1>9. ASSUME NEW r \in Roots PROVE roots[r] \in Off
  <2>1. 0 \in Off
    BY <1>2
  <2>2. roots[r] = 0 \/ roots[r] = all[r]
    OBVIOUS
  <2> QED BY <2>1, <2>2
<1>3. \A o \in Off : f[o] => /\ o < w
                             /\ \A b \in Branches : Child(m, o, b) # 0 =>
                                  Child(m, o, b) > o /\ f[Child(m, o, b)]
  BY <1>1 DEF IsValid
<1>4. \A o \in Off, b \in Branches : Child(m, o, b) \in Off
  BY DEF Child, Contents, NodeCell, IndexCell, Blank, IsNode, Off
<1>5. ASSUME NEW o \in Off, o # 0, f[o] PROVE o \in 1..(w - 1)
  BY <1>2, <1>3, <1>5
<1>6. ASSUME NEW c \in NodesBelow(m, w) PROVE c \in Off /\ f[c]
  <2>1. PICK d \in 0..MaxDepth : HangsAt(m, roots, w, c, d)
    BY DEF Tree
  <2>2. PICK k \in Keys : k = m[c].key
    BY <1>2 DEF NodesBelow, Contents, NodeCell, IndexCell, Blank, IsNode
  <2> DEFINE s == Walk(m, roots, k)
             T == {e \in 0..d : s[e] \in Off /\ f[s[e]]}
  <2>3. /\ s[d] = c
        /\ \A e \in 0..(d - 1) : s[e] \in NodesBelow(m, w)
    BY <2>1, <2>2 DEF HangsAt
  <2>4. /\ s[0] = roots[Route[k][0]]
        /\ \A e \in 1..MaxDepth : s[e] = Child(m, s[e - 1], Route[k][e])
    BY WalkIs
  <2> HIDE DEF s
  <2>5. \A e \in 0..d : s[e] # 0
    <3>1. ASSUME NEW e \in 0..d PROVE e = d \/ e \in 0..(d - 1)
      BY <1>2
    <3> QED BY <2>3, <3>1 DEF NodesBelow
  <2>6. 0 \in T
    <3>1. 0 \in 0..d /\ s[0] # 0 /\ Route[k][0] \in Roots
      BY <1>2, <2>5
    <3>2. s[0] \in Off
      BY <3>1, <2>4, <1>9
    <3> QED BY <3>1, <3>2, <2>4, <1>1
  <2>7. ASSUME NEW e \in 1..d, e - 1 \in T PROVE e \in T
    <3>1. e \in 1..MaxDepth /\ e \in 0..d /\ Route[k][e] \in Branches
      BY <1>2
    <3>2. s[e] = Child(m, s[e - 1], Route[k][e]) /\ s[e] # 0
      BY <2>4, <2>5, <3>1
    <3> QED BY <2>7, <3>1, <3>2, <1>3, <1>4
  <2>8. \A e \in 0..d : e \in T
    <3>1. d \in Nat
      BY <1>2
    <3> HIDE DEF T
    <3> QED BY <3>1, <2>6, <2>7, Upwards
  <2>9. d \in 0..d
    BY <1>2
  <2> QED BY <2>3, <2>8, <2>9
<1>7. ASSUME NEW r \in Roots, roots[r] # 0 PROVE roots[r] \in NodesBelow(m, w)
  <2>1. roots[r] \in Off
    BY <1>9
  <2>2. roots[r] \in 1..(w - 1)
    BY <1>1, <1>5, <1>7, <2>1
  <2> QED BY <2>2 DEF Leads, NodesBelow
<1>8. ASSUME NEW o \in NodesBelow(m, w), NEW b \in Branches, m[o].child[b] # 0
      PROVE  m[o].child[b] > o /\ m[o].child[b] \in NodesBelow(m, w)
  <2>1. Child(m, o, b) = m[o].child[b]
    BY DEF Child, NodesBelow, IsNode
  <2>2. m[o].child[b] > o /\ m[o].child[b] \in 1..(w - 1)
    BY <1>3, <1>4, <1>5, <1>6, <1>8, <2>1
  <2> QED BY <2>2 DEF Leads, NodesBelow
<1> QED BY <1>7, <1>8 DEF Rising

\* A key that is found in a valid graph is one of the nodes below w.
LEMMA ValidFinds ==
  ASSUME NEW m, NEW roots, NEW w, NEW k \in Keys, m \in Contents, roots \in [Roots -> Off],
         w \in 0..Capacity, ValidGraph(m, roots, w), Find(m, roots, k) # 0
  PROVE  k \in KeysBelow(m, w)
<1> DEFINE s == Walk(m, roots, k)
<1>1. PICK f : /\ IsValid(f, m, w)
               /\ \A r \in Roots : roots[r] # 0 => f[roots[r]]
  BY ValidIs
<1>2. Off = 0..(Capacity - 1) /\ Capacity \in Nat /\ MaxDepth = Capacity
  BY DEF Off, MaxDepth
<1>3. \A o \in Off : f[o] => /\ o < w
                             /\ \A b \in Branches : Child(m, o, b) # 0 =>
                                  Child(m, o, b) > o /\ f[Child(m, o, b)]
  BY <1>1 DEF IsValid
<1>4. \A o \in Off, b \in Branches : Child(m, o, b) \in Off
  BY DEF Child, Contents, NodeCell, IndexCell, Blank, IsNode, Off
<1>5. /\ s[0] = roots[Route[k][0]]
      /\ \A e \in 1..MaxDepth : s[e] = Child(m, s[e - 1], Route[k][e])
  BY WalkIs
<1> HIDE DEF s
<1> DEFINE T == {e \in 0..MaxDepth : s[e] # 0 => s[e] \in Off /\ s[e] > e /\ f[s[e]]}
<1>6. 0 \in T
  <2>1. PICK r \in Roots : r = Route[k][0]
    OBVIOUS
  <2>2. s[0] \in Off /\ (s[0] # 0 => f[s[0]])
    BY <1>1, <1>5, <2>1
  <2> QED BY <2>2, <1>2
<1>7. ASSUME NEW e \in 1..MaxDepth, e - 1 \in T PROVE e \in T
  <2>1. PICK b \in Branches : b = Route[k][e]
    BY <1>2
  <2>2. s[e] = Child(m, s[e - 1], b)
    BY <1>5, <2>1
  <2>3. s[e] # 0 => s[e - 1] # 0
    BY <2>2 DEF Child
  <2>4. s[e] # 0 => s[e - 1] \in Off /\ s[e - 1] > e - 1 /\ f[s[e - 1]]
    BY <1>7, <2>3
  <2>5. s[e] # 0 => s[e] \in Off /\ s[e] > s[e - 1] /\ f[s[e]]
    BY <1>3, <1>4, <2>2, <2>4
  <2> QED BY <2>4, <2>5, <1>2
<1>8. \A e \in 0..MaxDepth : e \in T
  <2> HIDE DEF T
  <2> QED BY <1>2, <1>6, <1>7, Upwards
<1> DEFINE U == {e \in 0..MaxDepth : Stops(m, roots, k, e)}
<1>9. MaxDepth \in U
  <2>1. s[MaxDepth] = 0
    BY <1>2, <1>8
  <2> QED BY <2>1, <1>2 DEF Stops, s
<1>10. PICK d \in U : \A e \in U : d <= e
  <2>1. U \subseteq Nat
    BY <1>2
  <2> HIDE DEF U
  <2> QED BY <1>9, <2>1, LeastNatural
<1>11. d \in 0..MaxDepth /\ Stops(m, roots, k, d)
  BY <1>10
<1>12. \A e \in 0..(d - 1) : ~Stops(m, roots, k, e)
  BY <1>2, <1>10
<1>13. Find(m, roots, k) = s[d]
  BY <1>11, <1>12, StopsThere DEF s
<1>14. s[d] # 0 /\ IsNode(m, s[d]) /\ m[s[d]].key = k
  BY <1>11, <1>13 DEF Stops, s
<1>15. s[d] \in Off /\ s[d] < w
  BY <1>3, <1>8, <1>11, <1>14
<1>16. s[d] \in NodesBelow(m, w)
  BY <1>2, <1>14, <1>15 DEF NodesBelow
<1> HIDE DEF s
<1> QED BY <1>14, <1>16 DEF KeysBelow

\* Roots that differ elsewhere have the same walk.
LEMMA SameWalk ==
  ASSUME NEW m, NEW roots, NEW roots2, NEW k, roots2[Route[k][0]] = roots[Route[k][0]]
  PROVE  \A d \in 0..MaxDepth : Walk(m, roots2, k)[d] = Walk(m, roots, k)[d]
<1> DEFINE s  == Walk(m, roots, k)
           s2 == Walk(m, roots2, k)
           T  == {d \in 0..MaxDepth : s2[d] = s[d]}
<1>1. MaxDepth \in Nat
  BY DEF MaxDepth
<1>2. /\ s[0] = roots[Route[k][0]] /\ s2[0] = roots2[Route[k][0]]
      /\ \A e \in 1..MaxDepth : /\ s[e] = Child(m, s[e - 1], Route[k][e])
                                /\ s2[e] = Child(m, s2[e - 1], Route[k][e])
  BY WalkIs
<1> HIDE DEF s, s2
<1>3. 0 \in T
  BY <1>1, <1>2
<1>4. ASSUME NEW d \in 1..MaxDepth, d - 1 \in T PROVE d \in T
  BY <1>1, <1>2, <1>4
<1>5. \A d \in 0..MaxDepth : d \in T
  <2> HIDE DEF T
  <2> QED BY <1>1, <1>3, <1>4, Upwards
<1> QED BY <1>5 DEF s, s2

\* A root of a valid graph that belongs to no tree leads to no key.
LEMMA StrayRoot ==
  ASSUME NEW m, NEW roots, NEW all, NEW w, m \in Contents, all \in [Roots -> Off],
         w \in 0..Capacity, \A r \in Roots : roots[r] \in {0, all[r]},
         Tree(m, roots, w), ValidGraph(m, all, w)
  PROVE  KeysIn(m, all) = KeysBelow(m, w)
<1>1. ASSUME NEW k \in Keys, Find(m, all, k) # 0 PROVE k \in KeysBelow(m, w)
  BY <1>1, ValidFinds
<1>2. ASSUME NEW c \in NodesBelow(m, w) PROVE Find(m, all, m[c].key) # 0 /\ m[c].key \in Keys
  <2>1. PICK d \in 0..MaxDepth : HangsAt(m, roots, w, c, d)
    BY DEF Tree
  <2>2. PICK k \in Keys : k = m[c].key
    BY DEF NodesBelow, Contents, NodeCell, IndexCell, Blank, Off, IsNode
  <2> DEFINE s  == Walk(m, roots, k)
             s2 == Walk(m, all, k)
  <2>3. /\ s[d] = c
        /\ \A e \in 0..(d - 1) : s[e] \in NodesBelow(m, w) /\ m[s[e]].key # k
    BY <2>1, <2>2 DEF HangsAt
  <2>4. MaxDepth \in Nat
    BY DEF MaxDepth
  <2>5. s[0] # 0
    <3>1. CASE d = 0
      BY <2>3, <3>1 DEF NodesBelow
    <3>2. CASE d # 0
      BY <2>3, <2>4, <3>2 DEF NodesBelow
    <3> QED BY <3>1, <3>2
  <2>6. all[Route[k][0]] = roots[Route[k][0]]
    <3>1. PICK r \in Roots : r = Route[k][0]
      OBVIOUS
    <3>2. s[0] = roots[r]
      BY <3>1, WalkIs
    <3> HIDE DEF s
    <3> QED BY <2>5, <3>1, <3>2
  <2>7. \A e \in 0..MaxDepth : s2[e] = s[e]
    BY <2>6, SameWalk
  <2>8. Stops(m, all, k, d)
    BY <2>2, <2>3, <2>7 DEF Stops, NodesBelow
  <2>9. \A e \in 0..(d - 1) : ~Stops(m, all, k, e)
    BY <2>3, <2>4, <2>7 DEF Stops, NodesBelow
  <2>10. Find(m, all, k) = c
    BY <2>3, <2>7, <2>8, <2>9, StopsThere
  <2> QED BY <2>2, <2>10 DEF NodesBelow
<1> QED BY <1>1, <1>2 DEF KeysIn, KeysBelow

------------------------------------------------------------------------------
(* The visits of a walk of the whole map.                                  *)

\* Function f is the fold SumFunction is defined by.
IsSum(f, h, S) ==
  f = [s \in SUBSET S |-> IF s = {} THEN 0
                          ELSE LET x == CHOOSE x \in s : TRUE IN h[x] + f[s \ {x}]]

\* SumFunction, by the recursive function it stands for.
LEMMA SumIs ==
  ASSUME NEW h, NEW S, S = DOMAIN h
  PROVE  SumFunction(h) = (CHOOSE f : IsSum(f, h, S))[S]
BY DEF SumFunction, SumFunctionOnSet, FoldFunctionOnSet, MapThenFoldSet, IsSum

\* Numbers of elements of disjoint sets add up to that of their union.
LEMMA SumCounts ==
  ASSUME NEW S, NEW N, NEW h, NEW A, IsFiniteSet(S), IsFiniteSet(N),
         h \in [S -> Nat], A \in [S -> SUBSET N],
         \A x \in S : h[x] = Cardinality(A[x]),
         \A x, y \in S : x # y => A[x] \cap A[y] = {}
  PROVE  SumFunction(h) = Cardinality(UNION {A[x] : x \in S})
<1> DEFINE U(s) == UNION {A[x] : x \in s}
           c    == [s \in SUBSET S |-> Cardinality(U(s))]
           P(s) == CHOOSE x \in s : TRUE
<1>1. ASSUME NEW s \in SUBSET S PROVE IsFiniteSet(U(s)) /\ Cardinality(U(s)) \in Nat
  <2>1. U(s) \in SUBSET N
    OBVIOUS
  <2> HIDE DEF U
  <2> QED BY <2>1, FS_Subset, FS_CardinalityType
<1>2. ASSUME NEW s \in SUBSET S, s # {}
      PROVE  /\ P(s) \in s /\ s \ {P(s)} \in SUBSET S
             /\ Cardinality(U(s)) = h[P(s)] + Cardinality(U(s \ {P(s)}))
  <2>1. P(s) \in s
    BY <1>2
  <2>2. PICK x \in s : x = P(s)
    BY <2>1
  <2>3. U(s) = A[x] \cup U(s \ {x}) /\ A[x] \cap U(s \ {x}) = {}
    OBVIOUS
  <2>4. s \ {x} \in SUBSET S /\ x \in S /\ A[x] \in SUBSET N
    OBVIOUS
  <2>5. IsFiniteSet(A[x]) /\ Cardinality(A[x]) \in Nat
    BY <2>4, FS_Subset, FS_CardinalityType
  <2>6. IsFiniteSet(U(s \ {x})) /\ Cardinality(U(s \ {x})) \in Nat
    BY <1>1, <2>4
  <2> HIDE DEF U
  <2>7. Cardinality(U(s)) = Cardinality(A[x]) + Cardinality(U(s \ {x})) - Cardinality({})
    <3>1. PICK B : B = A[x]
      OBVIOUS
    <3>2. PICK V : V = U(s \ {x})
      OBVIOUS
    <3>3. IsFiniteSet(B) /\ IsFiniteSet(V) /\ U(s) = B \cup V /\ B \cap V = {}
      BY <3>1, <3>2, <2>3, <2>5, <2>6
    <3>4. Cardinality(B \cup V) = Cardinality(B) + Cardinality(V) - Cardinality(B \cap V)
      BY <3>3, FS_Union
    <3> QED BY <3>1, <3>2, <3>3, <3>4
  <2>8. Cardinality(U(s)) = Cardinality(A[x]) + Cardinality(U(s \ {x}))
    BY <2>5, <2>6, <2>7, FS_EmptySet
  <2> QED BY <2>1, <2>2, <2>4, <2>8
<1>3. Cardinality(U({})) = 0
  <2>1. U({}) = {}
    OBVIOUS
  <2> QED BY <2>1, FS_EmptySet
<1>4. IsSum(c, h, S)
  <2> DEFINE g == [s \in SUBSET S |-> IF s = {} THEN 0
                                      ELSE LET x == CHOOSE x \in s : TRUE IN h[x] + c[s \ {x}]]
  <2>1. ASSUME NEW s \in SUBSET S PROVE c[s] = g[s]
    <3>1. c[s] = Cardinality(U(s))
      OBVIOUS
    <3>2. CASE s = {}
      BY <3>1, <3>2, <1>3
    <3>3. CASE s # {}
      <4>1. g[s] = h[P(s)] + c[s \ {P(s)}]
        BY <3>3
      <4>2. c[s \ {P(s)}] = Cardinality(U(s \ {P(s)}))
        BY <3>3, <1>2
      <4> QED BY <3>1, <3>3, <4>1, <4>2, <1>2
    <3> QED BY <3>2, <3>3
  <2>2. c = [s \in SUBSET S |-> c[s]] /\ g = [s \in SUBSET S |-> g[s]]
    OBVIOUS
  <2>3. c = g
    <3> HIDE DEF c, g
    <3> QED BY <2>1, <2>2
  <2> QED BY <2>3 DEF IsSum
<1>5. PICK f : IsSum(f, h, S) /\ SumFunction(h) = f[S]
  <2>1. S = DOMAIN h
    OBVIOUS
  <2> HIDE DEF c
  <2>2. IsSum(CHOOSE f : IsSum(f, h, S), h, S)
    BY <1>4
  <2> QED BY <2>1, <2>2, SumIs
<1> DEFINE T == {n \in Nat : \A s \in SUBSET S : Cardinality(s) = n => f[s] = Cardinality(U(s))}
<1>6. 0 \in T
  <2>1. ASSUME NEW s \in SUBSET S, Cardinality(s) = 0 PROVE f[s] = Cardinality(U(s))
    <3>1. s = {}
      BY <2>1, FS_Subset, FS_EmptySet
    <3>2. f[s] = 0
      BY <1>5, <3>1 DEF IsSum
    <3> QED BY <3>1, <3>2, <1>3
  <2> QED BY <2>1
<1>7. ASSUME NEW n \in Nat, n \in Nat \ {0}, n - 1 \in T PROVE n \in T
  <2>1. ASSUME NEW s \in SUBSET S, Cardinality(s) = n PROVE f[s] = Cardinality(U(s))
    <3>1. IsFiniteSet(s) /\ s # {}
      BY <1>7, <2>1, FS_Subset, FS_EmptySet
    <3>2. P(s) \in s /\ s \ {P(s)} \in SUBSET S
      BY <3>1, <1>2
    <3>3. Cardinality(s \ {P(s)}) = n - 1
      <4> HIDE DEF P
      <4> QED BY <2>1, <3>1, <3>2, FS_RemoveElement
    <3>4. f[s \ {P(s)}] = Cardinality(U(s \ {P(s)}))
      BY <1>7, <3>2, <3>3
    <3>5. f[s] = h[P(s)] + f[s \ {P(s)}]
      BY <1>5, <3>1 DEF IsSum
    <3> QED BY <3>1, <3>4, <3>5, <1>2
  <2> QED BY <2>1
<1>8. PICK n \in Nat : n = Cardinality(S)
  BY FS_CardinalityType
<1>9. n \in T
  <2>1. \A i \in 1..n : i - 1 \in T => i \in T
    <3> HIDE DEF T
    <3> QED BY <1>7
  <2>2. n \in 0..n
    OBVIOUS
  <2> HIDE DEF T
  <2> QED BY <1>6, <2>1, <2>2, Upwards
<1> QED BY <1>5, <1>8, <1>9

\* Function f is the count that Visits is defined by.
IsCount(f, m) ==
  f = [o \in Off |-> 1 + SumFunction([b \in Branches |->
                           IF Child(m, o, b) > o THEN f[Child(m, o, b)] ELSE 0])]

\* There are counts of visits: those of a node are counted from those above it.
LEMMA CountExists ==
  ASSUME NEW m, m \in Contents
  PROVE  \E f : IsCount(f, m)
<1> DEFINE H(f, o) == [b \in Branches |->
                        IF Child(m, o, b) > o THEN f[Child(m, o, b)] ELSE 0]
           T == {n \in 0..Capacity :
                  \E f : \A o \in Off : o >= Capacity - n => f[o] = 1 + SumFunction(H(f, o))}
<1>1. Capacity \in Nat /\ Off = 0..(Capacity - 1)
  BY DEF Off
<1>2. \A o \in Off, b \in Branches : Child(m, o, b) \in Off
  BY DEF Child, Contents, NodeCell, IndexCell, Blank, IsNode, Off
<1>3. 0 \in T
  BY <1>1
<1>4. ASSUME NEW n \in 1..Capacity, n - 1 \in T PROVE n \in T
  <2>1. PICK p \in Off : p = Capacity - n
    BY <1>1
  <2>2. PICK f : \A o \in Off : o >= Capacity - (n - 1) => f[o] = 1 + SumFunction(H(f, o))
    BY <1>4
  <2> DEFINE g == [o \in Off |-> IF o = p THEN 1 + SumFunction(H(f, p)) ELSE f[o]]
  <2>3. ASSUME NEW o \in Off, o >= p PROVE H(g, o) = H(f, o)
    <3>1. ASSUME NEW b \in Branches, Child(m, o, b) > o PROVE g[Child(m, o, b)] = f[Child(m, o, b)]
      BY <1>1, <1>2, <2>3, <3>1
    <3> HIDE DEF g
    <3> QED BY <3>1
  <2>4. ASSUME NEW o \in Off, o >= p PROVE g[o] = 1 + SumFunction(H(g, o))
    <3>1. CASE o = p
      BY <2>3, <2>4, <3>1
    <3>2. CASE o # p
      <4>1. g[o] = f[o] /\ o >= Capacity - (n - 1)
        BY <1>1, <2>1, <2>4, <3>2
      <4> HIDE DEF g, H
      <4> QED BY <2>2, <2>3, <2>4, <4>1
    <3> QED BY <3>1, <3>2
  <2> HIDE DEF g, H
  <2> QED BY <1>1, <2>1, <2>4
<1>5. Capacity \in T
  <2>1. Capacity \in 0..Capacity
    BY <1>1
  <2> HIDE DEF T
  <2> QED BY <1>1, <1>3, <1>4, <2>1, Upwards
<1>6. PICK f : \A o \in Off : f[o] = 1 + SumFunction(H(f, o))
  <2>1. PICK f : \A o \in Off : o >= Capacity - Capacity => f[o] = 1 + SumFunction(H(f, o))
    BY <1>5
  <2>2. \A o \in Off : o >= Capacity - Capacity
    BY <1>1
  <2> HIDE DEF H
  <2> QED BY <2>1, <2>2
<1> DEFINE g == [o \in Off |-> f[o]]
           k == [o \in Off |-> 1 + SumFunction(H(g, o))]
<1>7. \A o \in Off : H(g, o) = H(f, o)
  BY <1>2
<1>8. \A o \in Off : g[o] = k[o]
  <2>1. \A o \in Off : g[o] = 1 + SumFunction(H(f, o)) /\ k[o] = 1 + SumFunction(H(g, o))
    <3> HIDE DEF H
    <3> QED BY <1>6
  <2> HIDE DEF g, k, H
  <2> QED BY <2>1, <1>7
<1>9. g = k
  <2>1. g = [o \in Off |-> g[o]] /\ k = [o \in Off |-> k[o]]
    OBVIOUS
  <2> HIDE DEF g, k
  <2> QED BY <1>8, <2>1
<1>10. IsCount(g, m)
  BY <1>9 DEF IsCount
<1> QED BY <1>10

\* A walk of the whole map adds up the counts of its roots.
LEMMA VisitsAre ==
  ASSUME NEW m, NEW roots, m \in Contents
  PROVE  \E f : /\ IsCount(f, m)
                /\ Visits(m, roots) =
                     SumFunction([r \in Roots |-> IF roots[r] = 0 THEN 0 ELSE f[roots[r]]])
<1> DEFINE f == CHOOSE f : IsCount(f, m)
<1>1. IsCount(f, m)
  BY CountExists
<1>2. Visits(m, roots) = SumFunction([r \in Roots |-> IF roots[r] = 0 THEN 0 ELSE f[roots[r]]])
  BY DEF Visits, IsCount
<1> QED BY <1>1, <1>2

\* The way to a node: links that rise, with no node twice.
WayTo(m, roots, w, p, d) ==
  LET k == m[p].key
      s == Walk(m, roots, k)
  IN /\ k \in Keys /\ s[d] = p
     /\ s[0] = roots[Route[k][0]] /\ Route[k][0] \in Roots
     /\ \A e \in 0..d : s[e] \in NodesBelow(m, w)
     /\ \A e \in 1..d : /\ s[e] = m[s[e - 1]].child[Route[k][e]]
                        /\ Route[k][e] \in Branches
     /\ \A e, f \in 0..d : e < f => s[e] < s[f]

LEMMA PathRises ==
  ASSUME NEW m, NEW roots, NEW w, NEW p, NEW d, m \in Contents, w \in 0..Capacity,
         Rising(m, roots, w), p \in NodesBelow(m, w), d \in 0..MaxDepth,
         HangsAt(m, roots, w, p, d)
  PROVE  WayTo(m, roots, w, p, d)
<1>1. PICK k \in Keys : k = m[p].key
  BY DEF NodesBelow, Contents, NodeCell, IndexCell, Blank, IsNode, Off
<1> DEFINE s == Walk(m, roots, k)
           T == {f \in 0..d : \A e \in 0..d : e < f => s[e] < s[f]}
<1>2. MaxDepth = Capacity /\ Capacity \in Nat /\ d \in Nat /\ d <= Capacity
  BY DEF MaxDepth
<1>3. s[d] = p /\ \A e \in 0..(d - 1) : s[e] \in NodesBelow(m, w)
  BY <1>1 DEF HangsAt
<1>4. /\ s[0] = roots[Route[k][0]]
      /\ \A e \in 1..MaxDepth : s[e] = Child(m, s[e - 1], Route[k][e])
  BY WalkIs
<1> HIDE DEF s
<1>5. \A e \in 0..d : s[e] \in NodesBelow(m, w) /\ s[e] \in Nat
  <2>1. ASSUME NEW e \in 0..d PROVE e = d \/ e \in 0..(d - 1)
    BY <1>2
  <2> QED BY <1>3, <2>1 DEF NodesBelow
<1>6. ASSUME NEW e \in 1..d
      PROVE  /\ s[e] = m[s[e - 1]].child[Route[k][e]] /\ Route[k][e] \in Branches
             /\ s[e - 1] < s[e]
  <2>1. e \in 1..MaxDepth /\ e \in 0..d /\ e - 1 \in 0..d /\ e \in 1..Capacity
    BY <1>2
  <2>2. Route[k][e] \in Branches
    BY <2>1
  <2>3. s[e - 1] \in NodesBelow(m, w) /\ s[e] \in NodesBelow(m, w)
    BY <1>5, <2>1
  <2>4. s[e] = m[s[e - 1]].child[Route[k][e]]
    BY <1>4, <2>1, <2>3 DEF Child, NodesBelow
  <2> QED BY <2>2, <2>3, <2>4 DEF Rising, NodesBelow
<1>7. 0 \in T
  BY <1>2
<1>8. ASSUME NEW f \in 1..d, f - 1 \in T PROVE f \in T
  <2>1. f \in 0..d /\ f - 1 \in 0..d
    BY <1>2
  <2>2. ASSUME NEW e \in 0..d, e < f PROVE s[e] < s[f]
    <3>1. e = f - 1 \/ e < f - 1
      BY <2>2
    <3>2. s[e] \in Nat /\ s[f] \in Nat /\ s[f - 1] \in Nat /\ s[f - 1] < s[f]
      BY <1>5, <1>6, <2>1
    <3>3. e < f - 1 => s[e] < s[f - 1]
      BY <1>8
    <3> QED BY <3>1, <3>2, <3>3
  <2> QED BY <2>1, <2>2
<1>9. \A f \in 0..d : f \in T
  <2> HIDE DEF T
  <2> QED BY <1>2, <1>7, <1>8, Upwards
<1>10. \A e, f \in 0..d : e < f => s[e] < s[f]
  BY <1>9
<1> HIDE DEF T
<1> QED BY <1>1, <1>3, <1>4, <1>5, <1>6, <1>10 DEF s, WayTo

\* Node o is at level e of the way to p, which is at level d.
OnWay(m, roots, w, p, d, o, e) ==
  HangsAt(m, roots, w, p, d) /\ e \in 0..d /\ Walk(m, roots, m[p].key)[e] = o

\* The nodes whose way goes through o.
SubTree(m, roots, w, o) ==
  {p \in NodesBelow(m, w) : \E d \in 0..MaxDepth, e \in Nat : OnWay(m, roots, w, p, d, o, e)}

\* A node is at one level only.
LEMMA OneLevel ==
  ASSUME NEW m, NEW roots, NEW w, NEW p, NEW d, NEW d2, m \in Contents, w \in 0..Capacity,
         Rising(m, roots, w), p \in NodesBelow(m, w), d \in 0..MaxDepth, d2 \in 0..MaxDepth,
         HangsAt(m, roots, w, p, d), HangsAt(m, roots, w, p, d2)
  PROVE  d = d2
<1>1. MaxDepth \in Nat
  BY DEF MaxDepth
<1>2. ~(d < d2)
  BY <1>1 DEF HangsAt
<1>3. ~(d2 < d)
  BY <1>1 DEF HangsAt
<1> QED BY <1>1, <1>2, <1>3

\* Node c is child b of node o.
Hangs(m, w, o, b, c) ==
  o \in NodesBelow(m, w) /\ b \in Branches /\ c # 0 /\ c = m[o].child[b]

\* The way to p goes through o, by branch b to level e.
ByBranch(m, roots, w, p, d, o, b, e) ==
  /\ e - 1 \in Nat /\ OnWay(m, roots, w, p, d, o, e - 1)
  /\ b = Route[m[p].key][e]

\* The way to whatever is below a child goes through its parent.
LEMMA WayThroughParent ==
  ASSUME NEW m, NEW roots, NEW w, NEW p, NEW d, NEW e, NEW o, NEW b, NEW c,
         m \in Contents, w \in 0..Capacity, d \in 0..MaxDepth,
         Rising(m, roots, w), Tree(m, roots, w), p \in NodesBelow(m, w),
         Hangs(m, w, o, b, c), OnWay(m, roots, w, p, d, c, e)
  PROVE  ByBranch(m, roots, w, p, d, o, b, e)
<1>1. /\ o \in NodesBelow(m, w) /\ b \in Branches
      /\ c \in NodesBelow(m, w) /\ c = m[o].child[b]
  BY DEF Rising, Hangs
<1>2. PICK dc \in 0..MaxDepth : HangsAt(m, roots, w, c, dc)
  BY <1>1 DEF Tree
<1> DEFINE k == m[p].key
           s == Walk(m, roots, k)
<1>3. /\ HangsAt(m, roots, w, p, d) /\ e \in 0..d /\ s[e] = c
  BY <1>1 DEF OnWay
<1>4. /\ s[0] = roots[Route[k][0]] /\ Route[k][0] \in Roots
      /\ \A x \in 0..d : s[x] \in NodesBelow(m, w)
      /\ \A x \in 1..d : s[x] = m[s[x - 1]].child[Route[k][x]] /\ Route[k][x] \in Branches
  <2>1. WayTo(m, roots, w, p, d)
    BY <1>3, PathRises
  <2> QED BY <1>3, <2>1 DEF WayTo
<1> HIDE DEF s
<1>5. /\ \A r \in Roots : roots[r] = c => dc = 0
      /\ \A x \in NodesBelow(m, w), y \in Branches :
           m[x].child[y] = c => dc > 0
      /\ \A x \in NodesBelow(m, w), y \in Branches :
           m[x].child[y] = c => x = Walk(m, roots, m[c].key)[dc - 1] /\ y = Route[m[c].key][dc]
  BY <1>2 DEF HangsAt
<1>11. dc # 0
  <2>1. dc > 0
    BY <1>1, <1>5
  <2> QED BY <2>1
<1>12. o = Walk(m, roots, m[c].key)[dc - 1] /\ b = Route[m[c].key][dc]
  BY <1>1, <1>5
<1>6. e # 0
  <2>1. SUFFICES ASSUME e = 0 PROVE FALSE
    OBVIOUS
  <2>2. PICK r \in Roots : r = Route[k][0] /\ roots[r] = c
    BY <2>1, <1>3, <1>4
  <2>3. dc = 0
    BY <2>2, <1>5
  <2> QED BY <2>3, <1>11
<1>7. d \in Nat
  BY DEF MaxDepth
<1>8. e \in 1..d /\ e - 1 \in 0..d
  BY <1>3, <1>6, <1>7
<1>9. s[e - 1] = o /\ Route[k][e] = b
  <2>1. s[e - 1] \in NodesBelow(m, w) /\ Route[k][e] \in Branches
        /\ m[s[e - 1]].child[Route[k][e]] = c
    BY <1>3, <1>4, <1>8
  <2> QED BY <2>1, <1>5, <1>12
<1> QED BY <1>3, <1>8, <1>9 DEF OnWay, ByBranch, s

\* The nodes a walk from node o goes on to by branch b.
Part(m, roots, w, o, b) ==
  IF Child(m, o, b) > o THEN SubTree(m, roots, w, Child(m, o, b)) ELSE {}

\* The parts below node o, by branch.
Splits(m, roots, w, o, A) ==
  /\ \A b \in Branches : A[b] = Part(m, roots, w, o, b)
  /\ SubTree(m, roots, w, o) = {o} \cup UNION {A[b] : b \in Branches}
  /\ \A b \in Branches : o \notin A[b]
  /\ \A b, a \in Branches : b # a => A[b] \cap A[a] = {}

\* Below a node are it and what is below its children, each below one of them only.
LEMMA SubTreeSplits ==
  ASSUME NEW m, NEW roots, NEW w, NEW o, m \in Contents, w \in 0..Capacity,
         Rising(m, roots, w), Tree(m, roots, w), o \in NodesBelow(m, w)
  PROVE  \E A \in [Branches -> SUBSET NodesBelow(m, w)] :
           Splits(m, roots, w, o, A)
<1> DEFINE Q(b) == IF Child(m, o, b) > o THEN SubTree(m, roots, w, Child(m, o, b)) ELSE {}
<1>1. \A b \in Branches :
        /\ Child(m, o, b) = m[o].child[b]
        /\ Child(m, o, b) > o <=> Child(m, o, b) # 0
        /\ Child(m, o, b) # 0 => Child(m, o, b) \in NodesBelow(m, w)
  <2>1. \A b \in Branches : Child(m, o, b) = m[o].child[b]
    BY DEF Child, NodesBelow, IsNode
  <2>2. o > 0
    BY DEF NodesBelow
  <2> QED BY <2>1, <2>2 DEF Rising, NodesBelow
<1>2. o \in SubTree(m, roots, w, o)
  <2>1. PICK d \in 0..MaxDepth : HangsAt(m, roots, w, o, d)
    BY DEF Tree
  <2>2. d \in 0..d /\ d \in Nat
    BY DEF MaxDepth
  <2>3. OnWay(m, roots, w, o, d, o, d)
    BY <2>1, <2>2 DEF OnWay, HangsAt
  <2> QED BY <2>2, <2>3 DEF SubTree
<1>3. ASSUME NEW b \in Branches, NEW p \in Q(b)
      PROVE  /\ p \in NodesBelow(m, w) /\ p # o /\ p \in SubTree(m, roots, w, o)
             /\ \E d \in 0..MaxDepth, e \in Nat : /\ OnWay(m, roots, w, p, d, o, e)
                                                  /\ b = Route[m[p].key][e + 1]
  <2>1. PICK c : c = Child(m, o, b) /\ c = m[o].child[b] /\ c # 0 /\ c > o
                 /\ p \in SubTree(m, roots, w, c)
    BY <1>1, <1>3
  <2>2. PICK d \in 0..MaxDepth, e \in Nat : OnWay(m, roots, w, p, d, c, e)
    BY <2>1 DEF SubTree
  <2>3. p \in NodesBelow(m, w)
    BY <2>1 DEF SubTree
  <2>4. /\ e - 1 \in Nat /\ OnWay(m, roots, w, p, d, o, e - 1)
        /\ b = Route[m[p].key][e]
    <3>1. Hangs(m, w, o, b, c)
      BY <2>1 DEF Hangs
    <3> HIDE DEF Q
    <3>2. OnWay(m, roots, w, p, d, c, e)
      BY <2>2
    <3>3. ByBranch(m, roots, w, p, d, o, b, e)
      BY <3>1, <3>2, <2>3, WayThroughParent
    <3> QED BY <3>3 DEF ByBranch
  <2>5. p # o
    <3>1. /\ HangsAt(m, roots, w, p, d) /\ e \in 0..d /\ d \in 0..d
          /\ Walk(m, roots, m[p].key)[e] = c
      BY <2>2 DEF OnWay, MaxDepth
    <3>2. Walk(m, roots, m[p].key)[d] = p
      BY <3>1 DEF HangsAt
    <3>3. e < d => c < p
      <4>1. WayTo(m, roots, w, p, d)
        BY <2>3, <3>1, <3>2, PathRises
      <4> QED BY <2>3, <3>1, <3>2, <4>1 DEF WayTo
    <3>4. e = d => c = p
      BY <3>1, <3>2
    <3>5. e < d \/ e = d
      BY <3>1 DEF MaxDepth
    <3>6. c \in Int /\ o \in Int /\ p \in Int
      BY <2>1, <2>3, <1>1 DEF NodesBelow
    <3> QED BY <2>1, <3>3, <3>4, <3>5, <3>6
  <2>6. (e - 1) + 1 = e
    OBVIOUS
  <2>7. p \in SubTree(m, roots, w, o)
    BY <2>3, <2>4 DEF SubTree
  <2> QED BY <2>3, <2>4, <2>5, <2>6, <2>7
<1>4. ASSUME NEW p \in SubTree(m, roots, w, o), p # o
      PROVE  \E b \in Branches : p \in Q(b)
  <2>1. PICK d \in 0..MaxDepth, e \in Nat : OnWay(m, roots, w, p, d, o, e)
    BY DEF SubTree
  <2> DEFINE s == Walk(m, roots, m[p].key)
             b == Route[m[p].key][e + 1]
  <2>2. HangsAt(m, roots, w, p, d) /\ e \in 0..d /\ s[e] = o /\ s[d] = p
    BY <2>1 DEF OnWay, HangsAt
  <2>3. p \in NodesBelow(m, w)
    BY DEF SubTree
  <2>4. e + 1 \in 1..d /\ e + 1 \in 0..d /\ (e + 1) - 1 = e
    BY <2>2, <1>4 DEF MaxDepth
  <2>5. s[e + 1] = m[o].child[b] /\ b \in Branches /\ s[e + 1] \in NodesBelow(m, w)
    <3>1. /\ s[e + 1] = m[s[(e + 1) - 1]].child[b] /\ b \in Branches
          /\ s[e + 1] \in NodesBelow(m, w)
      <4>1. WayTo(m, roots, w, p, d)
        BY <2>2, <2>3, <2>4, PathRises
      <4> QED BY <2>2, <2>3, <2>4, <4>1 DEF WayTo
    <3> QED BY <3>1, <2>2, <2>4
  <2>6. Child(m, o, b) = s[e + 1] /\ Child(m, o, b) > o
    BY <1>1, <2>5 DEF NodesBelow
  <2>7. OnWay(m, roots, w, p, d, Child(m, o, b), e + 1) /\ e + 1 \in Nat
    BY <2>2, <2>4, <2>6 DEF OnWay
  <2>8. p \in SubTree(m, roots, w, Child(m, o, b))
    BY <2>3, <2>7 DEF SubTree
  <2> QED BY <2>5, <2>6, <2>8
<1>5. ASSUME NEW b \in Branches, NEW a \in Branches, NEW p \in Q(b), p \in Q(a)
      PROVE  b = a
  <2>1. p \in NodesBelow(m, w)
    BY <1>3
  <2>2. PICK d \in 0..MaxDepth, e \in Nat : /\ OnWay(m, roots, w, p, d, o, e)
                                            /\ b = Route[m[p].key][e + 1]
    BY <1>3
  <2>3. PICK d2 \in 0..MaxDepth, e2 \in Nat : /\ OnWay(m, roots, w, p, d2, o, e2)
                                              /\ a = Route[m[p].key][e2 + 1]
    <3>1. PICK q \in Q(a) : q = p
      BY <1>5
    <3> HIDE DEF Q
    <3> QED BY <3>1, <1>3
  <2>4. d = d2
    BY <2>1, <2>2, <2>3, OneLevel DEF OnWay
  <2>5. e = e2
    <3> DEFINE s == Walk(m, roots, m[p].key)
    <3>1. HangsAt(m, roots, w, p, d) /\ e \in 0..d /\ e2 \in 0..d /\ s[e] = o /\ s[e2] = o
      BY <2>2, <2>3, <2>4 DEF OnWay
    <3>2. \A x, y \in 0..d : x < y => s[x] < s[y]
      <4>1. WayTo(m, roots, w, p, d)
        BY <2>1, <3>1, PathRises
      <4> QED BY <2>1, <3>1, <4>1 DEF WayTo
    <3> HIDE DEF s
    <3>3. o \in Int
      BY DEF NodesBelow
    <3>4. ~(e < e2) /\ ~(e2 < e)
      BY <3>1, <3>2, <3>3
    <3> QED BY <3>4
  <2> QED BY <2>2, <2>3, <2>5
<1> DEFINE A == [b \in Branches |-> Q(b)]
<1>6. A \in [Branches -> SUBSET NodesBelow(m, w)]
  <2> HIDE DEF Q
  <2> QED BY <1>3
<1>7. \A b \in Branches : A[b] = Q(b)
  OBVIOUS
<1>8. \A b \in Branches : A[b] = Part(m, roots, w, o, b)
  BY DEF Part
<1> HIDE DEF A, Q
<1>9. SubTree(m, roots, w, o) = {o} \cup UNION {A[b] : b \in Branches}
  BY <1>2, <1>3, <1>4, <1>7
<1>10. \A b \in Branches : o \notin A[b]
  BY <1>3, <1>7
<1>11. \A b, a \in Branches : b # a => A[b] \cap A[a] = {}
  BY <1>5, <1>7
<1> QED BY <1>6, <1>8, <1>9, <1>10, <1>11 DEF Splits

\* Every node is below one root, the one its key's walk starts from.
LEMMA RootsSplit ==
  ASSUME NEW m, NEW roots, NEW w, m \in Contents, w \in 0..Capacity,
         Rising(m, roots, w), Tree(m, roots, w)
  PROVE  \E A \in [Roots -> SUBSET NodesBelow(m, w)] :
           /\ \A r \in Roots : A[r] = IF roots[r] = 0 THEN {} ELSE SubTree(m, roots, w, roots[r])
           /\ NodesBelow(m, w) = UNION {A[r] : r \in Roots}
           /\ \A r, a \in Roots : r # a => A[r] \cap A[a] = {}
<1> DEFINE Q(r) == IF roots[r] = 0 THEN {} ELSE SubTree(m, roots, w, roots[r])
<1>1. ASSUME NEW r \in Roots, NEW p \in Q(r)
      PROVE  p \in NodesBelow(m, w) /\ r = Route[m[p].key][0]
  <2>1. PICK c \in NodesBelow(m, w) : c = roots[r] /\ p \in SubTree(m, roots, w, c)
    BY <1>1 DEF Rising
  <2>2. PICK d \in 0..MaxDepth, e \in Nat : OnWay(m, roots, w, p, d, c, e)
    BY <2>1 DEF SubTree
  <2>3. p \in NodesBelow(m, w)
    BY <2>1 DEF SubTree
  <2>4. PICK dc \in 0..MaxDepth : HangsAt(m, roots, w, c, dc)
    BY DEF Tree
  <2> DEFINE k == m[p].key
             s == Walk(m, roots, k)
  <2>5. HangsAt(m, roots, w, p, d) /\ e \in 0..d /\ s[e] = c
    BY <2>2 DEF OnWay
  <2>6. /\ s[0] = roots[Route[k][0]] /\ Route[k][0] \in Roots
        /\ \A x \in 0..d : s[x] \in NodesBelow(m, w)
        /\ \A x \in 1..d : s[x] = m[s[x - 1]].child[Route[k][x]] /\ Route[k][x] \in Branches
    <3>1. WayTo(m, roots, w, p, d)
      BY <2>3, <2>5, PathRises
    <3> QED BY <2>3, <2>5, <3>1 DEF WayTo
  <2> HIDE DEF s
  <2>7. /\ \A x \in Roots : roots[x] = c => dc = 0 /\ x = Route[m[c].key][0]
        /\ \A x \in NodesBelow(m, w), y \in Branches : m[x].child[y] = c => dc > 0
    BY <2>4 DEF HangsAt
  <2>8. dc = 0
    BY <2>1, <2>7
  <2>9. e = 0
    <3>1. SUFFICES ASSUME e # 0 PROVE FALSE
      OBVIOUS
    <3>2. e \in 1..d /\ e - 1 \in 0..d
      BY <2>5, <3>1 DEF MaxDepth
    <3>3. /\ s[e - 1] \in NodesBelow(m, w) /\ Route[k][e] \in Branches
          /\ m[s[e - 1]].child[Route[k][e]] = c
      BY <2>5, <2>6, <3>2
    <3>4. dc > 0
      BY <2>7, <3>3
    <3> QED BY <2>8, <3>4
  <2>10. roots[Route[k][0]] = c
    BY <2>5, <2>6, <2>9
  <2> QED BY <2>1, <2>3, <2>6, <2>7, <2>10
<1>2. ASSUME NEW p \in NodesBelow(m, w) PROVE \E r \in Roots : p \in Q(r)
  <2>1. PICK d \in 0..MaxDepth : HangsAt(m, roots, w, p, d)
    BY DEF Tree
  <2> DEFINE s == Walk(m, roots, m[p].key)
  <2>2. 0 \in 0..d /\ 0 \in Nat
    BY DEF MaxDepth
  <2>3. PICK r \in Roots : s[0] = roots[r] /\ s[0] \in NodesBelow(m, w)
    <3>1. /\ s[0] = roots[Route[m[p].key][0]] /\ Route[m[p].key][0] \in Roots
          /\ \A e \in 0..d : s[e] \in NodesBelow(m, w)
      <4>1. WayTo(m, roots, w, p, d)
        BY <2>1, PathRises
      <4> QED BY <2>1, <4>1 DEF WayTo
    <3> HIDE DEF s
    <3> QED BY <3>1, <2>2
  <2>4. OnWay(m, roots, w, p, d, roots[r], 0)
    BY <2>1, <2>2, <2>3 DEF OnWay
  <2>5. p \in SubTree(m, roots, w, roots[r])
    BY <2>2, <2>4 DEF SubTree
  <2>6. roots[r] # 0
    BY <2>3 DEF NodesBelow
  <2> QED BY <2>5, <2>6
<1> DEFINE A == [r \in Roots |-> Q(r)]
<1>3. A \in [Roots -> SUBSET NodesBelow(m, w)]
  <2> HIDE DEF Q
  <2> QED BY <1>1
<1>4. \A r \in Roots : A[r] = Q(r)
  OBVIOUS
<1>5. \A r \in Roots : A[r] = IF roots[r] = 0 THEN {} ELSE SubTree(m, roots, w, roots[r])
  OBVIOUS
<1> HIDE DEF A, Q
<1>6. NodesBelow(m, w) = UNION {A[r] : r \in Roots}
  BY <1>1, <1>2, <1>4
<1>7. \A r, a \in Roots : r # a => A[r] \cap A[a] = {}
  BY <1>1, <1>4
<1> QED BY <1>3, <1>5, <1>6, <1>7

\* There are fewer nodes below w than w.
LEMMA NodesFinite ==
  ASSUME NEW m, NEW w, w \in 0..Capacity
  PROVE  /\ IsFiniteSet(NodesBelow(m, w))
         /\ Cardinality(NodesBelow(m, w)) \in Nat
         /\ Cardinality(NodesBelow(m, w)) <= w
<1>1. NodesBelow(m, w) \in SUBSET (1..(w - 1))
  BY DEF NodesBelow
<1>2. IsFiniteSet(1..(w - 1)) /\ Cardinality(1..(w - 1)) <= w
  <2>1. w - 1 \in Int /\ w \in Nat /\ 1 \in Int
    OBVIOUS
  <2>2. PICK v \in Int : v = w - 1
    BY <2>1
  <2>3. IsFiniteSet(1..v) /\ Cardinality(1..v) = IF 1 > v THEN 0 ELSE v - 1 + 1
    BY <2>1, <2>2, FS_Interval
  <2>4. Cardinality(1..v) <= w
    BY <2>1, <2>2, <2>3
  <2> QED BY <2>2, <2>3, <2>4
<1>3. Cardinality(1..(w - 1)) \in Nat
  BY <1>2, FS_CardinalityType
<1>4. /\ IsFiniteSet(NodesBelow(m, w))
      /\ Cardinality(NodesBelow(m, w)) <= Cardinality(1..(w - 1))
  BY <1>1, <1>2, FS_Subset
<1>5. Cardinality(NodesBelow(m, w)) \in Nat
  BY <1>4, FS_CardinalityType
<1> QED BY <1>2, <1>3, <1>4, <1>5

\* The count of a node is the number of nodes below it, itself included.
LEMMA CountsSubTree ==
  ASSUME NEW m, NEW roots, NEW w, NEW f, m \in Contents, w \in 0..Capacity,
         Rising(m, roots, w), Tree(m, roots, w), IsCount(f, m)
  PROVE  \A o \in NodesBelow(m, w) : f[o] = Cardinality(SubTree(m, roots, w, o))
<1> DEFINE T == {n \in 0..Capacity : \A o \in NodesBelow(m, w) :
                   o >= Capacity - n => f[o] = Cardinality(SubTree(m, roots, w, o))}
<1>1. Capacity \in Nat /\ Off = 0..(Capacity - 1)
  BY DEF Off
<1>2. \A o \in NodesBelow(m, w) : o \in Off /\ o < w /\ o \in Nat
  BY <1>1 DEF NodesBelow
<1>3. 0 \in T
  BY <1>1, <1>2
<1>4. ASSUME NEW n \in 1..Capacity, n - 1 \in T PROVE n \in T
  <2>1. ASSUME NEW o \in NodesBelow(m, w), o >= Capacity - n
        PROVE  f[o] = Cardinality(SubTree(m, roots, w, o))
    <3>1. PICK A \in [Branches -> SUBSET NodesBelow(m, w)] :
            /\ \A b \in Branches : A[b] = Part(m, roots, w, o, b)
            /\ SubTree(m, roots, w, o) = {o} \cup UNION {A[b] : b \in Branches}
            /\ \A b \in Branches : o \notin A[b]
            /\ \A b, a \in Branches : b # a => A[b] \cap A[a] = {}
      <4>1. \E A \in [Branches -> SUBSET NodesBelow(m, w)] : Splits(m, roots, w, o, A)
        BY SubTreeSplits
      <4> QED BY <4>1 DEF Splits
    <3> DEFINE h == [b \in Branches |->
                       IF Child(m, o, b) > o THEN f[Child(m, o, b)] ELSE 0]
    <3>2. f[o] = 1 + SumFunction(h)
      BY <1>2 DEF IsCount
    <3>3. \A b \in Branches : IsFiniteSet(A[b]) /\ Cardinality(A[b]) \in Nat
      <4>1. IsFiniteSet(NodesBelow(m, w))
        BY NodesFinite
      <4>2. ASSUME NEW b \in Branches PROVE A[b] \in SUBSET NodesBelow(m, w)
        OBVIOUS
      <4> QED BY <4>1, <4>2, FS_Subset, FS_CardinalityType
    <3>4. ASSUME NEW b \in Branches PROVE h[b] = Cardinality(A[b])
      <4>1. CASE Child(m, o, b) > o
        <5>1. Child(m, o, b) \in NodesBelow(m, w)
          <6>1. Child(m, o, b) = m[o].child[b] /\ o \in Nat
            BY <1>2 DEF Child, NodesBelow, IsNode
          <6> QED BY <6>1, <4>1 DEF Rising
        <5>2. PICK c \in NodesBelow(m, w) : c = Child(m, o, b)
          BY <5>1
        <5>3. c >= Capacity - (n - 1)
          BY <2>1, <4>1, <5>2, <1>1, <1>2
        <5>4. f[c] = Cardinality(SubTree(m, roots, w, c))
          BY <5>3, <1>4
        <5> QED BY <4>1, <5>2, <5>4, <3>1 DEF Part
      <4>2. CASE ~(Child(m, o, b) > o)
        BY <4>2, <3>1, FS_EmptySet DEF Part
      <4> QED BY <4>1, <4>2
    <3>5. h \in [Branches -> Nat]
      BY <3>3, <3>4
    <3> HIDE DEF h
    <3>6. SumFunction(h) = Cardinality(UNION {A[b] : b \in Branches})
      <4>1. IsFiniteSet(NodesBelow(m, w)) /\ IsFiniteSet(Branches)
        BY NodesFinite
      <4> QED BY <4>1, <3>1, <3>4, <3>5, SumCounts
    <3>7. PICK U : U = UNION {A[b] : b \in Branches}
      OBVIOUS
    <3>8. o \notin U /\ U \in SUBSET NodesBelow(m, w)
      BY <3>1, <3>7
    <3>9. IsFiniteSet(U) /\ Cardinality(U) \in Nat
      BY <3>8, NodesFinite, FS_Subset, FS_CardinalityType
    <3>10. Cardinality(U \cup {o}) = Cardinality(U) + 1
      BY <3>8, <3>9, FS_AddElement
    <3>11. SubTree(m, roots, w, o) = U \cup {o}
      BY <3>1, <3>7
    <3>12. f[o] = 1 + Cardinality(U)
      BY <3>2, <3>6, <3>7
    <3> QED BY <3>9, <3>10, <3>11, <3>12
  <2> QED BY <2>1
<1>5. Capacity \in T
  <2>1. Capacity \in 0..Capacity
    BY <1>1
  <2> HIDE DEF T
  <2> QED BY <1>1, <1>3, <1>4, <2>1, Upwards
<1>6. \A o \in NodesBelow(m, w) : o >= Capacity - Capacity
  BY <1>1, <1>2
<1> QED BY <1>5, <1>6

\* A walk of the whole map comes by each node once, and by each key once.
LEMMA VisitsCount ==
  ASSUME NEW m, NEW roots, NEW w, m \in Contents, w \in 0..Capacity,
         Rising(m, roots, w), Tree(m, roots, w)
  PROVE  /\ Visits(m, roots) = Cardinality(KeysBelow(m, w))
         /\ Visits(m, roots) \in Nat /\ Visits(m, roots) <= w
<1>1. PICK f : /\ IsCount(f, m)
               /\ Visits(m, roots) =
                    SumFunction([r \in Roots |-> IF roots[r] = 0 THEN 0 ELSE f[roots[r]]])
  BY VisitsAre
<1>2. PICK A \in [Roots -> SUBSET NodesBelow(m, w)] :
        /\ \A r \in Roots : A[r] = IF roots[r] = 0 THEN {} ELSE SubTree(m, roots, w, roots[r])
        /\ NodesBelow(m, w) = UNION {A[r] : r \in Roots}
        /\ \A r, a \in Roots : r # a => A[r] \cap A[a] = {}
  BY RootsSplit
<1>3. /\ IsFiniteSet(NodesBelow(m, w)) /\ IsFiniteSet(Roots)
      /\ Cardinality(NodesBelow(m, w)) <= w
  BY NodesFinite
<1> DEFINE h == [r \in Roots |-> IF roots[r] = 0 THEN 0 ELSE f[roots[r]]]
<1>4. ASSUME NEW r \in Roots PROVE h[r] = Cardinality(A[r]) /\ Cardinality(A[r]) \in Nat
  <2>1. A[r] \in SUBSET NodesBelow(m, w)
    OBVIOUS
  <2>2. Cardinality(A[r]) \in Nat
    BY <2>1, <1>3, FS_Subset, FS_CardinalityType
  <2>3. CASE roots[r] = 0
    BY <2>2, <2>3, <1>2, FS_EmptySet
  <2>4. CASE roots[r] # 0
    <3>1. PICK c \in NodesBelow(m, w) : c = roots[r]
      BY <2>4 DEF Rising
    <3>2. f[c] = Cardinality(SubTree(m, roots, w, c))
      BY <1>1, CountsSubTree
    <3> QED BY <2>2, <2>4, <3>1, <3>2, <1>2
  <2> QED BY <2>3, <2>4
<1>5. h \in [Roots -> Nat]
  BY <1>4
<1>6. SumFunction(h) = Cardinality(NodesBelow(m, w))
  <2> HIDE DEF h
  <2>1. SumFunction(h) = Cardinality(UNION {A[r] : r \in Roots})
    BY <1>2, <1>3, <1>4, <1>5, SumCounts
  <2> QED BY <2>1, <1>2
<1>7. Visits(m, roots) = Cardinality(NodesBelow(m, w))
  BY <1>1, <1>6
<1> DEFINE g == [o \in NodesBelow(m, w) |-> m[o].key]
<1>8. g \in Bijection(NodesBelow(m, w), KeysBelow(m, w))
  <2>1. \A o \in NodesBelow(m, w) : Find(m, roots, m[o].key) = o
    BY TreeFinds
  <2>2. \A o, p \in NodesBelow(m, w) : g[o] = g[p] => o = p
    BY <2>1
  <2>3. g \in [NodesBelow(m, w) -> KeysBelow(m, w)]
    BY DEF KeysBelow
  <2>4. \A k \in KeysBelow(m, w) : \E o \in NodesBelow(m, w) : g[o] = k
    BY DEF KeysBelow
  <2> HIDE DEF g
  <2>5. g \in Injection(NodesBelow(m, w), KeysBelow(m, w))
    BY <2>2, <2>3 DEF Injection, IsInjective
  <2>6. g \in Surjection(NodesBelow(m, w), KeysBelow(m, w))
    BY <2>3, <2>4 DEF Surjection
  <2> QED BY <2>5, <2>6 DEF Bijection
<1>9. Cardinality(KeysBelow(m, w)) = Cardinality(NodesBelow(m, w))
  <2>1. ExistsBijection(NodesBelow(m, w), KeysBelow(m, w))
    BY <1>8 DEF ExistsBijection
  <2> QED BY <2>1, <1>3, FS_Bijection
<1> QED BY <1>3, <1>7, <1>9, NodesFinite

\* The budget is at least a visit for each allocation.
LEMMA BudgetCovers ==
  ASSUME NEW w \in Nat, NEW b \in Nat, b >= 1 PROVE w <= b * w
<1>1. (b - 1) * w >= 0
  <2>1. PICK x \in Nat : x = b - 1
    OBVIOUS
  <2>2. x * w >= 0
    OBVIOUS
  <2> QED BY <2>1, <2>2
<1>2. b * w = (b - 1) * w + w
  OBVIOUS
<1> QED BY <1>1, <1>2

\* The validation accepts the graph of a rising tree.
LEMMA RisingValid ==
  ASSUME NEW m, NEW roots, NEW w, m \in Contents, w \in 0..Capacity,
         Rising(m, roots, w), Tree(m, roots, w)
  PROVE  ValidGraph(m, roots, w)
<1>1. PICK f : /\ IsValid(f, m, w)
               /\ ValidGraph(m, roots, w) <=>
                    /\ \A r \in Roots : roots[r] # 0 => f[roots[r]]
                    /\ Visits(m, roots) <= Budget * w
  BY ValidIs
<1> DEFINE T == {n \in 0..Capacity :
                   \A o \in NodesBelow(m, w) : o >= Capacity - n => f[o]}
<1>2. Capacity \in Nat /\ Off = 0..(Capacity - 1)
  BY DEF Off
<1>3. \A o \in NodesBelow(m, w) : o \in Off /\ o < w /\ o \in Nat /\ IsNode(m, o)
  BY <1>2 DEF NodesBelow
<1>4. \A o \in NodesBelow(m, w), b \in Branches :
        Child(m, o, b) # 0 => Child(m, o, b) > o /\ Child(m, o, b) \in NodesBelow(m, w)
  <2>1. \A o \in NodesBelow(m, w), b \in Branches : Child(m, o, b) = m[o].child[b]
    BY DEF Child, NodesBelow, IsNode
  <2> QED BY <2>1 DEF Rising
<1>5. 0 \in T
  BY <1>2, <1>3
<1>6. ASSUME NEW n \in 1..Capacity, n - 1 \in T PROVE n \in T
  <2>1. ASSUME NEW o \in NodesBelow(m, w), o >= Capacity - n PROVE f[o]
    <3>1. ASSUME NEW b \in Branches, Child(m, o, b) # 0
          PROVE  Child(m, o, b) > o /\ f[Child(m, o, b)]
      <4>1. PICK c \in NodesBelow(m, w) : c = Child(m, o, b) /\ c > o
        BY <1>4, <3>1
      <4>2. c >= Capacity - (n - 1)
        BY <2>1, <4>1, <1>2, <1>3
      <4> QED BY <4>1, <4>2, <1>6
    <3> QED BY <3>1, <1>1, <1>3 DEF IsValid
  <2> QED BY <2>1
<1>7. Capacity \in T
  <2>1. Capacity \in 0..Capacity
    BY <1>2
  <2> HIDE DEF T
  <2> QED BY <1>2, <1>5, <1>6, <2>1, Upwards
<1>8. \A o \in NodesBelow(m, w) : o >= Capacity - Capacity
  BY <1>2, <1>3
<1>9. \A o \in NodesBelow(m, w) : f[o]
  BY <1>7, <1>8
<1>10. \A r \in Roots : roots[r] # 0 => f[roots[r]]
  BY <1>9 DEF Rising
<1>11. Visits(m, roots) <= Budget * w
  <2>1. Visits(m, roots) \in Nat /\ Visits(m, roots) <= w
    BY VisitsCount
  <2>2. w \in Nat /\ Budget \in Nat /\ Budget >= 1
    BY <1>2, SpaceAssumption
  <2>3. w <= Budget * w
    BY <2>2, BudgetCovers
  <2>4. Budget * w \in Nat
    BY <2>2
  <2> QED BY <2>1, <2>2, <2>3, <2>4
<1> QED BY <1>1, <1>10, <1>11

------------------------------------------------------------------------------
(* Types, whatever the map, one opened with a root broken off included.    *)

\* A new map and a new header are well-typed.
LEMMA FreshTypes ==
  /\ NoHeader \in [magic : BOOLEAN, highWater : 0..Capacity, index : Off]
  /\ NoRoots \in [Roots -> Off] /\ NoChild \in [Branches -> Off]
  /\ [k \in Keys |-> NoValue] \in [Keys -> Values \cup {NoValue}]
  /\ 0 \in Off /\ 0 \in 0..Capacity /\ 1 \in 0..Capacity /\ 0 \in Gaps
<1>1. 0 \in Off /\ 0 \in 0..Capacity /\ 1 \in 0..Capacity /\ 0 \in Gaps
  BY SpaceAssumption DEF Off, Gaps
<1> QED BY <1>1 DEF NoHeader, NoRoots, NoChild

\* Padding never widens the gap.
LEMMA PaddedFits ==
  ASSUME NEW g \in Gaps, NEW a \in Nat \ {0}
  PROVE  Padded(g, a) \in Gaps /\ Padded(g, a) <= g
<1>1. g \in Nat /\ g \in 0..(Line - 1) /\ Line \in Nat
  BY SpaceAssumption DEF Gaps
<1>2. g % a \in 0..g
  <2>1. g % a \in Nat /\ g = (a * (g \div a)) + (g % a) /\ g \div a \in Nat
    BY <1>1
  <2>2. a * (g \div a) \in Nat
    BY <2>1
  <2> QED BY <1>1, <2>1, <2>2
<1> QED BY <1>1, <1>2 DEF Padded, Gaps

\* A cell of one's own at one offset.
LEMMA PutCell ==
  ASSUME NEW m \in Contents, NEW o \in Off, NEW cell \in NodeCell \cup IndexCell
  PROVE  [m EXCEPT ![o] = cell] \in Contents
BY DEF Contents

\* A child stored at one offset, whatever is there.
LEMMA PutChild ==
  ASSUME NEW m \in Contents, NEW o, NEW b, NEW c \in Off
  PROVE  [m EXCEPT ![o].child[b] = c] \in Contents
<1> DEFINE n == [m EXCEPT ![o].child[b] = c]
<1>1. ASSUME NEW x \in Off PROVE n[x] \in NodeCell \cup IndexCell \cup {Blank}
  <2>1. m[x] \in NodeCell \cup IndexCell \cup {Blank}
    BY DEF Contents
  <2>2. n[x] = m[x] \/ n[x] = [m[x] EXCEPT !.child[b] = c]
    BY DEF Contents
  <2>3. ASSUME NEW y \in NodeCell PROVE [y EXCEPT !.child[b] = c] \in NodeCell
    BY DEF NodeCell
  <2>4. ASSUME NEW y \in IndexCell PROVE [y EXCEPT !.child[b] = c] \in IndexCell
    BY DEF IndexCell
  <2>5. [Blank EXCEPT !.child[b] = c] = Blank
    BY DEF Blank
  <2> HIDE DEF n
  <2> QED BY <2>1, <2>2, <2>3, <2>4, <2>5
<1>2. n \in [Off -> NodeCell \cup IndexCell \cup {Blank}]
  <2>1. n = [x \in Off |-> n[x]]
    BY DEF Contents
  <2> HIDE DEF n
  <2> QED BY <1>1, <2>1
<1> QED BY <1>2 DEF Contents

\* A value stored at one offset, whatever is there.
LEMMA PutValue ==
  ASSUME NEW m \in Contents, NEW o, NEW v \in Values
  PROVE  [m EXCEPT ![o].val = v] \in Contents
<1> DEFINE n == [m EXCEPT ![o].val = v]
<1>1. ASSUME NEW x \in Off PROVE n[x] \in NodeCell \cup IndexCell \cup {Blank}
  <2>1. m[x] \in NodeCell \cup IndexCell \cup {Blank}
    BY DEF Contents
  <2>2. n[x] = m[x] \/ n[x] = [m[x] EXCEPT !.val = v]
    BY DEF Contents
  <2>3. ASSUME NEW y \in NodeCell PROVE [y EXCEPT !.val = v] \in NodeCell
    BY DEF NodeCell
  <2>4. ASSUME NEW y \in IndexCell PROVE [y EXCEPT !.val = v] = y
    BY DEF IndexCell
  <2>5. [Blank EXCEPT !.val = v] = Blank
    BY DEF Blank
  <2> HIDE DEF n
  <2> QED BY <2>1, <2>2, <2>3, <2>4, <2>5
<1>2. n \in [Off -> NodeCell \cup IndexCell \cup {Blank}]
  <2>1. n = [x \in Off |-> n[x]]
    BY DEF Contents
  <2> HIDE DEF n
  <2> QED BY <1>1, <2>1
<1> QED BY <1>2 DEF Contents

\* The roots of an index copy.
LEMMA CopyRoots ==
  ASSUME NEW m \in Contents, NEW o \in Off, m[o].kind = "index"
  PROVE  m[o].roots \in [Roots -> Off]
BY DEF Contents, NodeCell, IndexCell, Blank

\* A new leaf is a node.
LEMMA LeafType == ASSUME NEW k \in Keys PROVE Leaf(k) \in NodeCell
BY FreshTypes DEF Leaf, NodeCell, NoChild

\* An insertion stores a node and a link.
LEMMA TypesInsert == ASSUME TypeOK, NEW k \in Keys, PutInsert(k) PROVE TypeOK'
<1>1. /\ mem \in Contents /\ pos \in Off /\ pos' \in 0..Capacity /\ pos' = pos + 1
      /\ phase = "open" /\ gap' \in Gaps /\ dict' = [dict EXCEPT ![k] = 0]
      /\ UNCHANGED <<hdr, phase, idx, todo, ckpt, pending, torn, broken, phantom>>
  BY DEF TypeOK, PutInsert, Insert, Contents, Off, save
<1>2. PICK d : d = StopLevel(mem, top, k)
  OBVIOUS
<1>3. PICK up : up = Walk(mem, top, k)[d - 1]
  OBVIOUS
<1>4. IF d = 0
      THEN /\ top' = [top EXCEPT ![Route[k][0]] = pos] /\ UNCHANGED hung
           /\ mem' = [mem EXCEPT ![pos] = Leaf(k)]
      ELSE /\ top' = top /\ hung' = TRUE
           /\ mem' = [mem EXCEPT ![pos] = Leaf(k), ![up].child[Route[k][d]] = pos]
  BY <1>2, <1>3 DEF PutInsert, Insert, Leaf, NoChild
<1>5. top' \in [Roots -> Off] /\ hung' \in BOOLEAN
  BY <1>1, <1>4 DEF TypeOK
<1>6. mem' \in Contents
  <2>1. PICK m : m = [mem EXCEPT ![pos] = Leaf(k)]
    OBVIOUS
  <2>2. m \in Contents
    BY <1>1, <2>1, LeafType, PutCell
  <2>3. PICK b : b = Route[k][d]
    OBVIOUS
  <2>4. mem' = m \/ mem' = [m EXCEPT ![up].child[b] = pos]
    BY <1>4, <2>1, <2>3
  <2>5. [m EXCEPT ![up].child[b] = pos] \in Contents
    BY <1>1, <2>2, PutChild
  <2> QED BY <2>2, <2>4, <2>5
<1>7. dict' \in [Keys -> Values \cup {NoValue}]
  BY <1>1 DEF TypeOK
<1> QED BY <1>1, <1>5, <1>6, <1>7 DEF TypeOK, Contents

\* A Save stores roots only, into its own copy.
LEMMA TypesSave ==
  ASSUME TypeOK,
         \/ SaveBegin \/ SaveMagic \/ SaveHighWater \/ SaveIndexOffset
         \/ \E r \in Roots : SaveCopy(r) \/ BreakRoot(r)
  PROVE  TypeOK'
<1> USE DEF Contents
<1>1. mem \in Contents /\ idx \in Off /\ hdr.index \in Off /\ top \in [Roots -> Off]
  BY DEF TypeOK
<1>2. CASE SaveBegin
  <2>1. /\ todo' = Roots /\ phase' = "copy" /\ torn' = TRUE
        /\ pending' \in SUBSET Keys
        /\ UNCHANGED <<hdr, top, dict, ckpt, hung, broken, phantom>>
    BY <1>2 DEF SaveBegin, KeysIn
  <2>2. /\ mem' \in Contents /\ pos' \in 0..Capacity /\ gap' \in Gaps /\ idx' \in Off
    <3>1. CASE Reusable /\ idx' = hdr.index /\ UNCHANGED <<mem, pos, gap>>
      BY <1>1, <3>1 DEF TypeOK
    <3>2. ASSUME pos < Reach, idx' = pos, pos' = pos + 1, gap' = Padded(gap, IndexAlign),
                 NEW left \in [Roots -> Off \cap {0, 1}],
                 mem' = [mem EXCEPT ![pos] = [kind |-> "index", roots |-> left,
                                              child |-> NoChild]]
          PROVE  /\ mem' \in Contents /\ pos' \in 0..Capacity
                 /\ gap' \in Gaps /\ idx' \in Off
      <4>1. pos \in Off /\ pos + 1 \in 0..Capacity
        BY <3>2 DEF TypeOK, Off
      <4>2. [kind |-> "index", roots |-> left, child |-> NoChild] \in IndexCell
        BY FreshTypes DEF IndexCell
      <4>3. mem' \in Contents
        BY <1>1, <3>2, <4>1, <4>2, PutCell
      <4>4. gap' \in Gaps
        BY <3>2, SpaceAssumption, PaddedFits DEF TypeOK
      <4> QED BY <3>2, <4>1, <4>3, <4>4
    <3> QED BY <1>2, <3>1, <3>2 DEF SaveBegin
  <2> QED BY <2>1, <2>2 DEF TypeOK, Saving
<1>3. CASE SaveMagic
  BY <1>3 DEF SaveMagic, TypeOK, Saving, save, ghosts
<1>4. CASE SaveHighWater
  BY <1>4 DEF SaveHighWater, TypeOK, Saving, save, ghosts
<1>5. CASE SaveIndexOffset
  BY <1>5, FreshTypes DEF SaveIndexOffset, TypeOK
<1>6. RootsAt(idx) \in [Roots -> Off]
  BY <1>1, CopyRoots, FreshTypes DEF RootsAt
<1>7. ASSUME NEW r \in Roots, SaveCopy(r) PROVE TypeOK'
  <2>1. PICK new : new = [RootsAt(idx) EXCEPT ![r] = top[r]]
    OBVIOUS
  <2>2. new \in [Roots -> Off]
    BY <1>1, <1>6, <2>1
  <2>3. [kind |-> "index", roots |-> new, child |-> NoChild] \in IndexCell
    BY <2>2, FreshTypes DEF IndexCell
  <2>4. mem' = [mem EXCEPT ![idx] = [kind |-> "index", roots |-> new, child |-> NoChild]]
    BY <1>7, <2>1 DEF SaveCopy
  <2>5. mem' \in Contents
    BY <1>1, <2>3, <2>4, PutCell
  <2>6. /\ todo' = todo \ {r} /\ phase' \in Saving
        /\ UNCHANGED <<hdr, top, pos, gap, idx, ghosts>>
    BY <1>7 DEF SaveCopy, Saving
  <2> QED BY <2>5, <2>6 DEF TypeOK, ghosts
<1>8. ASSUME NEW r \in Roots, BreakRoot(r) PROVE TypeOK'
  <2>1. PICK part \in Off, around \in [Branches -> {0} \cup Range(RootsAt(idx))] :
          mem' = [mem EXCEPT ![idx] = [kind  |-> "index",
                                       roots |-> [RootsAt(idx) EXCEPT ![r] = part],
                                       child |-> around]]
    BY <1>8 DEF BreakRoot
  <2>2. [RootsAt(idx) EXCEPT ![r] = part] \in [Roots -> Off]
    BY <1>6
  <2>3. around \in [Branches -> Off]
    <3>1. {0} \cup Range(RootsAt(idx)) \subseteq Off
      BY <1>6, FreshTypes DEF Range
    <3> QED BY <3>1
  <2>4. [kind |-> "index", roots |-> [RootsAt(idx) EXCEPT ![r] = part],
         child |-> around] \in IndexCell
    BY <2>2, <2>3 DEF IndexCell
  <2>5. mem' \in Contents
    BY <1>1, <2>1, <2>4, PutCell
  <2>6. /\ broken' = {r} /\ phase' = "closed" /\ top' = NoRoots /\ pos' = 0 /\ gap' = 0
        /\ idx' = 0 /\ todo' = {}
        /\ UNCHANGED <<hdr, dict, ckpt, pending, torn, hung, phantom>>
    BY <1>8 DEF BreakRoot
  <2> QED BY <2>5, <2>6, FreshTypes DEF TypeOK
<1> QED BY <1>2, <1>3, <1>4, <1>5, <1>7, <1>8

\* Every step keeps the types.
LEMMA TypesNext == TypeOK /\ [Next]_vars => TypeOK'
<1> SUFFICES ASSUME TypeOK, [Next]_vars PROVE TypeOK'
  OBVIOUS
<1>1. CASE MapInit
  BY <1>1, FreshTypes DEF MapInit, TypeOK, save
<1>2. CASE SaveBegin \/ SaveMagic \/ SaveHighWater \/ SaveIndexOffset
  BY <1>2, TypesSave
<1>3. ASSUME NEW r \in Roots, SaveCopy(r) \/ BreakRoot(r) PROVE TypeOK'
  BY <1>3, TypesSave
<1>4. CASE Clear \/ Exit \/ OpenShared
  <2>1. CASE Clear
    BY <2>1, FreshTypes DEF Clear, TypeOK, file, save, ghosts
  <2>2. CASE Exit
    BY <2>2, FreshTypes DEF Exit, TypeOK, file, ghosts
  <2>3. CASE OpenShared
    BY <2>3, FreshTypes DEF OpenShared, TypeOK, file, save, ghosts
  <2> QED BY <1>4, <2>1, <2>2, <2>3
<1>5. CASE OpenMap
  <2>1. hdr.index \in Off /\ mem[hdr.index].kind = "index" /\ mem \in Contents
    BY <1>5 DEF OpenMap, Accepts, TypeOK, Contents
  <2>2. top' \in [Roots -> Off]
    BY <1>5, <2>1, CopyRoots DEF OpenMap
  <2>3. ckpt' \in SUBSET Keys /\ dict' \in [Keys -> Values \cup {NoValue}]
    BY <1>5 DEF OpenMap, KeysIn, TypeOK
  <2>4. /\ pos' = hdr.highWater /\ gap' \in Gaps /\ phase' = "open"
        /\ torn' = FALSE /\ hung' = FALSE /\ phantom' \in BOOLEAN
        /\ UNCHANGED <<hdr, mem, idx, todo, pending, broken>>
    BY <1>5 DEF OpenMap, file, save
  <2> QED BY <2>2, <2>3, <2>4 DEF TypeOK
<1>6. ASSUME NEW a \in Nat \ {0}, BeyondReach(a) PROVE TypeOK'
  <2>1. pos' = pos /\ gap' \in Gaps
    BY <1>6, PaddedFits DEF BeyondReach, Popped, TypeOK
  <2> QED BY <1>6, <2>1 DEF BeyondReach, TypeOK, file, save, ghosts
<1>7. ASSUME NEW k \in Keys, PutInsert(k) PROVE TypeOK'
  BY <1>7, TypesInsert
<1>8. ASSUME NEW k \in Keys, NEW v \in Values, WriteValue(k, v) PROVE TypeOK'
  <2>1. mem' \in Contents
    BY <1>8, PutValue DEF WriteValue, TypeOK, Contents
  <2>2. dict' \in [Keys -> Values \cup {NoValue}]
    BY <1>8 DEF WriteValue, TypeOK
  <2> QED BY <1>8, <2>1, <2>2 DEF WriteValue, TypeOK, Contents, save
<1>9. CASE UNCHANGED vars
  BY <1>9 DEF vars, TypeOK, ghosts
<1>10. Line \in Nat \ {0} /\ IndexAlign \in Nat \ {0}
  BY SpaceAssumption
<1> QED BY <1>1, <1>2, <1>3, <1>4, <1>5, <1>6, <1>7, <1>8, <1>9, <1>10
        DEF Next, SaveBeyondReach, PutBeyondReach

------------------------------------------------------------------------------
(* The invariant, action by action.                                        *)

\* Nothing hangs at offset 0, and nothing was stored in a new file.
LEMMA InvInit == Init => SoundInv
<1> SUFFICES ASSUME Init PROVE SoundInv
  OBVIOUS
<1>1. TypeOK
  <2>1. mem \in [Off -> NodeCell \cup IndexCell \cup {Blank}]
    BY DEF Init
  <2> QED BY <2>1, FreshTypes DEF Init, TypeOK
<1>2. ~Complete /\ hdr = NoHeader /\ ~Live /\ phase \notin Saving /\ ckpt = Null
  BY DEF Init, Complete, NoHeader, Live, Saving
<1> QED BY <1>1, <1>2 DEF SoundInv, HeaderInv, FileInv, LiveInv, SessionInv, SaveInv, CheckpointInv

\* An Init leaves nothing of what the arena held, header included.
LEMMA InvMapInit == TypeOK' /\ MapInit => SoundInv'
<1> SUFFICES ASSUME TypeOK', MapInit PROVE SoundInv'
  OBVIOUS
<1>1. /\ ~Complete' /\ hdr' = NoHeader /\ phase' = "open" /\ ckpt' = Null /\ broken' = {}
      /\ pos' = 1 /\ top' = NoRoots /\ dict' = [k \in Keys |-> NoValue] /\ mem' = mem
  BY DEF MapInit, Complete, NoHeader, save
<1>2. NodesBelow(mem', pos') = {}
  BY <1>1 DEF NodesBelow
<1>3. LiveInv'
  <2>1. Rising(mem', top', pos')
    BY <1>1 DEF Rising, NoRoots, NodesBelow
  <2>2. Tree(mem', top', pos') /\ Holds(mem', dict', pos')
    BY <1>2 DEF Tree, Holds
  <2> QED BY <1>1, <2>1, <2>2 DEF LiveInv
<1> QED BY <1>1, <1>3
        DEF SoundInv, HeaderInv, FileInv, SessionInv, SaveInv, Saving, CheckpointInv

\* With no root broken off, the file's tree is that of all its roots.
LEMMA NoneBroken == TypeOK /\ HeaderInv /\ Complete /\ broken = {}
                      => Unbroken = Saved /\ Saved \in [Roots -> Off]
<1> SUFFICES ASSUME TypeOK, HeaderInv, Complete, broken = {}
             PROVE  Unbroken = Saved /\ Saved \in [Roots -> Off]
  OBVIOUS
<1>1. Saved \in [Roots -> Off]
  <2>1. mem \in Contents /\ hdr.index \in Off /\ mem[hdr.index].kind = "index"
    BY DEF TypeOK, HeaderInv, Contents
  <2> QED BY <2>1, CopyRoots DEF Saved
<1> HIDE DEF Saved
<1> QED BY <1>1 DEF Unbroken

\* So it is in a live map's file, and in the file that a live map's step leaves.
LEMMA LiveFile ==
  ASSUME SoundInv, Live, Complete
  PROVE  /\ Saved \in [Roots -> Off]
         /\ Planted(mem, Saved, hdr.highWater) /\ Holds(mem, dict, hdr.highWater)
         /\ KeysBelow(mem, hdr.highWater) \in {ckpt, pending}
         /\ hdr.highWater \in 0..Capacity
<1>1. Unbroken = Saved /\ Saved \in [Roots -> Off]
  BY NoneBroken DEF SoundInv, LiveInv
<1> QED BY <1>1 DEF SoundInv, FileInv, TypeOK

LEMMA NoneBrokenNext == (TypeOK /\ HeaderInv /\ Complete /\ broken = {}
                           => Unbroken = Saved /\ Saved \in [Roots -> Off])'
BY NoneBroken, PTL

LEMMA FileKept ==
  ASSUME TypeOK', HeaderInv', broken' = {},
         Complete' => /\ Planted(mem', Saved', hdr'.highWater)
                      /\ Holds(mem', dict', hdr'.highWater)
                      /\ KeysBelow(mem', hdr'.highWater) \in {ckpt', pending'}
  PROVE  FileInv'
<1>1. Complete' => Unbroken' = Saved'
  BY NoneBrokenNext
<1> QED BY <1>1 DEF FileInv

\* An unmapped or an empty arena has no live map; the file stays as it is.
LEMMA InvNotLive ==
  ASSUME SoundInv, UNCHANGED <<file, ghosts>>, TypeOK', ~Live'
  PROVE  SoundInv'
<1>1. UNCHANGED <<hdr, mem, dict, ckpt, pending, torn, hung, broken>>
  BY DEF file, ghosts
<1>2. HeaderInv'
  BY <1>1 DEF SoundInv, HeaderInv, Complete
<1>3. FileInv'
  BY <1>1 DEF SoundInv, FileInv, Complete, Unbroken, Saved, Holds
<1>4. CheckpointInv'
  BY <1>1 DEF SoundInv, CheckpointInv, Complete, Saved
<1>5. LiveInv' /\ SessionInv' /\ SaveInv'
  BY DEF LiveInv, SessionInv, SaveInv, Live
<1> QED BY <1>2, <1>3, <1>4, <1>5 DEF SoundInv

\* Clearing the arena, leaving the file and mapping it again.
LEMMA InvClosing == SoundInv /\ TypeOK' /\ (Clear \/ Exit \/ OpenShared) => SoundInv'
<1> SUFFICES ASSUME SoundInv, TypeOK', Clear \/ Exit \/ OpenShared PROVE SoundInv'
  OBVIOUS
<1>1. UNCHANGED <<file, ghosts>> /\ ~Live'
  BY DEF Clear, Exit, OpenShared, Live, Saving
<1> QED BY <1>1, InvNotLive

\* A node or an index copy out of reach is rolled back.
LEMMA InvBeyondReach ==
  ASSUME SoundInv, TypeOK', UNCHANGED vars \/ \E a \in Nat \ {0} : BeyondReach(a)
  PROVE  SoundInv'
<1>1. UNCHANGED <<hdr, mem, top, pos, phase, idx, todo, dict, ckpt, pending, torn, hung, broken>>
  <2>1. ASSUME NEW a \in Nat \ {0}, BeyondReach(a)
        PROVE  UNCHANGED <<hdr, mem, top, pos, phase, idx, todo, dict, ckpt, pending, torn, hung, broken>>
    <3>1. pos' = pos
      BY <2>1 DEF BeyondReach, Popped, SoundInv, TypeOK
    <3> QED BY <2>1, <3>1 DEF BeyondReach, file, save, ghosts
  <2>2. CASE UNCHANGED vars
    BY <2>2 DEF vars, ghosts
  <2> QED BY <2>1, <2>2
<1>2. HeaderInv'
  BY <1>1 DEF SoundInv, HeaderInv, Complete
<1>3. FileInv' /\ CheckpointInv'
  BY <1>1 DEF SoundInv, FileInv, CheckpointInv, Complete, Unbroken, Saved, Holds
<1>4. LiveInv' /\ SessionInv'
  BY <1>1 DEF SoundInv, LiveInv, SessionInv, Complete, Saved, Holds, Live
<1>5. SaveInv'
  BY <1>1 DEF SoundInv, SaveInv, Complete
<1> QED BY <1>2, <1>3, <1>4, <1>5 DEF SoundInv

\* What an Open accepts is a tree that rises, but for a root broken off, and has keys
\* that were saved.
LEMMA Opens ==
  ASSUME SoundInv, Accepts
  PROVE  /\ Complete /\ hdr.highWater \in 1..Capacity
         /\ Saved \in [Roots -> Off]
         /\ Rising(mem, Unbroken, hdr.highWater) /\ Planted(mem, Unbroken, hdr.highWater)
         /\ Holds(mem, dict, hdr.highWater)
         /\ KeysIn(mem, Saved) = KeysBelow(mem, hdr.highWater)
         /\ KeysBelow(mem, hdr.highWater) \in {ckpt, pending}
<1>1. Complete /\ hdr.highWater \in 1..Capacity /\ hdr.index \in Off
      /\ mem[hdr.index].kind = "index" /\ mem \in Contents
  BY DEF SoundInv, TypeOK, Accepts, Complete, Off, Contents
<1>2. Saved \in [Roots -> Off]
  BY <1>1, CopyRoots DEF Saved
<1>3. /\ Planted(mem, Unbroken, hdr.highWater) /\ Holds(mem, dict, hdr.highWater)
      /\ KeysBelow(mem, hdr.highWater) \in {ckpt, pending}
  BY <1>1 DEF SoundInv, FileInv
<1>4. ValidGraph(mem, Saved, hdr.highWater)
  BY DEF Accepts, Saved
<1>5. PICK w : w = hdr.highWater
  OBVIOUS
<1>6. PICK all : all = Saved
  OBVIOUS
<1>7. PICK roots : roots = Unbroken
  OBVIOUS
<1>8. \A r \in Roots : roots[r] \in {0, all[r]}
  BY <1>6, <1>7 DEF Unbroken
<1>9. w \in 0..Capacity /\ all \in [Roots -> Off]
  BY <1>1, <1>2, <1>5, <1>6
<1>10. Planted(mem, roots, w) /\ ValidGraph(mem, all, w)
  BY <1>3, <1>4, <1>5, <1>6, <1>7
<1>11. Rising(mem, roots, w)
  BY <1>1, <1>8, <1>9, <1>10, ValidRises
<1>12. KeysIn(mem, all) = KeysBelow(mem, w)
  BY <1>1, <1>8, <1>9, <1>10, StrayRoot DEF Planted
<1> QED BY <1>1, <1>2, <1>3, <1>5, <1>6, <1>7, <1>11, <1>12

\* An Open has the map of the file, and the caller what was stored in it.
LEMMA InvOpenMap == SoundInv /\ TypeOK' /\ OpenMap /\ broken = {} => SoundInv'
<1> SUFFICES ASSUME SoundInv, TypeOK', OpenMap, broken = {} PROVE SoundInv'
  OBVIOUS
<1>1. /\ Complete /\ hdr.highWater \in 1..Capacity
      /\ Saved \in [Roots -> Off]
      /\ Rising(mem, Unbroken, hdr.highWater) /\ Planted(mem, Unbroken, hdr.highWater)
      /\ KeysIn(mem, Saved) = KeysBelow(mem, hdr.highWater)
      /\ Holds(mem, dict, hdr.highWater)
  BY Opens DEF OpenMap
<1>2. /\ UNCHANGED <<hdr, mem, idx, todo, pending, broken>>
      /\ top' = Saved /\ pos' = hdr.highWater /\ phase' = "open"
      /\ torn' = FALSE /\ hung' = FALSE
  BY DEF OpenMap, Saved, file, save
<1>3. PICK S : S = KeysBelow(mem, hdr.highWater)
  OBVIOUS
<1>4. ckpt' = S /\ dict' = [k \in Keys |-> IF k \in S THEN dict[k] ELSE NoValue]
  BY <1>1, <1>2, <1>3 DEF OpenMap
<1>5. S \subseteq Keys
  BY <1>1, <1>3 DEF KeysIn
<1>6. Rising(mem, Saved, hdr.highWater) /\ Planted(mem, Saved, hdr.highWater)
  <2>1. Unbroken = Saved
    BY <1>1, NoneBroken DEF SoundInv
  <2> QED BY <1>1, <2>1
<1>7. Complete' /\ Saved' = Saved
  BY <1>1, <1>2 DEF Complete, Saved
<1>8. Holds(mem', dict', pos')
  <2>1. ASSUME NEW o \in NodesBelow(mem, hdr.highWater) PROVE mem[o].val = dict'[mem[o].key]
    <3>1. mem[o].key \in S
      BY <1>3 DEF KeysBelow
    <3>2. mem[o].val = dict[mem[o].key]
      BY <1>1 DEF Holds
    <3> QED BY <3>1, <3>2, <1>4, <1>5
  <2> QED BY <2>1, <1>2 DEF Holds
<1>9. HeaderInv'
  BY <1>2, <1>7 DEF SoundInv, HeaderInv, Complete
<1>10. FileInv'
  <2>1. broken' = {} /\ KeysBelow(mem', hdr'.highWater) = ckpt'
    BY <1>2, <1>3, <1>4
  <2>2. Planted(mem', Saved', hdr'.highWater) /\ Holds(mem', dict', hdr'.highWater)
    BY <1>2, <1>6, <1>7, <1>8
  <2> QED BY <1>9, <2>1, <2>2, FileKept
<1>11. LiveInv'
  BY <1>1, <1>2, <1>3, <1>4, <1>6, <1>8 DEF LiveInv, Planted
<1>12. SessionInv'
  BY <1>1, <1>2, <1>3, <1>4, <1>7 DEF SessionInv
<1>13. SaveInv'
  BY <1>2 DEF SaveInv, Saving
<1>14. CheckpointInv'
  BY <1>1, <1>2, <1>3, <1>4, <1>6, <1>7 DEF CheckpointInv
<1> QED BY <1>9, <1>10, <1>11, <1>12, <1>13, <1>14 DEF SoundInv

\* The nodes below w are those of before.
Kept(m, m2, w) ==
  /\ \A o \in 1..(w - 1) : IsNode(m2, o) <=> IsNode(m, o)
  /\ \A o \in NodesBelow(m, w) : m2[o] = m[o]

\* Everything the invariant says of a map but its values stays with its nodes.
LEMMA NodesKept ==
  ASSUME NEW m, NEW roots, NEW m2, NEW w, m \in Contents, w \in 0..Capacity,
         Kept(m, m2, w)
  PROVE  /\ NodesBelow(m2, w) = NodesBelow(m, w) /\ KeysBelow(m2, w) = KeysBelow(m, w)
         /\ Rising(m, roots, w) => Rising(m2, roots, w)
         /\ Tree(m, roots, w) => Tree(m2, roots, w)
         /\ Planted(m, roots, w) => Planted(m2, roots, w)
         /\ \A d : Holds(m, d, w) => Holds(m2, d, w)
<1>1. Grown(m, roots, m2, roots, w)
  BY DEF Kept, Grown
<1>2. /\ NodesBelow(m2, w) = NodesBelow(m, w) /\ KeysBelow(m2, w) = KeysBelow(m, w)
      /\ Tree(m, roots, w) => Tree(m2, roots, w)
      /\ Planted(m, roots, w) => Planted(m2, roots, w)
  BY <1>1, TreeStays
<1>3. Rising(m, roots, w) => Rising(m2, roots, w)
  BY <1>2 DEF Kept, Rising
<1>4. \A d : Holds(m, d, w) => Holds(m2, d, w)
  BY <1>2 DEF Kept, Holds
<1> QED BY <1>2, <1>3, <1>4

\* No key below w + 1 that was not below w, when no node is at w.
LEMMA NoNodeAt ==
  ASSUME NEW m, NEW roots, NEW w, w \in Off, w # 0, ~IsNode(m, w)
  PROVE  /\ KeysBelow(m, w + 1) = KeysBelow(m, w)
         /\ Rising(m, roots, w) => Rising(m, roots, w + 1)
         /\ Tree(m, roots, w) => Tree(m, roots, w + 1)
         /\ \A d : Holds(m, d, w) => Holds(m, d, w + 1)
<1>1. NodesBelow(m, w + 1) = NodesBelow(m, w)
  BY DEF NodesBelow, Off
<1>2. KeysBelow(m, w + 1) = KeysBelow(m, w)
  BY <1>1 DEF KeysBelow
<1>3. Rising(m, roots, w) => Rising(m, roots, w + 1)
  BY <1>1 DEF Rising
<1>4. Tree(m, roots, w) => Tree(m, roots, w + 1)
  BY <1>1 DEF Tree, HangsAt
<1>5. \A d : Holds(m, d, w) => Holds(m, d, w + 1)
  BY <1>1 DEF Holds
<1> QED BY <1>2, <1>3, <1>4, <1>5

\* The keys of a live map are those of its nodes.
LEMMA LiveKeys ==
  ASSUME SoundInv, Live
  PROVE  /\ mem \in Contents /\ pos \in 1..Capacity
         /\ Rising(mem, top, pos) /\ Tree(mem, top, pos) /\ Holds(mem, dict, pos)
         /\ KeysIn(mem, top) = KeysBelow(mem, pos)
         /\ \A k \in Keys : LET o == Find(mem, top, k) IN
              o # 0 => o \in NodesBelow(mem, pos) /\ mem[o].key = k
<1>1. mem \in Contents /\ pos \in 1..Capacity /\ pos \in 0..Capacity
  BY DEF SoundInv, TypeOK, LiveInv, Contents
<1>2. Rising(mem, top, pos) /\ Tree(mem, top, pos) /\ Holds(mem, dict, pos)
  BY DEF SoundInv, LiveInv
<1> QED BY <1>1, <1>2, KeysFound

\* A Save starts on the region of the one before, or past everything.
LEMMA InvSaveBegin == SoundInv /\ TypeOK' /\ SaveBegin => SoundInv'
<1> SUFFICES ASSUME SoundInv, TypeOK', SaveBegin PROVE SoundInv'
  OBVIOUS
<1>1. /\ phase = "open" /\ phase' = "copy" /\ Live /\ Live' /\ torn' = TRUE
      /\ todo' = Roots /\ UNCHANGED <<hdr, top, dict, ckpt, hung, broken>> /\ broken = {}
  BY DEF SaveBegin, Live, Saving, SoundInv, LiveInv
<1>2. /\ mem \in Contents /\ pos \in 1..Capacity
      /\ Rising(mem, top, pos) /\ Tree(mem, top, pos) /\ Holds(mem, dict, pos)
      /\ KeysIn(mem, top) = KeysBelow(mem, pos)
  BY <1>1, LiveKeys
<1>3. pending' = KeysBelow(mem, pos) /\ pending' \subseteq Keys
  BY <1>2 DEF SaveBegin, KeysIn
<1>4. CASE Reusable /\ idx' = hdr.index /\ UNCHANGED <<mem, pos>>
  <2>1. Complete /\ hdr.index \in Off /\ hdr.index < Reach /\ hdr.highWater \in 0..Capacity
    BY <1>4 DEF Reusable, Complete, SoundInv, TypeOK
  <2>2. /\ hdr.index < hdr.highWater /\ mem[hdr.index].kind = "index"
        /\ hdr.highWater <= pos /\ KeysBelow(mem, hdr.highWater) = ckpt
    BY <1>1, <2>1 DEF SoundInv, HeaderInv, SessionInv
  <2>3. idx' \in 1..(pos' - 1)
    BY <1>2, <1>4, <2>1, <2>2 DEF Off, Complete
  <2>5. HeaderInv' /\ Complete' /\ Saved' = Saved
    BY <1>1, <1>4, <2>1 DEF SoundInv, HeaderInv, Complete, Saved
  <2>6. FileInv'
    <3>1. Planted(mem, Saved, hdr.highWater) /\ Holds(mem, dict, hdr.highWater)
      BY <1>1, <2>1, LiveFile
    <3>2. /\ Planted(mem', Saved', hdr'.highWater) /\ Holds(mem', dict', hdr'.highWater)
          /\ KeysBelow(mem', hdr'.highWater) \in {ckpt', pending'}
      BY <3>1, <1>1, <1>4, <2>2, <2>5
    <3> QED BY <3>2, <1>1, <2>5, FileKept
  <2>7. LiveInv'
    BY <1>1, <1>4 DEF SoundInv, LiveInv
  <2>8. SessionInv'
    BY <1>1, <1>4, <2>1, <2>5 DEF SoundInv, SessionInv
  <2>9. SaveInv'
    BY <1>1, <1>3, <1>4, <2>1, <2>2, <2>3, <2>5 DEF SaveInv
  <2>10. CheckpointInv'
    BY <1>1 DEF CheckpointInv
  <2> QED BY <2>5, <2>6, <2>7, <2>8, <2>9, <2>10 DEF SoundInv
<1>5. ASSUME ~Reusable, pos < Reach, idx' = pos, pos' = pos + 1,
             NEW left \in [Roots -> Off \cap {0, 1}],
             mem' = [mem EXCEPT ![pos] = [kind |-> "index", roots |-> left,
                                                  child |-> NoChild]]
      PROVE  SoundInv'
  <2>1. pos \in Off /\ pos # 0 /\ pos + 1 \in 0..Capacity
    BY <1>2, <1>5 DEF Off
  <2>2. ~Complete /\ ~Complete'
    BY <1>1, <1>5 DEF Complete, Reusable, SoundInv, TypeOK, HeaderInv, Off
  <2>3. PICK cell \in IndexCell : cell.kind = "index" /\ mem' = [mem EXCEPT ![pos] = cell]
    BY <1>5, FreshTypes DEF IndexCell
  <2>4. mem' \in Contents /\ mem'[pos] = cell /\ \A o \in Off : o # pos => mem'[o] = mem[o]
    BY <1>2, <2>1, <2>3 DEF Contents
  <2>5. ~IsNode(mem', pos)
    BY <2>3, <2>4 DEF IsNode
  <2>6. Kept(mem, mem', pos)
    <3>1. \A o \in 1..(pos - 1) : mem'[o] = mem[o]
      BY <2>1, <2>4 DEF Off
    <3> QED BY <3>1 DEF Kept, NodesBelow, IsNode
  <2>7. /\ KeysBelow(mem', pos) = KeysBelow(mem, pos)
        /\ Rising(mem', top, pos) /\ Tree(mem', top, pos) /\ Holds(mem', dict, pos)
    <3>1. pos \in 0..Capacity
      BY <1>2
    <3> QED BY <1>2, <2>6, <3>1, NodesKept
  <2>8. /\ KeysBelow(mem', pos + 1) = KeysBelow(mem, pos)
        /\ Rising(mem', top, pos + 1) /\ Tree(mem', top, pos + 1) /\ Holds(mem', dict, pos + 1)
    BY <2>1, <2>5, <2>7, NoNodeAt
  <2>10. HeaderInv'
    BY <1>1, <2>2 DEF SoundInv, HeaderInv
  <2>11. LiveInv'
    <3>1. \A k \in Keys : dict[k] # NoValue => k \in KeysBelow(mem, pos)
      BY <1>1 DEF SoundInv, LiveInv
    <3>2. /\ KeysBelow(mem', pos') = KeysBelow(mem, pos)
          /\ Rising(mem', top', pos') /\ Tree(mem', top', pos') /\ Holds(mem', dict', pos')
      BY <1>1, <1>5, <2>8
    <3>3. pos' >= 1 /\ dict' = dict
      BY <1>1, <1>2, <1>5
    <3> QED BY <3>1, <3>2, <3>3, <1>1 DEF LiveInv
  <2>12. SaveInv'
    <3>1. idx' \in 1..(pos' - 1)
      BY <1>2, <1>5
    <3>2. mem'[idx'].kind = "index"
      BY <1>5, <2>3, <2>4
    <3> QED BY <3>1, <3>2, <1>1, <1>3, <1>5, <2>2, <2>8 DEF SaveInv
  <2> QED BY <1>1, <2>2, <2>10, <2>11, <2>12
          DEF SoundInv, FileInv, SessionInv, CheckpointInv
<1> QED BY <1>4, <1>5 DEF SaveBegin

\* One root of the copy: the file's tree grows by what hangs from it.
LEMMA InvSaveCopy == ASSUME NEW r \in Roots, SoundInv, TypeOK', SaveCopy(r) PROVE SoundInv'
<1>1. /\ phase = "copy" /\ phase' \in {"copy", "magic"} /\ Live /\ Live' /\ torn' = torn
      /\ r \in todo /\ todo' = todo \ {r} /\ (phase' = "magic" => todo = {r})
      /\ UNCHANGED <<hdr, top, pos, idx, dict, ckpt, pending, torn, hung, broken>>
      /\ broken = {}
  BY DEF SaveCopy, Live, Saving, ghosts, SoundInv, LiveInv
<1>2. /\ mem \in Contents /\ pos \in 1..Capacity /\ pos \in 0..Capacity
      /\ Rising(mem, top, pos) /\ Tree(mem, top, pos) /\ Holds(mem, dict, pos)
      /\ top \in [Roots -> Off]
  BY <1>1, LiveKeys DEF SoundInv, TypeOK
<1>3. /\ idx \in 1..(pos - 1) /\ idx \in Off /\ idx < Reach /\ mem[idx].kind = "index"
      /\ Complete => idx = hdr.index
      /\ \A a \in Roots \ todo : mem[idx].roots[a] = top[a]
      /\ pending = KeysBelow(mem, pos) /\ torn
  BY <1>1 DEF SoundInv, SaveInv, TypeOK, Saving
<1>4. PICK old \in [Roots -> Off] : old = mem[idx].roots
  BY <1>2, <1>3 DEF Contents, NodeCell, IndexCell, Blank
<1>5. PICK new : new = [old EXCEPT ![r] = top[r]]
  OBVIOUS
<1>6. new \in [Roots -> Off] /\ new[r] = top[r] /\ \A a \in Roots : a # r => new[a] = old[a]
  BY <1>2, <1>4, <1>5
<1>7. PICK cell \in IndexCell : cell = [kind |-> "index", roots |-> new, child |-> NoChild]
  BY <1>6, FreshTypes DEF IndexCell
<1>8. cell.kind = "index" /\ cell.roots = new /\ mem' = [mem EXCEPT ![idx] = cell]
  BY <1>3, <1>4, <1>5, <1>7 DEF SaveCopy, RootsAt
<1>9. mem' \in Contents /\ mem'[idx] = cell /\ \A o \in Off : o # idx => mem'[o] = mem[o]
  BY <1>2, <1>3, <1>8 DEF Contents
<1>10. /\ \A o \in Off : IsNode(mem', o) <=> IsNode(mem, o)
       /\ \A o \in Off : IsNode(mem, o) => mem'[o] = mem[o]
  BY <1>3, <1>8, <1>9 DEF IsNode
<1>11. \A w \in 0..Capacity : Kept(mem, mem', w)
  BY <1>10 DEF Kept, NodesBelow, Off
<1>12. /\ KeysBelow(mem', pos) = KeysBelow(mem, pos)
       /\ Rising(mem', top, pos) /\ Tree(mem', top, pos) /\ Holds(mem', dict, pos)
  BY <1>2, <1>11, NodesKept
<1>14. Complete' <=> Complete
  BY <1>1 DEF Complete
<1>15. Complete => Saved = old /\ Saved' = new
  BY <1>1, <1>3, <1>4, <1>8, <1>9 DEF Saved
<1>16. HeaderInv'
  <2>1. Complete => mem'[hdr.index].kind = "index"
    BY <1>3, <1>8, <1>9
  <2> QED BY <1>1, <1>14, <2>1 DEF SoundInv, HeaderInv
<1>17. ASSUME Complete
       PROVE  /\ Planted(mem', new, hdr.highWater) /\ Holds(mem', dict, hdr.highWater)
              /\ KeysBelow(mem', hdr.highWater) = KeysBelow(mem, hdr.highWater)
              /\ \A a \in Roots : \/ new[a] = top[a]
                                  \/ new[a] = 0 /\ top[a] >= hdr.highWater
  <2>1. PICK w \in 0..Capacity : w = hdr.highWater
    BY DEF SoundInv, TypeOK
  <2>2. \A a \in Roots : old[a] = top[a] \/ (old[a] = 0 /\ top[a] >= w)
    BY <1>1, <1>15, <1>17, <2>1 DEF SoundInv, SessionInv
  <2>3. Planted(mem, old, w) /\ Holds(mem, dict, w)
    BY <1>1, <1>15, <1>17, <2>1, LiveFile
  <2>4. Kept(mem, mem', w)
    BY <1>11
  <2>5. Grown(mem, old, mem', new, w)
    BY <1>6, <2>2, <2>4 DEF Kept, Grown
  <2>6. Planted(mem', new, w)
    BY <1>2, <2>3, <2>5, TreeStays
  <2>7. KeysBelow(mem', w) = KeysBelow(mem, w) /\ Holds(mem', dict, w)
    BY <1>2, <2>3, <2>4, NodesKept
  <2>8. \A a \in Roots : new[a] = top[a] \/ (new[a] = 0 /\ top[a] >= w)
    BY <1>6, <2>2
  <2> QED BY <2>1, <2>6, <2>7, <2>8
<1>18. FileInv'
  <2>1. Complete => KeysBelow(mem, hdr.highWater) \in {ckpt, pending}
    BY <1>1, LiveFile
  <2> QED BY <2>1, <1>1, <1>14, <1>15, <1>16, <1>17, FileKept
<1>19. LiveInv'
  BY <1>1, <1>2, <1>12 DEF SoundInv, LiveInv
<1>20. SessionInv'
  BY <1>1, <1>14, <1>15, <1>17 DEF SoundInv, SessionInv
<1>21. SaveInv'
  <2>1. \A a \in Roots \ todo' : mem'[idx'].roots[a] = top'[a]
    BY <1>1, <1>3, <1>4, <1>6, <1>8, <1>9
  <2>2. mem'[idx'].kind = "index" /\ idx' \in 1..(pos' - 1) /\ idx' < Reach
    BY <1>1, <1>3, <1>8, <1>9
  <2>3. phase' # "copy" => todo' = {}
    BY <1>1
  <2> QED BY <2>1, <2>2, <2>3, <1>1, <1>3, <1>12, <1>14 DEF SaveInv
<1>22. CheckpointInv'
  BY <1>1, <1>3 DEF CheckpointInv
<1> QED BY <1>16, <1>18, <1>19, <1>20, <1>21, <1>22 DEF SoundInv

\* A root broken off had been empty: the file's tree is still that of the others.
LEMMA InvBreakRoot == ASSUME NEW r \in Roots, SoundInv, TypeOK', BreakRoot(r) PROVE SoundInv'
<1>1. /\ phase = "copy" /\ Live /\ ~Live' /\ broken' = {r} /\ top[r] # RootsAt(idx)[r]
      /\ phase' = "closed"
      /\ UNCHANGED <<hdr, dict, ckpt, pending, torn, hung>>
  BY DEF BreakRoot, Live, Saving
<1>2. mem \in Contents /\ hdr.highWater \in 0..Capacity
  BY DEF SoundInv, TypeOK, Contents
<1>3. /\ idx \in Off /\ mem[idx].kind = "index" /\ torn
      /\ Complete => idx = hdr.index
  BY <1>1 DEF SoundInv, SaveInv, TypeOK, Saving
<1>4. PICK old \in [Roots -> Off] : old = mem[idx].roots /\ old = RootsAt(idx)
  BY <1>2, <1>3, CopyRoots DEF RootsAt
<1>5. PICK part, around : mem' = [mem EXCEPT ![idx] = [kind  |-> "index",
                                                       roots |-> [old EXCEPT ![r] = part],
                                                       child |-> around]]
  BY <1>4 DEF BreakRoot
<1>6. /\ mem'[idx].kind = "index" /\ \A a \in Roots : a # r => mem'[idx].roots[a] = old[a]
      /\ \A o \in Off : o # idx => mem'[o] = mem[o]
  BY <1>2, <1>3, <1>4, <1>5 DEF Contents
<1>7. Kept(mem, mem', hdr.highWater)
  <2>1. \A o \in Off : IsNode(mem', o) <=> IsNode(mem, o)
    BY <1>3, <1>6 DEF IsNode
  <2>2. \A o \in Off : IsNode(mem, o) => mem'[o] = mem[o]
    BY <1>3, <1>6 DEF IsNode
  <2>3. \A o \in 1..(hdr.highWater - 1) : o \in Off
    BY <1>2 DEF Off
  <2> QED BY <2>1, <2>2, <2>3 DEF Kept, NodesBelow
<1>8. Complete' <=> Complete
  BY <1>1 DEF Complete
<1>9. HeaderInv'
  BY <1>1, <1>3, <1>6, <1>8 DEF SoundInv, HeaderInv
<1>10. ASSUME Complete PROVE Unbroken' = Saved
  <2>1. Saved = old /\ Saved[r] = 0
    BY <1>1, <1>3, <1>4, <1>10 DEF Saved, SoundInv, SessionInv
  <2>2. \A a \in Roots : a # r => Saved'[a] = old[a]
    BY <1>1, <1>3, <1>6, <1>10 DEF Saved
  <2>3. Unbroken' = [a \in Roots |-> IF a = r THEN 0 ELSE Saved'[a]]
    BY <1>1 DEF Unbroken
  <2>4. old = [a \in Roots |-> old[a]]
    OBVIOUS
  <2> QED BY <2>1, <2>2, <2>3, <2>4
<1>11. FileInv'
  <2>1. Complete => /\ Planted(mem, Saved, hdr.highWater) /\ Holds(mem, dict, hdr.highWater)
                    /\ KeysBelow(mem, hdr.highWater) \in {ckpt, pending}
    BY <1>1, LiveFile
  <2>2. /\ KeysBelow(mem', hdr.highWater) = KeysBelow(mem, hdr.highWater)
        /\ Planted(mem, Saved, hdr.highWater) => Planted(mem', Saved, hdr.highWater)
        /\ Holds(mem, dict, hdr.highWater) => Holds(mem', dict, hdr.highWater)
    BY <1>2, <1>7, NodesKept
  <2> QED BY <2>1, <2>2, <1>1, <1>8, <1>10 DEF FileInv
<1>12. LiveInv' /\ SessionInv' /\ SaveInv' /\ CheckpointInv'
  BY <1>1, <1>3 DEF LiveInv, SessionInv, SaveInv, CheckpointInv, Saving
<1> QED BY <1>9, <1>11, <1>12 DEF SoundInv

\* The magic alone names no region.
LEMMA InvSaveMagic == SoundInv /\ TypeOK' /\ SaveMagic => SoundInv'
<1> SUFFICES ASSUME SoundInv, TypeOK', SaveMagic PROVE SoundInv'
  OBVIOUS
<1>1. /\ phase = "magic" /\ phase' = "highwater" /\ Live /\ Live'
      /\ hdr' = [hdr EXCEPT !.magic = TRUE]
      /\ UNCHANGED <<mem, top, pos, idx, todo, dict, ckpt, pending, torn, hung, broken>>
      /\ broken = {}
  BY DEF SaveMagic, Live, Saving, save, ghosts, SoundInv, LiveInv
<1>2. hdr' \in [magic : BOOLEAN, highWater : 0..Capacity, index : Off] /\ hdr'.magic
      /\ hdr'.highWater = hdr.highWater /\ hdr'.index = hdr.index
  BY <1>1 DEF SoundInv, TypeOK
<1>3. Complete' <=> Complete
  BY <1>2 DEF SoundInv, TypeOK, HeaderInv, NoHeader, Complete
<1>5. HeaderInv'
  BY <1>1, <1>2, <1>3 DEF SoundInv, HeaderInv
<1>6. FileInv'
  <2>1. Complete => /\ Planted(mem, Saved, hdr.highWater) /\ Holds(mem, dict, hdr.highWater)
                    /\ KeysBelow(mem, hdr.highWater) \in {ckpt, pending}
    BY <1>1, LiveFile
  <2>2. Saved' = Saved
    BY <1>1, <1>2 DEF Saved
  <2> QED BY <2>1, <2>2, <1>1, <1>2, <1>3, <1>5, FileKept
<1>7. LiveInv'
  BY <1>1 DEF SoundInv, LiveInv
<1>8. SessionInv'
  BY <1>1, <1>2, <1>3 DEF SoundInv, SessionInv, Saved
<1>9. SaveInv'
  BY <1>1, <1>2, <1>3 DEF SoundInv, SaveInv, Saving
<1>10. CheckpointInv'
  BY <1>1 DEF SoundInv, SaveInv, CheckpointInv, Saving
<1> QED BY <1>5, <1>6, <1>7, <1>8, <1>9, <1>10 DEF SoundInv

\* From the last root copied on, the index copy is the top of the map.
LEMMA CopyIsTop ==
  ASSUME SoundInv, phase \in {"highwater", "index"}
  PROVE  /\ Live /\ mem \in Contents /\ pos \in 1..Capacity
         /\ idx \in Off /\ idx \in 1..(pos - 1) /\ idx < Reach
         /\ mem[idx].kind = "index" /\ mem[idx].roots = top
         /\ Complete => idx = hdr.index
         /\ hdr.magic /\ torn /\ todo = {} /\ pending = KeysBelow(mem, pos)
         /\ (phase = "index" => hdr.highWater = pos)
         /\ Rising(mem, top, pos) /\ Tree(mem, top, pos) /\ Holds(mem, dict, pos)
<1>1. Live /\ phase \in Saving /\ phase # "copy"
  BY DEF Live, Saving
<1>2. /\ mem \in Contents /\ pos \in 1..Capacity
      /\ Rising(mem, top, pos) /\ Tree(mem, top, pos) /\ Holds(mem, dict, pos)
  BY <1>1, LiveKeys
<1>3. /\ idx \in 1..(pos - 1) /\ idx < Reach /\ mem[idx].kind = "index"
      /\ Complete => idx = hdr.index
      /\ \A r \in Roots \ todo : mem[idx].roots[r] = top[r]
      /\ pending = KeysBelow(mem, pos) /\ torn /\ todo = {} /\ hdr.magic
      /\ (phase = "index" => hdr.highWater = pos)
  BY <1>1 DEF SoundInv, SaveInv
<1>4. idx \in Off /\ top \in [Roots -> Off]
  BY DEF SoundInv, TypeOK
<1>5. mem[idx].roots = top
  <2>1. PICK copy \in [Roots -> Off] : copy = mem[idx].roots
    BY <1>2, <1>3, <1>4 DEF Contents, NodeCell, IndexCell, Blank
  <2>2. \A r \in Roots : copy[r] = top[r]
    BY <1>3, <2>1
  <2>3. copy = top
    <3>1. copy = [r \in Roots |-> copy[r]] /\ top = [r \in Roots |-> top[r]]
      BY <2>1, <1>4
    <3> QED BY <2>2, <3>1
  <2> QED BY <2>1, <2>3
<1> QED BY <1>1, <1>2, <1>3, <1>4, <1>5

\* The watermark takes in whatever was put since: the copy is the top by now.
LEMMA InvSaveHighWater == SoundInv /\ TypeOK' /\ SaveHighWater => SoundInv'
<1> SUFFICES ASSUME SoundInv, TypeOK', SaveHighWater PROVE SoundInv'
  OBVIOUS
<1>1. /\ phase = "highwater" /\ phase' = "index" /\ Live'
      /\ hdr' = [hdr EXCEPT !.highWater = pos]
      /\ UNCHANGED <<mem, top, pos, idx, todo, dict, ckpt, pending, torn, hung, broken>>
      /\ broken = {}
  BY DEF SaveHighWater, Live, Saving, save, ghosts, SoundInv, LiveInv
<1>2. /\ Live /\ mem \in Contents /\ pos \in 1..Capacity
      /\ idx \in 1..(pos - 1) /\ idx < Reach
      /\ mem[idx].kind = "index" /\ mem[idx].roots = top
      /\ Complete => idx = hdr.index
      /\ hdr.magic /\ torn /\ pending = KeysBelow(mem, pos)
      /\ Planted(mem, top, pos) /\ Holds(mem, dict, pos)
  BY <1>1, CopyIsTop, RisingLeads DEF Planted
<1>3. hdr' \in [magic : BOOLEAN, highWater : 0..Capacity, index : Off]
      /\ hdr'.magic /\ hdr'.highWater = pos /\ hdr'.index = hdr.index
  BY <1>1, <1>2 DEF SoundInv, TypeOK
<1>4. (Complete' <=> Complete) /\ (Complete => Saved' = top)
  BY <1>1, <1>2, <1>3 DEF Complete, Saved
<1>6. HeaderInv'
  BY <1>1, <1>2, <1>3, <1>4 DEF HeaderInv
<1>7. FileInv'
  BY <1>1, <1>2, <1>3, <1>4, <1>6, FileKept
<1>8. LiveInv'
  BY <1>1, <1>2 DEF SoundInv, LiveInv
<1>9. SessionInv'
  BY <1>1, <1>2, <1>3, <1>4 DEF SessionInv
<1>10. SaveInv'
  BY <1>1, <1>2, <1>3, <1>4 DEF SoundInv, SaveInv, Saving
<1>11. CheckpointInv'
  BY <1>1, <1>2 DEF CheckpointInv
<1> QED BY <1>6, <1>7, <1>8, <1>9, <1>10, <1>11 DEF SoundInv

\* The last store completes the Save.
LEMMA InvSaveIndexOffset == SoundInv /\ TypeOK' /\ SaveIndexOffset => SoundInv'
<1> SUFFICES ASSUME SoundInv, TypeOK', SaveIndexOffset PROVE SoundInv'
  OBVIOUS
<1>1. /\ phase = "index" /\ phase' = "open" /\ Live' /\ idx' = 0
      /\ hdr' = [hdr EXCEPT !.index = idx]
      /\ ckpt' = pending /\ torn' = FALSE /\ hung' = FALSE
      /\ UNCHANGED <<mem, top, pos, todo, dict, pending, broken>> /\ broken = {}
  BY DEF SaveIndexOffset, Live, Saving, SoundInv, LiveInv
<1>2. /\ Live /\ mem \in Contents /\ pos \in 1..Capacity
      /\ idx \in Off /\ idx \in 1..(pos - 1) /\ idx < Reach
      /\ mem[idx].kind = "index" /\ mem[idx].roots = top
      /\ hdr.magic /\ hdr.highWater = pos /\ pending = KeysBelow(mem, pos)
      /\ Rising(mem, top, pos) /\ Planted(mem, top, pos) /\ Holds(mem, dict, pos)
  BY <1>1, CopyIsTop, RisingLeads DEF Planted
<1>3. hdr' \in [magic : BOOLEAN, highWater : 0..Capacity, index : Off]
      /\ hdr'.magic /\ hdr'.highWater = pos /\ hdr'.index = idx
  BY <1>1, <1>2 DEF SoundInv, TypeOK
<1>4. Complete' /\ Saved' = top
  BY <1>1, <1>2, <1>3 DEF Complete, Saved
<1>6. HeaderInv'
  BY <1>1, <1>2, <1>3, <1>4 DEF HeaderInv
<1>7. FileInv'
  BY <1>1, <1>2, <1>3, <1>4, <1>6, FileKept
<1>8. LiveInv'
  BY <1>1, <1>2 DEF SoundInv, LiveInv
<1>9. SessionInv'
  BY <1>1, <1>2, <1>3, <1>4 DEF SessionInv
<1>10. SaveInv'
  BY <1>1 DEF SaveInv, Saving
<1>11. CheckpointInv'
  BY <1>1, <1>2, <1>3, <1>4 DEF CheckpointInv
<1> QED BY <1>6, <1>7, <1>8, <1>9, <1>10, <1>11 DEF SoundInv

\* A Put's node hangs where the walk of its key ended; the file sees none of it.
LEMMA InvPutInsert == ASSUME NEW k \in Keys, SoundInv, TypeOK', PutInsert(k) PROVE SoundInv'
<1>1. /\ phase = "open" /\ phase' = "open" /\ Live /\ Live' /\ Find(mem, top, k) = 0
      /\ pos' = pos + 1 /\ pos < Reach /\ dict' = [dict EXCEPT ![k] = 0]
      /\ UNCHANGED <<hdr, phase, idx, todo, ckpt, pending, torn, broken>> /\ broken = {}
  BY DEF PutInsert, Insert, Live, save, SoundInv, LiveInv
<1>2. /\ mem \in Contents /\ pos \in 1..Capacity
      /\ Rising(mem, top, pos) /\ Tree(mem, top, pos) /\ Holds(mem, dict, pos)
      /\ KeysIn(mem, top) = KeysBelow(mem, pos)
  BY <1>1, LiveKeys
<1>3. pos \in Off /\ pos # 0 /\ pos \in 0..Capacity /\ top \in [Roots -> Off]
  BY <1>1, <1>2 DEF SoundInv, TypeOK, Off
<1>4. k \notin KeysBelow(mem, pos)
  BY <1>1, <1>2 DEF KeysIn
<1>5. PICK d : d = StopLevel(mem, top, k)
  OBVIOUS
<1>6. PICK up : up = Walk(mem, top, k)[d - 1]
  OBVIOUS
<1>7. /\ d \in 0..MaxDepth
      /\ \A e \in 0..(d - 1) : /\ Walk(mem, top, k)[e] \in NodesBelow(mem, pos)
                               /\ mem[Walk(mem, top, k)[e]].key # k
      /\ d = 0 => top[Route[k][0]] = 0
      /\ d # 0 => /\ up \in NodesBelow(mem, pos) /\ mem[up].child[Route[k][d]] = 0
                  /\ Route[k][d] \in Branches
  <2>1. ToGap(mem, top, pos, k, d)
    BY <1>1, <1>2, <1>3, <1>5, WalkToGap
  <2> QED BY <2>1, <1>6 DEF ToGap
<1>8. IF d = 0
      THEN /\ top' = [top EXCEPT ![Route[k][0]] = pos]
           /\ mem' = [mem EXCEPT ![pos] = Leaf(k)]
      ELSE /\ top' = top
           /\ mem' = [mem EXCEPT ![pos] = Leaf(k), ![up].child[Route[k][d]] = pos]
  BY <1>5, <1>6 DEF PutInsert, Insert, Leaf, NoChild
<1>9. (d = 0 => hung' = hung) /\ (d # 0 => hung' = TRUE)
  BY <1>5 DEF PutInsert, Insert
<1>10. /\ mem' \in Contents /\ top' \in [Roots -> Off]
       /\ \A o \in Off \ {pos} : ~IsNode(mem, o) => mem'[o] = mem[o]
       /\ Linked(mem, top, mem', top', pos, k, d, up)
  <2>1. Inserted(mem, top, mem', top', pos, k, d, up)
    BY <1>7, <1>8 DEF Inserted
  <2> QED BY <1>2, <1>3, <2>1, InsertLinks
<1>11. /\ NodesBelow(mem', pos + 1) = NodesBelow(mem, pos) \cup {pos}
       /\ Rising(mem', top', pos + 1) /\ Tree(mem', top', pos + 1)
  BY <1>2, <1>3, <1>6, <1>7, <1>10, TreeGrows
<1>12. \A o \in NodesBelow(mem, pos) :
         /\ mem'[o].key = mem[o].key /\ mem'[o].val = mem[o].val
         /\ mem[o].key \in Keys /\ mem[o].key # k
  <2>1. \A o \in NodesBelow(mem, pos) : mem'[o].key = mem[o].key /\ mem'[o].val = mem[o].val
    BY <1>10 DEF Linked
  <2>2. \A o \in NodesBelow(mem, pos) : mem[o].key \in KeysBelow(mem, pos)
    BY DEF KeysBelow
  <2> QED BY <2>1, <2>2, <1>2, <1>4 DEF KeysIn
<1>13. dict' \in [Keys -> Values \cup {NoValue}] /\ dict'[k] = 0
       /\ \A x \in Keys : x # k => dict'[x] = dict[x]
  BY <1>1 DEF SoundInv, TypeOK
<1>14. IsNode(mem', pos) /\ mem'[pos].key = k /\ mem'[pos].val = 0
  BY <1>10 DEF Linked
<1>16. LiveInv'
  <2>1. Holds(mem', dict', pos + 1)
    <3>1. \A o \in NodesBelow(mem, pos) : mem'[o].val = dict'[mem'[o].key]
      BY <1>2, <1>12, <1>13 DEF Holds
    <3> QED BY <3>1, <1>11, <1>13, <1>14 DEF Holds
  <2>2. KeysBelow(mem', pos + 1) = KeysBelow(mem, pos) \cup {k}
    BY <1>11, <1>12, <1>14 DEF KeysBelow
  <2>3. \A x \in Keys : dict'[x] # NoValue => x \in KeysBelow(mem', pos + 1)
    BY <1>1, <1>13, <2>2 DEF SoundInv, LiveInv
  <2>4. /\ Rising(mem', top', pos') /\ Tree(mem', top', pos') /\ Holds(mem', dict', pos')
        /\ \A x \in Keys : dict'[x] # NoValue => x \in KeysBelow(mem', pos')
    BY <1>1, <1>11, <2>1, <2>3
  <2>5. pos' >= 1
    BY <1>1, <1>2
  <2> QED BY <1>1, <2>4, <2>5 DEF LiveInv
<1>17. (Complete' <=> Complete) /\ hdr' = hdr
  BY <1>1 DEF Complete
<1>18. ASSUME Complete
       PROVE  /\ Saved' = Saved /\ Saved \in [Roots -> Off] /\ mem'[hdr.index] = mem[hdr.index]
              /\ hdr.highWater \in 1..pos /\ hdr.index < hdr.highWater
              /\ hdr.index < Reach /\ mem[hdr.index].kind = "index"
  <2>1. /\ hdr.index \in Off /\ hdr.highWater \in 0..Capacity /\ hdr.index < hdr.highWater
        /\ hdr.index < Reach /\ mem[hdr.index].kind = "index" /\ hdr.highWater <= pos
    BY <1>1, <1>18 DEF SoundInv, TypeOK, HeaderInv, SessionInv
  <2>2. hdr.index # pos /\ hdr.highWater \in 1..pos
    BY <1>2, <2>1 DEF Off
  <2>3. ~IsNode(mem, hdr.index)
    BY <2>1 DEF IsNode
  <2>4. mem'[hdr.index] = mem[hdr.index]
    BY <1>10, <2>1, <2>2, <2>3
  <2>5. Saved \in [Roots -> Off]
    BY <1>2, <2>1 DEF Contents, NodeCell, IndexCell, Blank, Saved
  <2> QED BY <1>17, <2>1, <2>2, <2>4, <2>5 DEF Saved
<1>19. HeaderInv'
  BY <1>17, <1>18 DEF SoundInv, HeaderInv
<1>20. ASSUME Complete
       PROVE  /\ Grown(mem, Saved, mem', Saved, hdr.highWater)
              /\ Planted(mem', Saved, hdr.highWater)
              /\ KeysBelow(mem', hdr.highWater) = KeysBelow(mem, hdr.highWater)
              /\ Holds(mem', dict', hdr.highWater)
              /\ \A o \in NodesBelow(mem, hdr.highWater) : o \in NodesBelow(mem, pos)
  <2>1. PICK w \in 1..pos : w = hdr.highWater
    BY <1>18, <1>20
  <2>2. \A o \in NodesBelow(mem, w) : o \in NodesBelow(mem, pos)
    BY <1>2, <2>1 DEF NodesBelow
  <2>3. \A o \in 1..(w - 1) : o \in 1..(pos - 1)
    BY <1>2, <2>1
  <2>4. \A o \in NodesBelow(mem, w), b \in Branches :
          \/ mem'[o].child[b] = mem[o].child[b]
          \/ mem[o].child[b] = 0 /\ mem'[o].child[b] >= w
    <3>1. \A o \in NodesBelow(mem, w), b \in Branches :
            \/ mem'[o].child[b] = mem[o].child[b]
            \/ mem[o].child[b] = 0 /\ mem'[o].child[b] = pos
      BY <1>10, <2>2 DEF Linked
    <3>2. pos >= w
      BY <1>2, <2>1
    <3> QED BY <3>1, <3>2
  <2>5. Grown(mem, Saved, mem', Saved, w)
    BY <1>10, <1>12, <2>2, <2>3, <2>4 DEF Grown, Linked
  <2>6. Planted(mem, Saved, w) /\ Holds(mem, dict, w)
    BY <1>1, <1>20, <2>1, LiveFile
  <2>7. w \in 0..Capacity
    BY <1>2, <2>1
  <2>8. /\ Planted(mem', Saved, w) /\ KeysBelow(mem', w) = KeysBelow(mem, w)
        /\ NodesBelow(mem', w) = NodesBelow(mem, w)
    BY <1>2, <2>5, <2>6, <2>7, TreeStays
  <2>9. Holds(mem', dict', w)
    BY <1>12, <1>13, <2>2, <2>6, <2>8 DEF Holds
  <2> QED BY <2>1, <2>2, <2>5, <2>8, <2>9
<1>21. FileInv'
  <2>1. Complete => KeysBelow(mem, hdr.highWater) \in {ckpt, pending}
    BY <1>1, LiveFile
  <2> QED BY <2>1, <1>1, <1>17, <1>18, <1>19, <1>20, FileKept
<1>22. SessionInv'
  <2>1. ASSUME Complete, NEW r \in Roots
        PROVE  Saved[r] = top'[r] \/ (Saved[r] = 0 /\ top'[r] >= hdr.highWater)
    <3>1. Saved[r] = top[r] \/ Saved[r] = 0
      BY <1>1, <2>1 DEF SoundInv, SessionInv
    <3>2. top'[r] = top[r] \/ (top[r] = 0 /\ top'[r] = pos)
      BY <1>10 DEF Linked
    <3>3. top'[r] = top[r] => Saved[r] = top[r] \/ (Saved[r] = 0 /\ top[r] >= hdr.highWater)
      BY <1>1, <2>1 DEF SoundInv, SessionInv
    <3>4. pos >= hdr.highWater
      BY <1>2, <1>18, <2>1
    <3> QED BY <3>1, <3>2, <3>3, <3>4
  <2>2. Complete => hdr.highWater <= pos'
    BY <1>1, <1>2, <1>18
  <2>3. Complete => KeysBelow(mem', hdr.highWater) = ckpt
    BY <1>1, <1>20 DEF SoundInv, SessionInv
  <2> QED BY <2>1, <2>2, <2>3, <1>1, <1>17, <1>18 DEF SessionInv
<1>23. SaveInv'
  BY <1>1 DEF SaveInv, Saving
<1>24. CheckpointInv'
  <2>1. SUFFICES ASSUME ckpt # Null, ~torn, ~hung'
                 PROVE  /\ Complete
                        /\ Rising(mem', Saved, hdr.highWater)
                        /\ KeysBelow(mem', hdr.highWater) = ckpt
    BY <1>1, <1>17, <1>18 DEF CheckpointInv
  <2>2. d = 0 /\ ~hung
    BY <1>9, <2>1
  <2>3. /\ Complete /\ Rising(mem, Saved, hdr.highWater)
        /\ KeysBelow(mem, hdr.highWater) = ckpt
    BY <2>1, <2>2 DEF SoundInv, CheckpointInv
  <2>4. PICK w \in 1..pos : w = hdr.highWater
    BY <1>18, <2>3
  <2>5. \A o \in 1..(w - 1) : IsNode(mem', o) <=> IsNode(mem, o)
    BY <1>20, <2>3, <2>4 DEF Grown
  <2>6. \A o \in NodesBelow(mem, w), b \in Branches : mem'[o].child[b] = mem[o].child[b]
    BY <1>10, <1>20, <2>2, <2>3, <2>4 DEF Linked
  <2>7. Rising(mem', Saved, w)
    BY <2>3, <2>4, <2>5, <2>6, RisingStays
  <2> QED BY <2>3, <2>4, <2>7, <1>20
<1> QED BY <1>16, <1>19, <1>21, <1>22, <1>23, <1>24 DEF SoundInv

\* A value written is that of its own node, the file's included.
LEMMA InvWriteValue ==
  ASSUME NEW k \in Keys, NEW v \in Values, SoundInv, TypeOK', WriteValue(k, v)
  PROVE  SoundInv'
<1>1. /\ phase = "open" /\ phase' = "open" /\ Live /\ Live' /\ Find(mem, top, k) # 0
      /\ mem' = [mem EXCEPT ![Find(mem, top, k)].val = v] /\ dict' = [dict EXCEPT ![k] = v]
      /\ UNCHANGED <<hdr, top, pos, phase, idx, todo, ckpt, pending, torn, hung, broken>>
      /\ broken = {}
  BY DEF WriteValue, Live, save, SoundInv, LiveInv
<1>2. /\ mem \in Contents /\ pos \in 1..Capacity /\ pos \in 0..Capacity
      /\ Rising(mem, top, pos) /\ Tree(mem, top, pos) /\ Holds(mem, dict, pos)
      /\ KeysIn(mem, top) = KeysBelow(mem, pos)
  BY <1>1, LiveKeys
<1>3. PICK c : c = Find(mem, top, k)
  OBVIOUS
<1>4. c \in NodesBelow(mem, pos) /\ mem[c].key = k
  BY <1>1, <1>3, LiveKeys
<1>5. c \in Off /\ mem[c] \in NodeCell /\ IsNode(mem, c)
  BY <1>2, <1>4 DEF NodesBelow, Contents, NodeCell, IndexCell, Blank, IsNode, Off
<1>6. PICK cell \in NodeCell :
        /\ cell.kind = "node" /\ cell.key = mem[c].key /\ cell.child = mem[c].child
        /\ cell.val = v /\ mem' = [mem EXCEPT ![c] = cell]
  <2>1. [mem[c] EXCEPT !.val = v] \in NodeCell
    BY <1>5 DEF NodeCell
  <2> QED BY <2>1, <1>1, <1>3, <1>5 DEF NodeCell
<1>7. mem' \in Contents /\ mem'[c] = cell /\ \A o \in Off : o # c => mem'[o] = mem[o]
  BY <1>2, <1>5, <1>6 DEF Contents
<1>8. \A o \in Off : /\ IsNode(mem', o) <=> IsNode(mem, o)
                     /\ ~IsNode(mem, o) => mem'[o] = mem[o]
                     /\ IsNode(mem, o) => mem'[o].key = mem[o].key /\ mem'[o].child = mem[o].child
  BY <1>5, <1>6, <1>7 DEF IsNode
<1>9. \A w \in 0..Capacity :
        /\ \A o \in 1..(w - 1) : IsNode(mem', o) <=> IsNode(mem, o)
        /\ \A o \in NodesBelow(mem, w) :
             o \in Off /\ mem'[o].key = mem[o].key /\ mem'[o].child = mem[o].child
  BY <1>8 DEF NodesBelow, Off
<1>10. \A roots : \A w \in 0..Capacity : Grown(mem, roots, mem', roots, w)
  BY <1>9 DEF Grown
<1>11. ASSUME NEW w \in 0..Capacity, NEW roots
       PROVE  /\ NodesBelow(mem', w) = NodesBelow(mem, w)
              /\ KeysBelow(mem', w) = KeysBelow(mem, w)
              /\ Tree(mem, roots, w) => Tree(mem', roots, w)
              /\ Planted(mem, roots, w) => Planted(mem', roots, w)
              /\ Rising(mem, roots, w) => Rising(mem', roots, w)
  <2>1. /\ NodesBelow(mem', w) = NodesBelow(mem, w)
        /\ KeysBelow(mem', w) = KeysBelow(mem, w)
        /\ Tree(mem, roots, w) => Tree(mem', roots, w)
        /\ Planted(mem, roots, w) => Planted(mem', roots, w)
    BY <1>2, <1>10, TreeStays
  <2>2. Rising(mem, roots, w) => Rising(mem', roots, w)
    BY <1>9, <2>1 DEF Rising
  <2> QED BY <2>1, <2>2
<1>12. dict' \in [Keys -> Values \cup {NoValue}] /\ dict'[k] = v
       /\ \A x \in Keys : x # k => dict'[x] = dict[x]
  BY <1>1 DEF SoundInv, TypeOK
<1>13. \A o \in NodesBelow(mem, pos) : mem[o].key \in Keys /\ (o # c => mem[o].key # k)
  <2>1. \A o \in NodesBelow(mem, pos) : Find(mem, top, mem[o].key) = o
    BY <1>2, TreeFinds
  <2>2. \A o \in NodesBelow(mem, pos) : mem[o].key \in KeysBelow(mem, pos)
    BY DEF KeysBelow
  <2> QED BY <2>1, <2>2, <1>2, <1>3 DEF KeysIn
<1>14. ASSUME NEW w \in 0..pos, Holds(mem, dict, w) PROVE Holds(mem', dict', w)
  <2>1. w \in 0..Capacity
    BY <1>2
  <2>2. \A o \in NodesBelow(mem, w) : o \in NodesBelow(mem, pos)
    BY <1>2 DEF NodesBelow
  <2>3. ASSUME NEW o \in NodesBelow(mem, w) PROVE mem'[o].val = dict'[mem'[o].key]
    <3>1. o \in NodesBelow(mem, pos) /\ o \in Off /\ mem'[o].key = mem[o].key
          /\ mem[o].val = dict[mem[o].key]
      BY <1>9, <1>14, <2>1, <2>2 DEF Holds
    <3>2. CASE o = c
      BY <3>1, <3>2, <1>4, <1>6, <1>7, <1>12
    <3>3. CASE o # c
      BY <3>1, <3>3, <1>7, <1>12, <1>13
    <3> QED BY <3>2, <3>3
  <2> QED BY <2>1, <2>3, <1>11 DEF Holds
<1>16. LiveInv'
  <2>1. /\ Rising(mem', top, pos) /\ Tree(mem', top, pos)
        /\ KeysBelow(mem', pos) = KeysBelow(mem, pos)
    BY <1>2, <1>11
  <2>2. Holds(mem', dict', pos)
    <3>1. pos \in 0..pos
      BY <1>2
    <3> QED BY <3>1, <1>2, <1>14
  <2>3. \A x \in Keys : dict'[x] # NoValue => x \in KeysBelow(mem, pos)
    <3>1. k \in KeysBelow(mem, pos)
      BY <1>4 DEF KeysBelow
    <3> QED BY <3>1, <1>1, <1>12 DEF SoundInv, LiveInv
  <2>4. /\ Rising(mem', top', pos') /\ Tree(mem', top', pos') /\ Holds(mem', dict', pos')
        /\ \A x \in Keys : dict'[x] # NoValue => x \in KeysBelow(mem', pos')
    BY <1>1, <2>1, <2>2, <2>3
  <2>5. pos' >= 1
    BY <1>1, <1>2
  <2> QED BY <1>1, <2>4, <2>5 DEF LiveInv
<1>17. (Complete' <=> Complete) /\ hdr' = hdr
  BY <1>1 DEF Complete
<1>18. ASSUME Complete
       PROVE  /\ Saved' = Saved /\ mem'[hdr.index] = mem[hdr.index]
              /\ hdr.highWater \in 0..pos /\ hdr.highWater \in 0..Capacity
  <2>1. /\ hdr.index \in Off /\ mem[hdr.index].kind = "index"
        /\ hdr.highWater \in 0..Capacity /\ hdr.highWater <= pos
    BY <1>1, <1>18 DEF SoundInv, TypeOK, HeaderInv, SessionInv
  <2>2. mem'[hdr.index] = mem[hdr.index]
    BY <1>8, <2>1 DEF IsNode
  <2>3. hdr.highWater \in 0..pos
    BY <1>2, <2>1
  <2> QED BY <1>17, <2>1, <2>2, <2>3 DEF Saved
<1>19. HeaderInv'
  BY <1>17, <1>18 DEF SoundInv, HeaderInv
<1>20. FileInv'
  <2>1. ASSUME Complete
        PROVE  /\ Planted(mem', Saved, hdr.highWater) /\ Holds(mem', dict', hdr.highWater)
               /\ KeysBelow(mem', hdr.highWater) \in {ckpt, pending}
    <3>1. /\ Planted(mem, Saved, hdr.highWater) /\ Holds(mem, dict, hdr.highWater)
          /\ KeysBelow(mem, hdr.highWater) \in {ckpt, pending}
      BY <1>1, <2>1, LiveFile
    <3> QED BY <3>1, <2>1, <1>11, <1>14, <1>18
  <2> QED BY <2>1, <1>1, <1>17, <1>18, <1>19, FileKept
<1>21. SessionInv'
  <2>1. Complete => KeysBelow(mem', hdr.highWater) = KeysBelow(mem, hdr.highWater)
    BY <1>11, <1>18
  <2> QED BY <2>1, <1>1, <1>17, <1>18 DEF SoundInv, SessionInv
<1>22. SaveInv'
  BY <1>1 DEF SaveInv, Saving
<1>23. CheckpointInv'
  <2>1. SUFFICES ASSUME ckpt # Null, ~torn, ~hung
                 PROVE  /\ Complete
                        /\ Rising(mem', Saved, hdr.highWater)
                        /\ KeysBelow(mem', hdr.highWater) = ckpt
    BY <1>1, <1>17, <1>18 DEF CheckpointInv
  <2>2. /\ Complete /\ Rising(mem, Saved, hdr.highWater)
        /\ KeysBelow(mem, hdr.highWater) = ckpt
    BY <2>1 DEF SoundInv, CheckpointInv
  <2> QED BY <2>2, <1>11, <1>18
<1> QED BY <1>16, <1>19, <1>20, <1>21, <1>22, <1>23 DEF SoundInv

------------------------------------------------------------------------------
(* The theorems.                                                           *)

\* Every step keeps what is sound.
LEMMA SoundNext ==
  ASSUME SoundInv, TypeOK', [Next]_vars, ~phantom' PROVE SoundInv'
<1>1. CASE MapInit
  BY <1>1, InvMapInit
<1>2. CASE SaveBegin
  BY <1>2, InvSaveBegin
<1>3. CASE SaveMagic
  BY <1>3, InvSaveMagic
<1>4. CASE SaveHighWater
  BY <1>4, InvSaveHighWater
<1>5. CASE SaveIndexOffset
  BY <1>5, InvSaveIndexOffset
<1>6. CASE Clear \/ Exit \/ OpenShared
  BY <1>6, InvClosing
<1>7. CASE OpenMap
  BY <1>7, InvOpenMap DEF OpenMap
<1>8. CASE UNCHANGED vars \/ \E a \in Nat \ {0} : BeyondReach(a)
  BY <1>8, InvBeyondReach
<1>9. ASSUME NEW k \in Keys, PutInsert(k) PROVE SoundInv'
  BY <1>9, InvPutInsert
<1>10. ASSUME NEW k \in Keys, NEW v \in Values, WriteValue(k, v) PROVE SoundInv'
  BY <1>10, InvWriteValue
<1>11. ASSUME NEW r \in Roots, SaveCopy(r) PROVE SoundInv'
  BY <1>11, InvSaveCopy
<1>12. ASSUME NEW r \in Roots, BreakRoot(r) PROVE SoundInv'
  BY <1>12, InvBreakRoot
<1>13. SaveBeyondReach \/ (\E k \in Keys : PutBeyondReach(k))
         => \E a \in Nat \ {0} : BeyondReach(a)
  BY SpaceAssumption DEF SaveBeyondReach, PutBeyondReach
<1> QED BY <1>1, <1>2, <1>3, <1>4, <1>5, <1>6, <1>7, <1>8, <1>9, <1>10, <1>11, <1>12, <1>13
        DEF Next

\* Only an Init ends the life of a map opened with a root broken off.
LEMMA PhantomStays == phantom /\ [Next]_vars => phantom' \/ MapInit
<1> SUFFICES ASSUME phantom, [Next]_vars, ~MapInit PROVE phantom'
  OBVIOUS
<1>1. CASE SaveBegin \/ SaveMagic \/ SaveHighWater \/ SaveIndexOffset
  BY <1>1 DEF SaveBegin, SaveMagic, SaveHighWater, SaveIndexOffset, ghosts
<1>2. CASE Clear \/ Exit \/ OpenShared \/ OpenMap
  BY <1>2 DEF Clear, Exit, OpenShared, OpenMap, ghosts
<1>3. CASE SaveBeyondReach \/ \E k \in Keys : PutInsert(k) \/ PutBeyondReach(k)
  BY <1>3 DEF SaveBeyondReach, PutBeyondReach, BeyondReach, PutInsert, Insert, ghosts
<1>4. CASE \E k \in Keys, v \in Values : WriteValue(k, v)
  BY <1>4 DEF WriteValue
<1>5. CASE \E r \in Roots : SaveCopy(r) \/ BreakRoot(r)
  BY <1>5 DEF SaveCopy, BreakRoot, ghosts
<1>6. CASE UNCHANGED vars
  BY <1>6 DEF vars, ghosts
<1> QED BY <1>1, <1>2, <1>3, <1>4, <1>5, <1>6 DEF Next

\* Every step keeps the invariant.
LEMMA InvNext == MapInv /\ [Next]_vars => MapInv'
<1> SUFFICES ASSUME MapInv, [Next]_vars PROVE MapInv'
  OBVIOUS
<1>1. TypeOK'
  BY TypesNext DEF MapInv
<1>2. ASSUME ~phantom' PROVE SoundInv'
  <2>1. CASE MapInit
    BY <1>1, <2>1, InvMapInit
  <2>2. CASE ~MapInit
    <3>1. SoundInv
      BY <1>2, <2>2, PhantomStays DEF MapInv
    <3> QED BY <1>1, <1>2, <3>1, SoundNext
  <2> QED BY <2>1, <2>2
<1> QED BY <1>1, <1>2 DEF MapInv

\* Through any Puts, Saves, ends of the process, between two bytes of a Save as well,
\* and reopenings, the live map and the file's keep to the invariant; once a map is
\* opened with a root broken off, only to the types.
THEOREM MapInvariant == Spec => []MapInv
<1>1. Init => MapInv
  BY InvInit DEF MapInv, SoundInv
<1> QED BY <1>1, InvNext, PTL DEF Spec

\* The nodes found have the values stored, and each is visited once.
LEMMA InvHolds == MapInv => HoldsWhatWasStored
<1> SUFFICES ASSUME SoundInv, Live
             PROVE  /\ \A k \in Keys : Get(k) = dict[k]
                    /\ Visits(mem, top) = Cardinality(KeysIn(mem, top))
  BY DEF HoldsWhatWasStored, MapInv
<1>1. /\ mem \in Contents /\ pos \in 0..Capacity
      /\ Rising(mem, top, pos) /\ Tree(mem, top, pos) /\ Holds(mem, dict, pos)
      /\ KeysIn(mem, top) = KeysBelow(mem, pos)
      /\ \A k \in Keys : Find(mem, top, k) # 0 =>
           Find(mem, top, k) \in NodesBelow(mem, pos) /\ mem[Find(mem, top, k)].key = k
  BY LiveKeys
<1>2. ASSUME NEW k \in Keys PROVE Get(k) = dict[k]
  <2>1. PICK o : o = Find(mem, top, k)
    OBVIOUS
  <2>2. CASE o = 0
    <3>1. k \notin KeysBelow(mem, pos)
      BY <1>1, <2>1, <2>2 DEF KeysIn
    <3> QED BY <2>1, <2>2, <3>1 DEF SoundInv, LiveInv, Get
  <2>3. CASE o # 0
    <3>1. o \in NodesBelow(mem, pos) /\ mem[o].key = k /\ IsNode(mem, o)
      BY <1>1, <2>1, <2>3 DEF NodesBelow
    <3>2. mem[o].val = dict[k]
      BY <1>1, <3>1 DEF Holds
    <3> QED BY <2>1, <2>3, <3>1, <3>2 DEF Get
  <2> QED BY <2>2, <2>3
<1>3. Visits(mem, top) = Cardinality(KeysBelow(mem, pos))
  BY <1>1, VisitsCount
<1> QED BY <1>1, <1>2, <1>3

\* What is stored in a live map is what Get answers, and what ForEach reports, once
\* for each key.
THEOREM MapHoldsWhatWasStored == Spec => []HoldsWhatWasStored
BY MapInvariant, InvHolds, PTL

\* What rises as a tree is validated.
LEMMA InvGenuine == MapInv => GraphIsGenuine
<1> SUFFICES ASSUME SoundInv, Live
             PROVE  ValidGraph(mem, top, pos) /\ LeadsToNodes(mem, top, pos)
  BY DEF GraphIsGenuine, MapInv
<1>1. /\ mem \in Contents /\ pos \in 0..Capacity
      /\ Rising(mem, top, pos) /\ Tree(mem, top, pos)
  BY LiveKeys
<1>2. LeadsToNodes(mem, top, pos)
  BY <1>1 DEF Rising, LeadsToNodes, NodesBelow
<1> QED BY <1>1, <1>2, RisingValid

\* The graph of a live map is one that rgHashMapOpen would accept: no link, value or
\* index copy is ever stored over a node, and a walk of it all has fewer visits than pos.
THEOREM MapGraphIsGenuine == Spec => []GraphIsGenuine
BY MapInvariant, InvGenuine, PTL

\* A checkpoint that nothing has spoilt is accepted.
LEMMA InvUnhung == MapInv => UnhungSaveReopens
<1> SUFFICES ASSUME SoundInv, ckpt # Null, ~torn, ~hung
             PROVE  Accepts /\ KeysIn(mem, Saved) = ckpt
  BY DEF UnhungSaveReopens, Saved, MapInv
<1>1. /\ Complete /\ Rising(mem, Saved, hdr.highWater)
      /\ KeysBelow(mem, hdr.highWater) = ckpt
  BY DEF SoundInv, CheckpointInv
<1>2. /\ hdr.index \in Off /\ hdr.highWater \in 0..Capacity /\ mem \in Contents
      /\ hdr.index < hdr.highWater /\ hdr.index < Reach
      /\ mem[hdr.index].kind = "index"
  BY <1>1 DEF SoundInv, TypeOK, HeaderInv, Contents
<1>3. Tree(mem, Saved, hdr.highWater)
  <2>1. broken = {}
    BY DEF SoundInv, CheckpointInv
  <2> QED BY <1>1, <2>1, NoneBroken DEF SoundInv, FileInv, Planted
<1>4. PICK w \in 0..Capacity : w = hdr.highWater
  BY <1>2
<1>5. PICK roots : roots = Saved
  OBVIOUS
<1>6. ValidGraph(mem, roots, w) /\ KeysIn(mem, roots) = KeysBelow(mem, w)
  BY <1>1, <1>2, <1>3, <1>4, <1>5, RisingValid, KeysFound
<1>7. hdr.index >= 1 /\ hdr.highWater <= Capacity
  BY <1>1, <1>2 DEF Complete, Off
<1> QED BY <1>1, <1>2, <1>4, <1>5, <1>6, <1>7 DEF Accepts, Complete, Saved

\* Whatever was put into empty roots since, and wherever the process died since, a
\* completed Save reopens to the keys it saved.
THEOREM MapUnhungSaveReopens == Spec => []UnhungSaveReopens
BY MapInvariant, InvUnhung, PTL

\* What the first Open accepts, whenever the process died, between two bytes of a root
\* as well, has the keys of the last completed Save or those of the one cut short.
THEOREM MapOpenIsACheckpoint == Spec => OpenIsACheckpoint
<1>1. MapInv /\ [Next]_vars
        => [OpenMap /\ ~phantom => KeysIn(mem, top)' \in {ckpt, pending}]_vars
  <2> SUFFICES ASSUME SoundInv, OpenMap PROVE KeysIn(mem, top)' \in {ckpt, pending}
    BY DEF MapInv
  <2>1. KeysIn(mem, Saved) \in {ckpt, pending}
    BY Opens DEF OpenMap
  <2>2. mem' = mem /\ top' = Saved
    BY DEF OpenMap, Saved, file
  <2> QED BY <2>1, <2>2
<1> QED BY <1>1, MapInvariant, PTL DEF Spec, OpenIsACheckpoint

\* What the position of a live map, or the gap after it, does in a step.
Costless == pos' = pos /\ gap' <= gap

\* Steps that put nothing into the arena leave the position where it is.
LEMMA OthersCostNothing ==
  ASSUME TypeOK, [Next]_vars, Live, Live'
  PROVE  Costless \/ SaveBegin \/ \E k \in Keys : PutInsert(k)
<1>1. pos \in Nat /\ gap \in Gaps /\ gap <= gap
  BY SpaceAssumption DEF TypeOK, Gaps
<1>2. CASE MapInit \/ Clear \/ Exit \/ OpenShared \/ OpenMap
  BY <1>2 DEF MapInit, Clear, Exit, OpenShared, OpenMap, Live, Saving
<1>3. CASE SaveMagic \/ SaveHighWater \/ SaveIndexOffset
  BY <1>1, <1>3 DEF SaveMagic, SaveHighWater, SaveIndexOffset, Costless
<1>4. ASSUME NEW a \in Nat \ {0}, BeyondReach(a) PROVE Costless
  <2>1. gap' <= gap
    BY <1>1, <1>4, PaddedFits DEF BeyondReach
  <2> QED BY <1>1, <1>4, <2>1 DEF BeyondReach, Popped, Costless
<1>5. ASSUME NEW k \in Keys, NEW v \in Values, WriteValue(k, v) PROVE Costless
  BY <1>1, <1>5 DEF WriteValue, Costless
<1>6. ASSUME NEW r \in Roots, SaveCopy(r) \/ BreakRoot(r) PROVE Costless \/ ~Live'
  BY <1>1, <1>6 DEF SaveCopy, BreakRoot, Costless, Live, Saving
<1>7. CASE UNCHANGED vars
  BY <1>1, <1>7 DEF vars, Costless
<1>8. Line \in Nat \ {0} /\ IndexAlign \in Nat \ {0}
  BY SpaceAssumption
<1> QED BY <1>2, <1>3, <1>4, <1>5, <1>6, <1>7, <1>8 DEF Next, SaveBeyondReach, PutBeyondReach

\* No Put or Save that is refused, and no Save after the first, costs any space but,
\* once, what is left of a cache line.
THEOREM MapAdvancesPay == Spec => AdvancesPay
<1> DEFINE Pays == Live /\ Live' /\ ~phantom
                   => \/ KeysIn(mem, top)' # KeysIn(mem, top)
                      \/ phase = "open" /\ phase' = "copy" /\ ~Reusable
                      \/ pos' = pos /\ gap' <= gap
<1>1. MapInv /\ MapInv' /\ [Next]_vars => [Pays]_vars
  <2> SUFFICES ASSUME SoundInv, MapInv', Next, Live, Live', ~phantom
               PROVE  \/ KeysIn(mem, top)' # KeysIn(mem, top)
                      \/ phase = "open" /\ phase' = "copy" /\ ~Reusable
                      \/ Costless
    BY DEF MapInv, Costless
  <2>1. TypeOK /\ gap <= gap
    BY SpaceAssumption DEF SoundInv, TypeOK, Gaps
  <2>2. CASE SaveBegin
    BY <2>1, <2>2 DEF SaveBegin, Costless
  <2>3. ASSUME NEW k \in Keys, PutInsert(k) PROVE KeysIn(mem, top)' # KeysIn(mem, top)
    <3>1. k \notin KeysIn(mem, top) /\ dict'[k] = 0 /\ phantom' = phantom
      BY <2>3 DEF PutInsert, Insert, KeysIn, SoundInv, TypeOK
    <3>2. SoundInv'
      BY <3>1 DEF MapInv
    <3>3. k \in KeysBelow(mem', pos')
      BY <3>1, <3>2 DEF SoundInv, LiveInv
    <3>4. KeysIn(mem, top)' = KeysBelow(mem', pos')
      <4>1. SoundInv /\ Live => KeysIn(mem, top) = KeysBelow(mem, pos)
        BY LiveKeys
      <4>2. (SoundInv /\ Live => KeysIn(mem, top) = KeysBelow(mem, pos))'
        BY LiveKeys, PTL
      <4> QED BY <3>2, <4>2
    <3> QED BY <3>1, <3>3, <3>4
  <2> QED BY <2>1, <2>2, <2>3, OthersCostNothing
<1>2. Spec => [][Pays]_vars
  BY <1>1, MapInvariant, PTL DEF Spec
<1> QED BY <1>2 DEF AdvancesPay
==============================================================================
