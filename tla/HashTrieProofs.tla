---------------------------- MODULE HashTrieProofs ----------------------------
(***************************************************************************)
(* Proofs about HashTrie, for any number of threads, keys, values, any     *)
(* arena capacity, and any routes: for any hash function.                  *)
(***************************************************************************)
EXTENDS HashTrie, TLAPS, FiniteSetTheorems

(***************************************************************************)
(* Routes.                                                                 *)
(***************************************************************************)

\* Sharing a prefix of the route is symmetric, transitive and inherited by
\* shorter prefixes.
LEMMA AgreeFacts ==
  ASSUME NEW a, NEW b, NEW c, NEW d \in Nat, NEW e \in 0..d
  PROVE  /\ Agree(a, b, d) => Agree(b, a, d)
         /\ Agree(a, b, d) /\ Agree(b, c, d) => Agree(a, c, d)
         /\ Agree(a, b, d) => Agree(a, b, e)
         /\ Agree(a, b, d) /\ Route[a][d] = Route[b][d] => Agree(a, b, d + 1)
         /\ Agree(a, b, d + 1) => Agree(a, b, d) /\ Route[a][d] = Route[b][d]
  BY DEF Agree

\* A published node is in a slot.
LEMMA PublishedFacts ==
  ASSUME TypeOK, Placed
  PROVE  /\ Published \subseteq Node
         /\ Null \notin Published
         /\ \A s \in Slots : slot[s] # Null => slot[s] \in Published
         /\ \A n \in Published :
              /\ \E s \in Slots : slot[s] = n /\ OnRoute(nkey[n], s, level[n])
              /\ n[2] <= used[n[1]] /\ nkey[n] \in Keys /\ nval[n] \in Values
              /\ level[n] \in Nat
  BY TrieAssumption DEF TypeOK, Placed, Published

\* The slot where a key is looked for at level d holds the node that owns the
\* key's prefix of length d + 1, if there is one.
LEMMA Lookup ==
  ASSUME TypeOK, Shape,
         NEW k \in Keys, NEW s \in Slots, NEW d \in Nat, OnRoute(k, s, d),
         NEW a \in Published, level[a] = d, Agree(k, nkey[a], d + 1)
  PROVE  slot[s] = a
<1>1. PICK r \in Slots : slot[r] = a /\ OnRoute(nkey[a], r, d)
  BY PublishedFacts DEF Shape
<1>2. s[2] = r[2] /\ Agree(k, nkey[a], d)
  BY <1>1, AgreeFacts DEF OnRoute
<1>3. s[1] = r[1]
  <2>1. CASE d = 0
    <3>1. \A n \in Published : level[n] + 1 # 0
      BY PublishedFacts DEF Shape
    <3>2. s[1] = Root /\ r[1] = Root
      BY <2>1, <1>1, <3>1 DEF OnRoute
    <3> QED BY <3>2
  <2>2. CASE d # 0
    <3>1. s[1] # Root /\ r[1] # Root
      BY <2>2, <1>1 DEF OnRoute
    <3>2. /\ s[1] \in Published /\ d = level[s[1]] + 1 /\ Agree(k, nkey[s[1]], d)
          /\ r[1] \in Published /\ d = level[r[1]] + 1 /\ Agree(nkey[a], nkey[r[1]], d)
      BY <3>1, <1>1 DEF OnRoute
    <3>3. Agree(nkey[s[1]], nkey[r[1]], d)
      <4>1. Agree(nkey[s[1]], k, d)
        BY <3>2, AgreeFacts
      <4>2. Agree(nkey[s[1]], nkey[a], d)
        BY <4>1, <1>2, AgreeFacts
      <4> QED BY <4>2, <3>2, AgreeFacts
    <3>4. level[s[1]] \in Nat /\ level[r[1]] \in Nat
      BY <3>2, PublishedFacts DEF Shape
    <3>5. level[s[1]] = level[r[1]] /\ level[r[1]] + 1 = d
      BY <3>2, <3>4
    <3> QED BY <3>2, <3>3, <3>5 DEF Shape, OnePerPrefix
  <2> QED BY <2>1, <2>2
<1>4. s = r
  BY <1>2, <1>3 DEF Slots
<1> QED BY <1>1, <1>4

\* A walk that finds its slot empty knows that no node at or below it, hence
\* by WalkOnRoute no published node, shares its prefix.
LEMMA EmptySlot ==
  ASSUME TypeOK, Shape, NEW t \in Threads, WalkOnRoute(t),
         pc[t] # "idle", slot[at[t]] = Null
  PROVE  /\ \A n \in Published : level[n] >= depth[t] =>
                  ~ Agree(key[t], nkey[n], depth[t] + 1)
         /\ Holders(key[t]) = {}
<1>0. depth[t] \in Nat /\ key[t] \in Keys /\ at[t] \in Slots
      /\ OnRoute(key[t], at[t], depth[t])
  BY DEF TypeOK, WalkOnRoute
<1>1. \A n \in Published : level[n] >= depth[t] =>
                  ~ Agree(key[t], nkey[n], depth[t] + 1)
  <2> SUFFICES ASSUME NEW n \in Published, level[n] >= depth[t],
                      Agree(key[t], nkey[n], depth[t] + 1)
               PROVE  FALSE
    OBVIOUS
  <2>1. level[n] \in Nat /\ depth[t] \in 0..level[n]
    BY <1>0, PublishedFacts DEF Shape
  <2>2. PICK a \in Published : level[a] = depth[t] /\ Agree(nkey[n], nkey[a], depth[t] + 1)
    BY <2>1 DEF Shape, NoGap
  <2>3. Agree(key[t], nkey[a], depth[t] + 1)
    BY <2>2, <1>0, AgreeFacts
  <2>4. slot[at[t]] = a
    BY <1>0, <2>2, <2>3, Lookup
  <2> QED BY <2>4, PublishedFacts DEF Shape
<1>2. ASSUME NEW n \in Published, nkey[n] = key[t]
      PROVE  FALSE
  <2>1. level[n] >= depth[t]
    BY <1>2 DEF WalkOnRoute
  <2>2. Agree(key[t], nkey[n], depth[t] + 1)
    BY <1>2 DEF Agree
  <2> QED BY <2>1, <2>2, <1>1
<1> QED BY <1>1, <1>2 DEF Holders
------------------------------------------------------------------------------
(***************************************************************************)
(* The inductive invariant.                                                *)
(***************************************************************************)
LEMMA InitInv == Init => IInv
<1> SUFFICES ASSUME Init PROVE IInv
  OBVIOUS
<1>1. TypeOK
  BY TrieAssumption DEF Init, TypeOK, Slots, Node
<1>2. Published = {}
  BY DEF Init, Published
<1>3. Shape
  BY <1>2 DEF Init, Shape, Placed, OnePerPrefix, NoGap, KeyOnce
<1>4. \A t \in Threads : WalkOnRoute(t) /\ AtLabel(t)
  BY DEF Init, WalkOnRoute, AtLabel
<1> QED BY <1>1, <1>3, <1>4 DEF IInv

\* Where the steps of a call happen.
LEMMA StepFacts ==
  ASSUME IInv, NEW t \in Threads, pc[t] # "idle"
  PROVE  /\ key[t] \in Keys /\ at[t] \in Slots /\ depth[t] \in 0..MaxDepth
         /\ used[t] \in 0..Capacity
         /\ pc[t] = "visit" => /\ cur[t] \in Published /\ cur[t] \in Node
                               /\ slot[at[t]] = cur[t]
                               /\ level[cur[t]] = depth[t]
                               /\ OnRoute(nkey[cur[t]], at[t], depth[t])
         /\ pc[t] = "cas"   => Fresh(t) \in Node
<1>1. key[t] \in Keys /\ at[t] \in Slots /\ depth[t] \in 0..MaxDepth /\ used[t] \in 0..Capacity
  BY DEF IInv, TypeOK, WalkOnRoute
<1>2. ASSUME pc[t] = "visit"
      PROVE  /\ cur[t] \in Published /\ cur[t] \in Node /\ slot[at[t]] = cur[t]
             /\ level[cur[t]] = depth[t] /\ OnRoute(nkey[cur[t]], at[t], depth[t])
  <2>1. cur[t] # Null /\ slot[at[t]] = cur[t]
    BY <1>2 DEF IInv, AtLabel
  <2>2. cur[t] \in Published /\ cur[t] \in Node
    BY <1>1, <2>1, PublishedFacts DEF IInv, Shape
  <2>3. OnRoute(nkey[cur[t]], at[t], level[cur[t]])
    BY <1>1, <2>1 DEF IInv, Shape, Placed
  <2>4. level[cur[t]] = depth[t]
    <3>1. OnRoute(key[t], at[t], depth[t])
      BY <1>2 DEF IInv, WalkOnRoute
    <3>2. \A n \in Published : level[n] + 1 # 0
      BY PublishedFacts DEF IInv, Shape
    <3> QED BY <3>1, <2>3 DEF OnRoute
  <2> QED BY <2>1, <2>2, <2>3, <2>4
<1>3. ASSUME pc[t] = "cas" PROVE Fresh(t) \in Node
  BY <1>1, <1>3, TrieAssumption DEF IInv, AtLabel, Fresh, Node
<1> QED BY <1>1, <1>2, <1>3

LEMMA TypeStep == IInv /\ [Next]_vars => TypeOK'
<1> SUFFICES ASSUME IInv, [Next]_vars PROVE TypeOK'
  OBVIOUS
<1> USE TrieAssumption DEF IInv, TypeOK, shared, args
<1>1. ASSUME NEW t \in Threads, NEW o \in {"put", "get"}, NEW k \in Keys,
             NEW v \in Values \cup {NoValue}, Begin(t, o, k, v)
      PROVE  TypeOK'
  <2>1. Route[k] \in [0..MaxDepth -> Branches] /\ 0 \in 0..MaxDepth
    OBVIOUS
  <2>2. <<Root, Route[k][0]>> \in Slots
    BY <2>1 DEF Slots
  <2> QED BY <1>1, <2>1, <2>2 DEF Begin
<1>2. ASSUME NEW t \in Threads, Step(t) PROVE TypeOK'
  <2>0. pc[t] # "idle"
    BY <1>2 DEF Step, LoadNode, GetMiss, GetHit, Descend, PutCreate, PutNoMemory,
                PutPublish, PutLoseRace, PutOverwrite
  <2>1. /\ key[t] \in Keys /\ at[t] \in Slots /\ depth[t] \in 0..MaxDepth
        /\ used[t] \in 0..Capacity
        /\ pc[t] = "visit" => cur[t] \in Node
        /\ pc[t] = "cas"   => Fresh(t) \in Node
    BY <2>0, StepFacts
  <2>2. CASE LoadNode(t)
    BY <2>1, <2>2 DEF LoadNode
  <2>3. CASE GetMiss(t)
    BY <2>1, <2>3 DEF GetMiss, Return, Replies
  <2>4. CASE GetHit(t)
    BY <2>1, <2>4 DEF GetHit, Return, Replies
  <2>5. CASE Descend(t)
    <3>1. depth[t] + 1 \in 0..MaxDepth /\ cur[t] \in Node
      BY <2>1, <2>5 DEF Descend
    <3>2. <<cur[t], Route[key[t]][depth[t] + 1]>> \in Slots
      BY <2>1, <3>1 DEF Slots
    <3> QED BY <2>5, <3>1, <3>2 DEF Descend
  <2>6. CASE PutCreate(t)
    <3>1. used[t] + 1 \in 0..Capacity
      BY <2>1, <2>6 DEF PutCreate
    <3> QED BY <2>1, <2>6, <3>1 DEF PutCreate
  <2>7. CASE PutNoMemory(t)
    BY <2>1, <2>7 DEF PutNoMemory, Return, Replies
  <2>8. CASE PutPublish(t)
    BY <2>1, <2>8 DEF PutPublish, Return, Replies
  <2>9. CASE PutLoseRace(t)
    BY <2>1, <2>9 DEF PutLoseRace
  <2>10. CASE PutOverwrite(t)
    BY <2>1, <2>10 DEF PutOverwrite, Return, Replies
  <2> QED BY <1>2, <2>2, <2>3, <2>4, <2>5, <2>6, <2>7, <2>8, <2>9, <2>10 DEF Step
<1>3. CASE UNCHANGED vars
  BY <1>3 DEF vars
<1> QED BY <1>1, <1>2, <1>3 DEF Next, PutBegin, GetBegin

\* A step that publishes nothing and leaves the published nodes' keys alone.
NothingPublished ==
  /\ slot' = slot
  /\ \A n \in Published : nkey'[n] = nkey[n] /\ level'[n] = level[n] /\ nval'[n] \in Values
  /\ \A t \in Threads : used'[t] >= used[t]

\* Thread u takes no part in the step, and its fresh node is not touched.
NotBy(u) ==
  /\ pc'[u] = pc[u] /\ op'[u] = op[u] /\ key'[u] = key[u] /\ val'[u] = val[u]
  /\ at'[u] = at[u] /\ depth'[u] = depth[u] /\ cur'[u] = cur[u]
  /\ pc[u] = "cas" => /\ Fresh(u)' = Fresh(u) /\ used'[u] = used[u]
                      /\ nkey'[Fresh(u)] = nkey[Fresh(u)]
                      /\ nval'[Fresh(u)] = nval[Fresh(u)]
                      /\ level'[Fresh(u)] = level[Fresh(u)]

\* Such a step keeps the shape of the trie ...
LEMMA ShapeKept ==
  ASSUME TypeOK, Shape, TypeOK', NothingPublished
  PROVE  /\ Shape' /\ Published' = Published
         /\ \A k, s, d : OnRoute(k, s, d)' <=> OnRoute(k, s, d)
<1>1. Published' = Published
  BY DEF NothingPublished, Published
<1>2. /\ \A a, b, d : Agree(a, b, d)' <=> Agree(a, b, d)
      /\ \A n \in Published : /\ nkey'[n] = nkey[n] /\ level'[n] = level[n]
                               /\ nval'[n] \in Values
      /\ slot' = slot
  BY DEF Agree, NothingPublished
<1>3. \A k, s, d : OnRoute(k, s, d)' <=> OnRoute(k, s, d)
  BY <1>1, <1>2 DEF OnRoute
<1>4. Placed'
  <2> SUFFICES ASSUME NEW s \in Slots, slot'[s] # Null
               PROVE  (LET n == slot[s] IN
                        /\ n[2] <= used[n[1]]
                        /\ nkey[n] \in Keys /\ nval[n] \in Values
                        /\ OnRoute(nkey[n], s, level[n]))'
    BY DEF Placed
  <2>0. slot'[s] = slot[s] /\ slot[s] # Null
    BY <1>2
  <2>1. slot[s] \in Published /\ slot[s] \in Node
    BY <2>0, PublishedFacts DEF Shape
  <2>2. OnRoute(nkey[slot[s]], s, level[slot[s]]) /\ nkey[slot[s]] \in Keys
    BY <2>0 DEF Shape, Placed
  <2>3. slot[s][2] <= used'[slot[s][1]]
    <3>1. slot[s][2] <= used[slot[s][1]] /\ slot[s][1] \in Threads /\ slot[s][2] \in Nat
      BY <2>0, <2>1 DEF Shape, Placed, Node
    <3> QED BY <3>1 DEF NothingPublished, TypeOK
  <2>4. nkey'[slot[s]] = nkey[slot[s]] /\ level'[slot[s]] = level[slot[s]] /\ nval'[slot[s]] \in Values
    BY <2>1, <1>2
  <2>5. OnRoute(nkey[slot[s]], s, level[slot[s]])'
    BY <2>0, <2>2, <2>4, <1>1, <1>2 DEF OnRoute
  <2> QED BY <2>0, <2>2, <2>3, <2>4, <2>5
<1>5. OnePerPrefix'
  BY <1>1, <1>2 DEF Shape, OnePerPrefix
<1>6. NoGap'
  BY <1>1, <1>2 DEF Shape, NoGap
<1>7. KeyOnce'
  BY <1>1, <1>2 DEF Shape, KeyOnce
<1> QED BY <1>1, <1>3, <1>4, <1>5, <1>6, <1>7 DEF Shape

\* ... and what the other threads know.
LEMMA OthersKept ==
  ASSUME TypeOK, Shape, TypeOK', NothingPublished,
         NEW u \in Threads, NotBy(u), WalkOnRoute(u), AtLabel(u)
  PROVE  WalkOnRoute(u)' /\ AtLabel(u)'
<1>1. /\ Published' = Published /\ slot' = slot
      /\ \A k, s, d : OnRoute(k, s, d)' <=> OnRoute(k, s, d)
      /\ \A n \in Published : nkey'[n] = nkey[n] /\ level'[n] = level[n]
  BY ShapeKept DEF NothingPublished
<1>2. OnRoute(key[u], at[u], depth[u]) => OnRoute(key[u], at[u], depth[u])'
  BY <1>1 DEF NotBy, OnRoute, Agree
<1>3. WalkOnRoute(u)'
  BY <1>1, <1>2 DEF WalkOnRoute, NotBy
<1>4. AtLabel(u)'
  BY <1>1 DEF AtLabel, NotBy
<1> QED BY <1>3, <1>4

\* A step of thread t that publishes nothing: the rest of the invariant follows
\* from what t knows afterwards.
LEMMA QuietStep ==
  ASSUME IInv, TypeOK', NothingPublished, NEW t \in Threads,
         \A u \in Threads \ {t} : NotBy(u),
         WalkOnRoute(t)', AtLabel(t)'
  PROVE  IInv'
<1>1. Shape'
  BY ShapeKept DEF IInv
<1>2. ASSUME NEW u \in Threads PROVE WalkOnRoute(u)' /\ AtLabel(u)'
  <2>1. CASE u = t
    BY <2>1
  <2>2. CASE u # t
    BY <2>2, OthersKept DEF IInv
  <2> QED BY <2>1, <2>2
<1> QED BY <1>1, <1>2 DEF IInv

\* Steps that leave shared memory alone.
LEMMA UnchangedShared ==
  ASSUME IInv, TypeOK', UNCHANGED shared
  PROVE  /\ NothingPublished
         /\ Published' = Published
         /\ \A k, s, d : OnRoute(k, s, d)' <=> OnRoute(k, s, d)
<1>1. \A n \in Published : nval[n] \in Values
  BY PublishedFacts DEF IInv, Shape
<1>2. NothingPublished
  BY <1>1 DEF NothingPublished, shared, IInv, TypeOK
<1> QED BY <1>2, ShapeKept DEF IInv

LEMMA BeginStep ==
  ASSUME IInv, TypeOK', NEW t \in Threads, PutBegin(t) \/ GetBegin(t)
  PROVE  IInv'
<1>1. PICK o \in {"put", "get"}, k \in Keys, v \in Values \cup {NoValue} :
         /\ Begin(t, o, k, v)
         /\ (o = "put" /\ v \in Values) \/ (o = "get" /\ v = NoValue)
  BY DEF PutBegin, GetBegin
<1>2. UNCHANGED shared
  BY <1>1 DEF Begin
<1>3. /\ pc'[t] = "load" /\ key'[t] = k /\ op'[t] = o /\ val'[t] = v
      /\ at'[t] = <<Root, Route[k][0]>> /\ depth'[t] = 0
  BY <1>1 DEF Begin, IInv, TypeOK
<1>4. \A u \in Threads \ {t} : NotBy(u)
  BY <1>1 DEF Begin, NotBy, shared, Fresh, IInv, TypeOK
<1>5. WalkOnRoute(t)'
  <2>1. \A n \in Published : level[n] \in Nat
    BY PublishedFacts DEF IInv, Shape
  <2>2. Published' = Published /\ level' = level
    BY <1>2, UnchangedShared DEF shared
  <2>3. at'[t] \in Slots
    <3>1. Route[k] \in [0..MaxDepth -> Branches] /\ 0 \in 0..MaxDepth
      BY TrieAssumption
    <3>2. Route[k][0] \in Branches
      BY <3>1
    <3>3. <<Root, Route[k][0]>> \in Slots
      BY <3>2 DEF Slots
    <3> QED BY <1>3, <3>3
  <2>4. OnRoute(key[t], at[t], depth[t])'
    BY <1>3 DEF OnRoute
  <2> QED BY <1>1, <1>3, <2>1, <2>2, <2>3, <2>4 DEF WalkOnRoute
<1>6. AtLabel(t)'
  BY <1>3 DEF AtLabel
<1> QED BY <1>2, <1>4, <1>5, <1>6, QuietStep, UnchangedShared

\* A call that returns knows nothing any more.
LEMMA ReturnStep ==
  ASSUME IInv, TypeOK', NothingPublished, NEW t \in Threads, NEW s, NEW v,
         Return(t, s, v),
         \A u \in Threads \ {t} : NotBy(u)
  PROVE  IInv'
<1>1. pc'[t] = "idle"
  BY DEF Return, IInv, TypeOK
<1>2. WalkOnRoute(t)' /\ AtLabel(t)'
  BY <1>1 DEF WalkOnRoute, AtLabel
<1> QED BY <1>2, QuietStep

\* The read-only returns: GetMiss, GetHit, PutNoMemory.
LEMMA ReadOnlyReturnStep ==
  ASSUME IInv, TypeOK', NEW t \in Threads, NEW s, NEW v, Return(t, s, v), UNCHANGED shared
  PROVE  IInv'
<1>1. \A u \in Threads \ {t} : NotBy(u)
  BY DEF Return, NotBy, shared, Fresh, IInv, TypeOK
<1> QED BY <1>1, ReturnStep, UnchangedShared

\* The slot turns out to hold a node: by a load, or by the CAS that lost.
LEMMA VisitStep ==
  ASSUME IInv, TypeOK', NEW t \in Threads, LoadNode(t) \/ PutLoseRace(t)
  PROVE  IInv'
<1>1. /\ UNCHANGED <<shared, args, at, depth>>
      /\ slot[at[t]] # Null /\ pc[t] # "idle"
      /\ cur' = [cur EXCEPT ![t] = slot[at[t]]] /\ pc' = [pc EXCEPT ![t] = "visit"]
  BY DEF LoadNode, PutLoseRace
<1>2. pc'[t] = "visit" /\ cur'[t] = slot[at[t]]
  BY <1>1 DEF IInv, TypeOK
<1>3. \A u \in Threads \ {t} : NotBy(u)
  BY <1>1 DEF NotBy, shared, args, Fresh, IInv, TypeOK
<1>4. /\ Published' = Published /\ NothingPublished
      /\ \A k, s, d : OnRoute(k, s, d)' <=> OnRoute(k, s, d)
  BY <1>1, UnchangedShared DEF shared
<1>5. OnRoute(key[t], at[t], depth[t])'
  BY <1>1, <1>4 DEF IInv, WalkOnRoute, args, OnRoute, Agree, shared
<1>6. WalkOnRoute(t)'
  BY <1>1, <1>4, <1>5 DEF IInv, WalkOnRoute, args, shared
<1>7. AtLabel(t)'
  BY <1>1, <1>2 DEF AtLabel, shared, args
<1> QED BY <1>3, <1>4, <1>6, <1>7, QuietStep

LEMMA DescendStep ==
  ASSUME IInv, TypeOK', NEW t \in Threads, Descend(t)
  PROVE  IInv'
<1>1. /\ UNCHANGED <<shared, args>> /\ pc[t] = "visit" /\ nkey[cur[t]] # key[t]
      /\ pc'[t] = "load" /\ depth'[t] = depth[t] + 1
      /\ at'[t] = <<cur[t], Route[key[t]][depth[t] + 1]>>
  BY DEF Descend, IInv, TypeOK
<1>2. /\ cur[t] \in Published /\ cur[t] \in Node /\ slot[at[t]] = cur[t]
      /\ level[cur[t]] = depth[t] /\ OnRoute(nkey[cur[t]], at[t], depth[t])
      /\ depth[t] \in Nat /\ key[t] \in Keys
  BY <1>1, StepFacts
<1>3. \A u \in Threads \ {t} : NotBy(u)
  BY DEF Descend, NotBy, shared, args, Fresh, IInv, TypeOK
<1>4. /\ Published' = Published /\ NothingPublished
      /\ nkey' = nkey /\ level' = level /\ key' = key
  BY <1>1, UnchangedShared DEF shared, args
<1>5. Agree(key[t], nkey[cur[t]], depth[t] + 1)
  <2>1. OnRoute(key[t], at[t], depth[t])
    BY <1>1 DEF IInv, WalkOnRoute
  <2>2. Route[key[t]][depth[t]] = Route[nkey[cur[t]]][depth[t]]
    BY <2>1, <1>2 DEF OnRoute
  <2>3. Agree(key[t], nkey[cur[t]], depth[t])
    <3>1. CASE at[t][1] = Root
      BY <3>1, <2>1 DEF OnRoute, Agree
    <3>2. CASE at[t][1] # Root
      <4>1. Agree(key[t], nkey[at[t][1]], depth[t]) /\ Agree(nkey[cur[t]], nkey[at[t][1]], depth[t])
        BY <3>2, <2>1, <1>2 DEF OnRoute
      <4> QED BY <4>1, <1>2, AgreeFacts
    <3> QED BY <3>1, <3>2
  <2> QED BY <2>2, <2>3, <1>2, AgreeFacts
<1>6. cur[t] # Root
  BY <1>2, TrieAssumption DEF Node
<1>7. OnRoute(key[t], at[t], depth[t])'
  BY <1>1, <1>2, <1>4, <1>5, <1>6 DEF OnRoute, Agree
<1>8. \A n \in Published : nkey[n] = key[t] => level[n] >= depth[t] + 1
  <2> SUFFICES ASSUME NEW n \in Published, nkey[n] = key[t], level[n] = depth[t]
               PROVE  FALSE
    <3>1. \A n \in Published : nkey[n] = key[t] => level[n] >= depth[t] /\ level[n] \in Nat
      BY <1>1, PublishedFacts DEF IInv, Shape, WalkOnRoute
    <3> QED BY <3>1, <1>2
  <2>1. n = cur[t]
    BY <1>2, <1>5, AgreeFacts DEF IInv, Shape, OnePerPrefix, Agree
  <2> QED BY <2>1, <1>1
<1>9. WalkOnRoute(t)'
  <2>1. at'[t] \in Slots
    <3>1. depth[t] + 1 \in 0..MaxDepth
      BY <1>1 DEF TypeOK
    <3>2. Route[key[t]] \in [0..MaxDepth -> Branches]
      BY <1>2, TrieAssumption
    <3>3. Route[key[t]][depth[t] + 1] \in Branches
      BY <3>1, <3>2
    <3>4. <<cur[t], Route[key[t]][depth[t] + 1]>> \in Slots
      BY <1>2, <3>3 DEF Slots
    <3> QED BY <1>1, <3>4
  <2> QED BY <1>1, <1>2, <1>4, <1>7, <1>8, <2>1 DEF IInv, WalkOnRoute, args
<1>10. AtLabel(t)'
  BY <1>1 DEF AtLabel
<1> QED BY <1>3, <1>4, <1>9, <1>10, QuietStep

LEMMA CreateStep ==
  ASSUME IInv, TypeOK', NEW t \in Threads, PutCreate(t)
  PROVE  IInv'
<1> DEFINE n == <<t, used[t] + 1>>
<1>1. /\ slot' = slot /\ UNCHANGED <<args, at, depth, cur>>
      /\ pc[t] = "load" /\ op[t] = "put" /\ used[t] < Capacity /\ used[t] \in Nat
      /\ used' = [used EXCEPT ![t] = @ + 1]
      /\ nkey' = [nkey EXCEPT ![n] = key[t]] /\ nval' = [nval EXCEPT ![n] = val[t]]
      /\ level' = [level EXCEPT ![n] = depth[t]] /\ pc' = [pc EXCEPT ![t] = "cas"]
  BY DEF PutCreate, IInv, TypeOK
<1>2. n \in Node /\ n \notin Published
  <2>1. n \in Node
    BY <1>1, TrieAssumption DEF Node
  <2>2. n \in Published => n[2] <= used[n[1]]
    BY PublishedFacts DEF IInv, Shape
  <2> QED BY <1>1, <2>1, <2>2
<1>3. \A m \in Published : nkey'[m] = nkey[m] /\ level'[m] = level[m] /\ nval'[m] = nval[m]
  BY <1>1, <1>2, PublishedFacts DEF IInv, TypeOK, Shape
<1>4. NothingPublished
  <2>1. \A m \in Published : nval'[m] \in Values
    BY <1>3, PublishedFacts DEF IInv, Shape
  <2>2. \A u \in Threads : used'[u] >= used[u]
    BY <1>1 DEF IInv, TypeOK
  <2> QED BY <1>1, <1>3, <2>1, <2>2 DEF NothingPublished
<1>5. \A u \in Threads \ {t} : NotBy(u)
  <2> SUFFICES ASSUME NEW u \in Threads \ {t} PROVE NotBy(u)
    OBVIOUS
  <2>1. Fresh(u) # n /\ used'[u] = used[u] /\ pc'[u] = pc[u]
    BY <1>1 DEF Fresh, IInv, TypeOK
  <2>2. pc[u] = "cas" => Fresh(u) \in Node
    BY StepFacts
  <2>3. pc[u] = "cas" => /\ nkey'[Fresh(u)] = nkey[Fresh(u)] /\ nval'[Fresh(u)] = nval[Fresh(u)]
                         /\ level'[Fresh(u)] = level[Fresh(u)] /\ Fresh(u)' = Fresh(u)
    BY <1>1, <2>1, <2>2 DEF IInv, TypeOK, Fresh
  <2> QED BY <1>1, <2>1, <2>3 DEF NotBy, args
<1>6. /\ Published' = Published
      /\ pc'[t] = "cas" /\ used'[t] = used[t] + 1 /\ Fresh(t)' = n
  BY <1>1, <1>4, ShapeKept DEF IInv, TypeOK, Fresh
<1>7. WalkOnRoute(t)'
  <2>1. OnRoute(key[t], at[t], depth[t])
    BY <1>1 DEF IInv, WalkOnRoute
  <2>2. OnRoute(key[t], at[t], depth[t])'
    BY <2>1, <1>1, <1>3, <1>6 DEF OnRoute, Agree, args
  <2> QED BY <1>1, <1>3, <1>6, <2>2 DEF IInv, WalkOnRoute, args
<1>8. AtLabel(t)'
  <2>1. nkey'[n] = key[t] /\ nval'[n] = val[t] /\ level'[n] = depth[t]
    BY <1>1, <1>2 DEF IInv, TypeOK
  <2>2. Fresh(t)' \notin Published' /\ op'[t] = "put" /\ used'[t] > 0
    BY <1>1, <1>2, <1>6 DEF args
  <2>3. nkey'[Fresh(t)'] = key'[t] /\ nval'[Fresh(t)'] = val'[t] /\ level'[Fresh(t)'] = depth'[t]
    BY <1>1, <1>6, <2>1 DEF args
  <2> QED BY <1>6, <2>2, <2>3 DEF AtLabel
<1> QED BY <1>4, <1>5, <1>7, <1>8, QuietStep

LEMMA OverwriteStep ==
  ASSUME IInv, TypeOK', NEW t \in Threads, PutOverwrite(t)
  PROVE  IInv'
<1>1. /\ pc[t] = "visit" /\ op[t] = "put" /\ nval' = [nval EXCEPT ![cur[t]] = val[t]]
      /\ UNCHANGED <<slot, nkey, level, used>> /\ Return(t, "OK", NoValue)
  BY DEF PutOverwrite
<1>2. cur[t] \in Published /\ cur[t] \in Node /\ val[t] \in Values
  BY <1>1, StepFacts DEF IInv, WalkOnRoute
<1>3. NothingPublished
  <2>1. \A n \in Published : nval'[n] \in Values
    BY <1>1, <1>2, PublishedFacts DEF IInv, TypeOK, Shape
  <2> QED BY <1>1, <2>1 DEF NothingPublished, IInv, TypeOK
<1>4. \A u \in Threads \ {t} : NotBy(u)
  <2> SUFFICES ASSUME NEW u \in Threads \ {t} PROVE NotBy(u)
    OBVIOUS
  <2>1. pc[u] = "cas" => Fresh(u) \in Node /\ Fresh(u) \notin Published
    BY StepFacts DEF IInv, AtLabel
  <2>2. pc[u] = "cas" => nval'[Fresh(u)] = nval[Fresh(u)]
    BY <1>1, <1>2, <2>1 DEF IInv, TypeOK
  <2> QED BY <1>1, <2>2 DEF NotBy, Return, Fresh, IInv, TypeOK
<1> QED BY <1>1, <1>3, <1>4, ReturnStep

\* The step that publishes.  The empty slot proves that nothing at or below it
\* was published (EmptySlot), so the new node is alone on its prefix.
LEMMA PublishStep ==
  ASSUME IInv, TypeOK', NEW t \in Threads, PutPublish(t)
  PROVE  IInv'
<1> DEFINE n == Fresh(t)
           k == key[t]
           l == depth[t]
<1>1. /\ pc[t] = "cas" /\ slot[at[t]] = Null /\ slot' = [slot EXCEPT ![at[t]] = n]
      /\ UNCHANGED <<nkey, nval, level, used>> /\ Return(t, "OK", NoValue)
  BY DEF PutPublish
<1>2. /\ n \in Node /\ n \notin Published /\ n # Null
      /\ nkey[n] = k /\ nval[n] = val[t] /\ level[n] = l
      /\ k \in Keys /\ val[t] \in Values /\ l \in Nat /\ at[t] \in Slots
      /\ OnRoute(k, at[t], l) /\ n[2] <= used[n[1]]
  <2>1. n \in Node /\ k \in Keys /\ l \in Nat /\ at[t] \in Slots
    BY <1>1, StepFacts
  <2>2. n[2] <= used[n[1]]
    BY DEF Fresh, IInv, TypeOK
  <2> QED BY <1>1, <2>1, <2>2, TrieAssumption DEF IInv, AtLabel, WalkOnRoute, Node
<1>3. Published' = Published \cup {n}
  <2>1. \A s \in Slots : slot'[s] = IF s = at[t] THEN n ELSE slot[s]
    BY <1>1 DEF IInv, TypeOK
  <2> QED BY <2>1, <1>1, <1>2 DEF Published
<1>4. /\ \A m \in Published : level[m] >= l => ~ Agree(k, nkey[m], l + 1)
      /\ \A m \in Published : nkey[m] # k
      /\ \A m \in Published : level[m] \in Nat
  BY <1>1, EmptySlot, PublishedFacts DEF IInv, Shape, Holders
<1>5. \A a, s, d : OnRoute(a, s, d) => OnRoute(a, s, d)'
  BY <1>1, <1>3 DEF OnRoute, Agree
<1>6. Placed'
  <2> SUFFICES ASSUME NEW s \in Slots, slot'[s] # Null
               PROVE  (LET m == slot[s] IN
                        /\ m[2] <= used[m[1]]
                        /\ nkey[m] \in Keys /\ nval[m] \in Values
                        /\ OnRoute(nkey[m], s, level[m]))'
    BY DEF Placed
  <2>1. CASE s = at[t]
    <3>1. slot'[s] = n
      BY <1>1, <1>2, <2>1 DEF IInv, TypeOK
    <3>2. OnRoute(nkey[n], s, level[n])
      BY <1>2, <2>1
    <3>3. OnRoute(nkey'[slot'[s]], s, level'[slot'[s]])
      BY <1>1, <3>1, <3>2
    <3>4. OnRoute(nkey[slot[s]], s, level[slot[s]])'
      BY <3>3, <1>1, <1>3 DEF OnRoute, Agree
    <3> QED BY <1>1, <1>2, <3>1, <3>4
  <2>2. CASE s # at[t]
    <3>1. slot'[s] = slot[s] /\ slot[s] # Null
      BY <1>1, <2>2 DEF IInv, TypeOK
    <3>2. OnRoute(nkey[slot[s]], s, level[slot[s]])
      BY <3>1 DEF IInv, Shape, Placed
    <3>3. OnRoute(nkey[slot[s]], s, level[slot[s]])'
      BY <3>1, <3>2, <1>1, <1>3 DEF OnRoute, Agree
    <3> QED BY <1>1, <3>1, <3>3 DEF IInv, Shape, Placed
  <2> QED BY <2>1, <2>2
<1>7. OnePerPrefix'
  <2> SUFFICES ASSUME NEW a \in Published', NEW b \in Published',
                      level[a] = level[b], Agree(nkey[a], nkey[b], level[b] + 1)
               PROVE  a = b
    BY <1>1 DEF OnePerPrefix, Agree
  <2>1. CASE a \in Published /\ b \in Published
    BY <2>1 DEF IInv, Shape, OnePerPrefix
  <2>2. CASE a = n /\ b \in Published
    BY <2>2, <1>2, <1>4
  <2>3. CASE a \in Published /\ b = n
    <3>1. Agree(nkey[b], nkey[a], l + 1)
      BY <2>3, <1>2 DEF Agree
    <3> QED BY <2>3, <3>1, <1>2, <1>4
  <2> QED BY <2>1, <2>2, <2>3, <1>3
<1>8. NoGap'
  <2> SUFFICES ASSUME NEW m \in Published', NEW d \in 0..level[m]
               PROVE  \E a \in Published' : level[a] = d /\ Agree(nkey[m], nkey[a], d + 1)
    BY <1>1 DEF NoGap, Agree
  <2>1. CASE m \in Published
    BY <2>1, <1>3 DEF IInv, Shape, NoGap
  <2>2. CASE m = n /\ d = l
    BY <2>2, <1>2, <1>3 DEF Agree
  <2>3. CASE m = n /\ d # l
    <3> DEFINE p == at[t][1]
    <3>1. d \in 0..(l - 1) /\ d \in Nat
      BY <2>3, <1>2
    <3>2. p \in Published /\ l = level[p] + 1 /\ Agree(k, nkey[p], l)
      BY <3>1, <1>2 DEF OnRoute
    <3>3. d \in 0..level[p] /\ level[p] \in Nat
      BY <3>1, <3>2, <1>4
    <3>4. PICK a \in Published : level[a] = d /\ Agree(nkey[p], nkey[a], d + 1)
      BY <3>2, <3>3 DEF IInv, Shape, NoGap
    <3>5. Agree(k, nkey[a], d + 1)
      BY <3>1, <3>2, <3>4, <1>2 DEF Agree
    <3> QED BY <3>4, <3>5, <2>3, <1>2, <1>3
  <2> QED BY <2>1, <2>2, <2>3, <1>3
<1>9. KeyOnce'
  BY <1>1, <1>2, <1>3, <1>4 DEF IInv, Shape, KeyOnce
<1>10. ASSUME NEW u \in Threads \ {t}
       PROVE  WalkOnRoute(u)' /\ AtLabel(u)'
  <2>1. /\ pc'[u] = pc[u] /\ op'[u] = op[u] /\ key'[u] = key[u] /\ val'[u] = val[u]
        /\ at'[u] = at[u] /\ depth'[u] = depth[u] /\ cur'[u] = cur[u] /\ used' = used
    BY <1>1 DEF Return, IInv, TypeOK
  <2>2. WalkOnRoute(u)'
    <3> SUFFICES ASSUME pc[u] # "idle" PROVE WalkOnRoute(u)'
      BY <2>1 DEF WalkOnRoute
    <3>1. WalkOnRoute(u) /\ OnRoute(key[u], at[u], depth[u]) /\ depth[u] \in Nat
      BY DEF IInv, WalkOnRoute, TypeOK
    <3>2. OnRoute(key[u], at[u], depth[u])'
      BY <3>1, <2>1, <1>1, <1>3 DEF OnRoute, Agree
    <3>3. ASSUME k = key[u], l < depth[u] PROVE FALSE
      <4> DEFINE p == at[u][1]
      <4>1. p \in Published /\ depth[u] = level[p] + 1 /\ Agree(k, nkey[p], depth[u])
        BY <3>1, <3>3, <1>2 DEF OnRoute
      <4>2. level[p] \in Nat /\ level[p] >= l /\ l \in 0..level[p]
        BY <4>1, <3>3, <1>2, <1>4
      <4>3. PICK a \in Published : level[a] = l /\ Agree(nkey[p], nkey[a], l + 1)
        BY <4>1, <4>2 DEF IInv, Shape, NoGap
      <4>4. Agree(k, nkey[a], l + 1)
        BY <4>1, <4>2, <4>3, <1>2 DEF Agree
      <4> QED BY <4>3, <4>4, <1>2, <1>4
    <3>4. \A m \in Published' : nkey[m] = key[u] => level[m] >= depth[u]
      BY <3>1, <3>3, <1>2, <1>3 DEF WalkOnRoute
    <3> QED BY <3>1, <3>2, <3>4, <2>1, <1>1 DEF WalkOnRoute
  <2>3. AtLabel(u)'
    <3>1. pc[u] = "visit" => cur[u] # Null /\ slot'[at[u]] = cur[u]
      <4> SUFFICES ASSUME pc[u] = "visit" PROVE cur[u] # Null /\ slot'[at[u]] = cur[u]
        OBVIOUS
      <4>1. cur[u] # Null /\ slot[at[u]] = cur[u] /\ at[u] \in Slots
        BY DEF IInv, AtLabel, WalkOnRoute
      <4> QED BY <4>1, <1>1 DEF IInv, TypeOK
    <3>2. pc[u] = "cas" => Fresh(u) \notin Published' /\ Fresh(u)' = Fresh(u)
      BY <1>3, <2>1 DEF IInv, AtLabel, Fresh
    <3>3. AtLabel(u)
      BY DEF IInv
    <3> QED BY <3>1, <3>2, <3>3, <2>1, <1>1 DEF AtLabel
  <2> QED BY <2>2, <2>3
<1>11. WalkOnRoute(t)' /\ AtLabel(t)'
  BY <1>1 DEF Return, WalkOnRoute, AtLabel, IInv, TypeOK
<1>12. \A u \in Threads : WalkOnRoute(u)' /\ AtLabel(u)'
  BY <1>10, <1>11
<1> QED BY <1>6, <1>7, <1>8, <1>9, <1>12 DEF IInv, Shape

LEMMA NextInv == IInv /\ [Next]_vars => IInv'
<1> SUFFICES ASSUME IInv, [Next]_vars PROVE IInv'
  OBVIOUS
<1>0. TypeOK'
  BY TypeStep
<1>1. ASSUME NEW t \in Threads, PutBegin(t) \/ GetBegin(t) PROVE IInv'
  BY <1>0, <1>1, BeginStep
<1>2. ASSUME NEW t \in Threads, Step(t) PROVE IInv'
  <2>1. CASE LoadNode(t) \/ PutLoseRace(t)
    BY <1>0, <2>1, VisitStep
  <2>2. CASE GetMiss(t)
    BY <1>0, <2>2, ReadOnlyReturnStep DEF GetMiss
  <2>3. CASE GetHit(t)
    BY <1>0, <2>3, ReadOnlyReturnStep DEF GetHit
  <2>4. CASE PutNoMemory(t)
    BY <1>0, <2>4, ReadOnlyReturnStep DEF PutNoMemory
  <2>5. CASE Descend(t)
    BY <1>0, <2>5, DescendStep
  <2>6. CASE PutCreate(t)
    BY <1>0, <2>6, CreateStep
  <2>7. CASE PutPublish(t)
    BY <1>0, <2>7, PublishStep
  <2>8. CASE PutOverwrite(t)
    BY <1>0, <2>8, OverwriteStep
  <2> QED BY <1>2, <2>1, <2>2, <2>3, <2>4, <2>5, <2>6, <2>7, <2>8 DEF Step
<1>3. CASE UNCHANGED vars
  <2>1. UNCHANGED shared /\ \A u \in Threads : NotBy(u)
    BY <1>3 DEF vars, shared, NotBy, Fresh
  <2>2. Shape' /\ \A u \in Threads : WalkOnRoute(u)' /\ AtLabel(u)'
    BY <1>0, <2>1, UnchangedShared, ShapeKept, OthersKept DEF IInv
  <2> QED BY <1>0, <2>2 DEF IInv
<1> QED BY <1>1, <1>2, <1>3 DEF Next

\* The inductive invariant holds: the trie is a tree in which every node is on
\* its key's route, and every walk of rgHashTriePut and rgHashTrieGet is too.
THEOREM TrieInvariant == Spec => []IInv
<1>1. Init => IInv
  BY InitInv
<1>2. IInv /\ [Next]_vars => IInv'
  BY NextInv
<1> QED BY <1>1, <1>2, PTL DEF Spec

\* Type correctness of the trie's words and of the threads' locals.
THEOREM TypeCorrect == Spec => []TypeOK
<1>1. IInv => TypeOK
  BY DEF IInv
<1> QED BY <1>1, TrieInvariant, PTL

\* No interleaving of Puts publishes a key twice.
THEOREM KeysAreUnique == Spec => []UniqueKeys
<1>1. ASSUME IInv PROVE UniqueKeys
  <2> SUFFICES ASSUME NEW k \in Keys PROVE Cardinality(Holders(k)) <= 1
    BY DEF UniqueKeys
  <2>1. CASE Holders(k) = {}
    BY <2>1, FS_EmptySet
  <2>2. CASE Holders(k) # {}
    <3>1. PICK n : n \in Holders(k)
      BY <2>2
    <3>2. Holders(k) = {n}
      BY <1>1, <3>1 DEF IInv, Shape, KeyOnce, Holders
    <3> QED BY <3>2, FS_Singleton
  <2> QED BY <2>1, <2>2
<1> QED BY <1>1, TrieInvariant, PTL

\* A slot that holds a node holds it forever: the invariant that makes tags and
\* generations unnecessary.
THEOREM PublishedNodesStay == Spec => PublishedStays
<1>1. IInv /\ [Next]_vars => [\A s \in Slots : slot[s] # Null => slot'[s] = slot[s]]_vars
  <2> SUFFICES ASSUME IInv, Next, NEW s \in Slots, slot[s] # Null PROVE slot'[s] = slot[s]
    OBVIOUS
  <2>1. PICK t \in Threads : PutBegin(t) \/ GetBegin(t) \/ Step(t)
    BY DEF Next
  <2>2. CASE PutPublish(t)
    BY <2>2 DEF PutPublish, IInv, TypeOK
  <2>3. CASE ~ PutPublish(t)
    <3>1. slot' = slot
      BY <2>1, <2>3 DEF PutBegin, GetBegin, Begin, Step, LoadNode, GetMiss, GetHit, Descend,
                        PutCreate, PutNoMemory, PutLoseRace, PutOverwrite, shared
    <3> QED BY <3>1
  <2> QED BY <2>2, <2>3
<1> QED BY <1>1, TrieInvariant, PTL DEF Spec, PublishedStays
------------------------------------------------------------------------------
(***************************************************************************)
(* The trie implements the atomic map.  A Put takes effect when its CAS    *)
(* publishes the node or its store overwrites the value; a Get, and a Put  *)
(* that fails, at the load that decides it.                                *)
(***************************************************************************)

\* The value of a key is in the node that holds it.
LEMMA MapFacts ==
  ASSUME IInv, NEW k \in Keys
  PROVE  /\ Holders(k) = {} => MapOf[k] = NoValue
         /\ \A n \in Published : nkey[n] = k =>
              /\ Holders(k) = {n} /\ MapOf[k] = nval[n] /\ MapOf[k] # NoValue
<1>1. ASSUME NEW n \in Published, nkey[n] = k PROVE Holders(k) = {n}
  BY <1>1 DEF Holders, IInv, Shape, KeyOnce
<1>2. \A n \in Published : nval[n] \in Values
  BY PublishedFacts DEF IInv, Shape
<1>3. \A n : (CHOOSE m \in {n} : TRUE) = n
  OBVIOUS
<1>4. ASSUME NEW n \in Published, nkey[n] = k
      PROVE  MapOf[k] = nval[n] /\ MapOf[k] # NoValue
  BY <1>1, <1>2, <1>3, <1>4, TrieAssumption DEF MapOf
<1>5. Holders(k) = {} => MapOf[k] = NoValue
  BY DEF MapOf
<1> QED BY <1>1, <1>4, <1>5

LEMMA MapKept ==
  ASSUME IInv, slot' = slot,
         \A n \in Published : nkey'[n] = nkey[n] /\ nval'[n] = nval[n]
  PROVE  MapOf' = MapOf
<1>1. Published' = Published
  BY DEF Published
<1>2. ASSUME NEW k \in Keys PROVE MapOf'[k] = MapOf[k]
  <2>1. Holders(k)' = Holders(k) /\ Holders(k) \subseteq Published
    BY <1>1 DEF Holders
  <2>2. CASE Holders(k) = {}
    BY <2>1, <2>2 DEF MapOf
  <2>3. CASE Holders(k) # {}
    <3>1. (CHOOSE n \in Holders(k) : TRUE) \in Published
      BY <2>1, <2>3
    <3> QED BY <2>1, <2>3, <3>1 DEF MapOf
  <2> QED BY <2>2, <2>3
<1> QED BY <1>2 DEF MapOf

\* The return of a call is the answer of the abstract map.
LEMMA AnswerStep ==
  ASSUME IInv, NEW t \in Threads, NEW s, NEW v, Return(t, s, v)
  PROVE  Abs!Answer(t, s, v)
<1>1. /\ pc'[t] = "idle"
      /\ \A u \in Threads \ {t} : /\ pc'[u] = pc[u] /\ op'[u] = op[u]
                                 /\ key'[u] = key[u] /\ val'[u] = val[u]
  BY DEF Return, IInv, TypeOK
<1>2. \A u \in Threads : CallOf'[u] = IF u = t THEN Null ELSE CallOf[u]
  BY <1>1 DEF CallOf
<1>3. CallOf' = [CallOf EXCEPT ![t] = Null]
  BY <1>2 DEF CallOf
<1>4. reply' = [reply EXCEPT ![t] = [status |-> s, val |-> v]]
  BY DEF Return
<1> QED BY <1>3, <1>4 DEF Abs!Answer

\* A thread inside a call is inside the same call of the abstract map.
LEMMA CallFacts ==
  ASSUME IInv, NEW t \in Threads, pc[t] # "idle"
  PROVE  /\ CallOf[t] # Null /\ CallOf[t].op = op[t]
         /\ CallOf[t].key = key[t] /\ CallOf[t].val = val[t]
         /\ key[t] \in Keys
<1>1. CallOf[t] = [op |-> op[t], key |-> key[t], val |-> val[t]]
  BY DEF CallOf
<1>2. CallOf[t] \in Abs!Calls /\ key[t] \in Keys
  BY <1>1 DEF Abs!Calls, IInv, WalkOnRoute
<1>3. CallOf[t] \in [op : {"put", "get"}, key : Keys, val : Values \cup {NoValue}]
  BY <1>2 DEF Abs!Calls
<1> QED BY <1>1, <1>2, <1>3, TrieAssumption

LEMMA InvokeStep ==
  ASSUME IInv, NEW t \in Threads, PutBegin(t) \/ GetBegin(t)
  PROVE  Abs!Next
<1>1. PICK o \in {"put", "get"}, k \in Keys, v \in Values \cup {NoValue} :
         /\ Begin(t, o, k, v)
         /\ (o = "put" /\ v \in Values) \/ (o = "get" /\ v = NoValue)
  BY DEF PutBegin, GetBegin
<1> DEFINE c == [op |-> o, key |-> k, val |-> v]
<1>2. c \in Abs!Calls
  BY <1>1 DEF Abs!Calls
<1>3. \A u \in Threads : CallOf'[u] = IF u = t THEN c ELSE CallOf[u]
  BY <1>1 DEF CallOf, Begin, IInv, TypeOK
<1>4. CallOf' = [CallOf EXCEPT ![t] = c] /\ CallOf[t] = Null
  BY <1>1, <1>3 DEF CallOf, Begin
<1>5. MapOf' = MapOf
  BY <1>1, MapKept DEF Begin, shared
<1>6. Abs!Invoke(t, c)
  BY <1>1, <1>4, <1>5 DEF Abs!Invoke, Begin
<1> QED BY <1>2, <1>6 DEF Abs!Next

LEMMA AbsStep ==
  ASSUME IInv, IInv', NEW t \in Threads, Step(t)
  PROVE  Abs!Next \/ UNCHANGED <<MapOf, CallOf, reply>>
<1>0. pc[t] # "idle"
  BY DEF Step, LoadNode, GetMiss, GetHit, Descend, PutCreate, PutNoMemory,
         PutPublish, PutLoseRace, PutOverwrite
<1>1. CASE LoadNode(t) \/ PutLoseRace(t) \/ Descend(t)
  <2>1. MapOf' = MapOf
    BY <1>1, MapKept DEF LoadNode, PutLoseRace, Descend, shared
  <2>2. \A u \in Threads : CallOf'[u] = CallOf[u]
    BY <1>1, <1>0 DEF LoadNode, PutLoseRace, Descend, args, CallOf, IInv, TypeOK
  <2>3. CallOf' = CallOf /\ reply' = reply
    BY <1>1, <2>2 DEF CallOf, LoadNode, PutLoseRace, Descend
  <2> QED BY <2>1, <2>3
<1>2. CASE PutCreate(t)
  <2>1. \A n \in Published : n # <<t, used[t] + 1>>
    <3>1. \A n \in Published : n[2] <= used[n[1]]
      BY PublishedFacts DEF IInv, Shape
    <3> QED BY <3>1 DEF IInv, TypeOK
  <2>2. \A n \in Published : nkey'[n] = nkey[n] /\ nval'[n] = nval[n]
    BY <1>2, <2>1, PublishedFacts DEF PutCreate, IInv, Shape, TypeOK
  <2>3. MapOf' = MapOf
    BY <1>2, <2>2, MapKept DEF PutCreate
  <2>4. \A u \in Threads : CallOf'[u] = CallOf[u]
    BY <1>2, <1>0 DEF PutCreate, args, CallOf, IInv, TypeOK
  <2>5. CallOf' = CallOf /\ reply' = reply
    BY <1>2, <2>4 DEF CallOf, PutCreate
  <2> QED BY <2>3, <2>5
<1>3. CASE GetMiss(t)
  <2>1. MapOf[key[t]] = NoValue
    BY <1>3, <1>0, EmptySlot, MapFacts, CallFacts DEF GetMiss, IInv
  <2>2. MapOf' = MapOf
    BY <1>3, MapKept DEF GetMiss, shared
  <2>3. Abs!GetMiss(t)
    BY <1>3, <1>0, <2>1, <2>2, CallFacts, AnswerStep DEF GetMiss, Abs!GetMiss
  <2> QED BY <2>3 DEF Abs!Next
<1>4. CASE PutNoMemory(t)
  <2>1. MapOf[key[t]] = NoValue
    BY <1>4, <1>0, EmptySlot, MapFacts, CallFacts DEF PutNoMemory, IInv
  <2>2. MapOf' = MapOf
    BY <1>4, MapKept DEF PutNoMemory, shared
  <2>3. Abs!PutFails(t)
    BY <1>4, <1>0, <2>1, <2>2, CallFacts, AnswerStep DEF PutNoMemory, Abs!PutFails
  <2> QED BY <2>3 DEF Abs!Next
<1>5. CASE GetHit(t)
  <2>1. cur[t] \in Published /\ nkey[cur[t]] = key[t]
    BY <1>5, <1>0, StepFacts DEF GetHit
  <2>2. MapOf[key[t]] = nval[cur[t]] /\ MapOf[key[t]] # NoValue
    BY <1>0, <2>1, MapFacts, CallFacts
  <2>3. MapOf' = MapOf
    BY <1>5, MapKept DEF GetHit, shared
  <2>4. Abs!GetHit(t)
    BY <1>5, <1>0, <2>2, <2>3, CallFacts, AnswerStep DEF GetHit, Abs!GetHit
  <2> QED BY <2>4 DEF Abs!Next
<1>6. CASE PutOverwrite(t)
  <2>1. cur[t] \in Published /\ cur[t] \in Node /\ nkey[cur[t]] = key[t] /\ key[t] \in Keys
    BY <1>6, <1>0, StepFacts DEF PutOverwrite
  <2>2. slot' = slot /\ nkey' = nkey /\ nval' = [nval EXCEPT ![cur[t]] = val[t]]
    BY <1>6 DEF PutOverwrite
  <2>3. Published' = Published /\ \A k \in Keys : Holders(k)' = Holders(k)
    BY <2>2 DEF Published, Holders
  <2>4. ASSUME NEW k \in Keys PROVE MapOf'[k] = IF k = key[t] THEN val[t] ELSE MapOf[k]
    <3>1. CASE k = key[t]
      <4>1. Holders(k)' = {cur[t]}
        BY <2>1, <2>3, <3>1, MapFacts
      <4>2. nval'[cur[t]] = val[t]
        BY <2>1, <2>2 DEF IInv, TypeOK
      <4>3. (CHOOSE n \in {cur[t]} : TRUE) = cur[t]
        OBVIOUS
      <4> QED BY <3>1, <4>1, <4>2, <4>3 DEF MapOf
    <3>2. CASE k # key[t]
      <4>1. CASE Holders(k) = {}
        BY <4>1, <3>2, <2>3 DEF MapOf
      <4>2. CASE Holders(k) # {}
        <5> DEFINE n == CHOOSE n \in Holders(k) : TRUE
        <5>1. n \in Holders(k)
          BY <4>2
        <5>2. n \in Node /\ n # cur[t]
          BY <5>1, <2>1, <3>2, PublishedFacts DEF Holders, IInv, Shape
        <5>3. nval'[n] = nval[n]
          BY <2>1, <2>2, <5>2 DEF IInv, TypeOK
        <5> QED BY <5>3, <4>2, <3>2, <2>3 DEF MapOf
      <4> QED BY <4>1, <4>2
    <3> QED BY <3>1, <3>2
  <2>5. MapOf' = [MapOf EXCEPT ![key[t]] = val[t]]
    BY <2>4 DEF MapOf
  <2>6. Abs!Put(t)
    BY <1>6, <1>0, <2>5, CallFacts, AnswerStep DEF PutOverwrite, Abs!Put
  <2> QED BY <2>6 DEF Abs!Next
<1>7. CASE PutPublish(t)
  <2> DEFINE n == Fresh(t)
  <2>1. /\ pc[t] = "cas" /\ slot[at[t]] = Null /\ slot' = [slot EXCEPT ![at[t]] = n]
        /\ nkey' = nkey /\ nval' = nval /\ Return(t, "OK", NoValue)
    BY <1>7 DEF PutPublish
  <2>2. /\ n \in Node /\ n # Null /\ nkey[n] = key[t] /\ nval[n] = val[t]
        /\ key[t] \in Keys /\ at[t] \in Slots /\ op[t] = "put"
    BY <1>0, <2>1, StepFacts, TrieAssumption DEF IInv, AtLabel, Node
  <2>3. Published' = Published \cup {n}
    <3>1. \A s \in Slots : slot'[s] = IF s = at[t] THEN n ELSE slot[s]
      BY <2>1 DEF IInv, TypeOK
    <3> QED BY <3>1, <2>1, <2>2 DEF Published
  <2>4. Holders(key[t]) = {}
    BY <1>0, <2>1, EmptySlot DEF IInv
  <2>5. \A k \in Keys : Holders(k)' = IF k = key[t] THEN {n} ELSE Holders(k)
    BY <2>1, <2>2, <2>3, <2>4 DEF Holders
  <2>6. (CHOOSE m \in {n} : TRUE) = n
    OBVIOUS
  <2>7. ASSUME NEW k \in Keys PROVE MapOf'[k] = IF k = key[t] THEN val[t] ELSE MapOf[k]
    <3>1. CASE k = key[t]
      <4>1. Holders(k)' = {n}
        BY <2>5, <3>1
      <4> QED BY <3>1, <4>1, <2>1, <2>2, <2>6 DEF MapOf
    <3>2. CASE k # key[t]
      <4>1. Holders(k)' = Holders(k)
        BY <2>5, <3>2
      <4> QED BY <3>2, <4>1, <2>1 DEF MapOf
    <3> QED BY <3>1, <3>2
  <2>8. MapOf' = [MapOf EXCEPT ![key[t]] = val[t]]
    BY <2>7 DEF MapOf
  <2>9. Abs!Put(t)
    BY <1>0, <2>1, <2>2, <2>8, CallFacts, AnswerStep DEF Abs!Put
  <2> QED BY <2>9 DEF Abs!Next
<1> QED BY <1>1, <1>2, <1>3, <1>4, <1>5, <1>6, <1>7 DEF Step

\* Every behaviour of the lock-free trie is a behaviour of the atomic map:
\* Put and Get are linearizable.
THEOREM TrieIsLinearizable == Spec => Linearizable
<1>1. Init => Abs!Init
  <2> SUFFICES ASSUME Init PROVE Abs!Init
    OBVIOUS
  <2>1. \A k \in Keys : Holders(k) = {}
    BY DEF Init, Published, Holders
  <2> QED BY <2>1 DEF Init, Abs!Init, MapOf, CallOf
<1>2. IInv /\ IInv' /\ [Next]_vars => [Abs!Next]_(Abs!vars)
  <2> SUFFICES ASSUME IInv, IInv', [Next]_vars PROVE Abs!Next \/ UNCHANGED <<MapOf, CallOf, reply>>
    BY DEF Abs!vars
  <2>1. ASSUME NEW t \in Threads, PutBegin(t) \/ GetBegin(t) PROVE Abs!Next
    BY <2>1, InvokeStep
  <2>2. ASSUME NEW t \in Threads, Step(t)
        PROVE  Abs!Next \/ UNCHANGED <<MapOf, CallOf, reply>>
    BY <2>2, AbsStep
  <2>3. CASE UNCHANGED vars
    BY <2>3 DEF vars, MapOf, CallOf, Holders, Published
  <2> QED BY <2>1, <2>2, <2>3 DEF Next
<1> QED BY <1>1, <1>2, TrieInvariant, PTL DEF Spec, Linearizable, Abs!Spec

(***************************************************************************)
(* The memory that lost races cost: a thread leaks at most one node for    *)
(* each node that another thread published.  Every leaked node lost its    *)
(* slot to a winner.  The invariant names the winners: they are nodes of   *)
(* other threads, no two of them the same, because a thread creates a      *)
(* node only for a slot it found empty.                                    *)
(***************************************************************************)

\* f maps each leaked node of t to the node it lost to.  When t loses the race it
\* is in, the winner is one that nothing was lost to before.
Blames(t, f) ==
  /\ f \in [Leaked(t) -> Published \ Created(t)]
  /\ \A m, n \in Leaked(t) : f[m] = f[n] => m = n
  /\ pc[t] = "cas" => /\ slot[at[t]] \notin Created(t)
                      /\ \A n \in Leaked(t) : f[n] # slot[at[t]]

LeakInv ==
  /\ IsFiniteSet(Published)
  /\ \A t \in Threads : \E f : Blames(t, f)

LEMMA LeakInit == Init => LeakInv
<1> SUFFICES ASSUME Init PROVE LeakInv
  OBVIOUS
<1>1. Published = {}
  BY DEF Init, Published
<1>2. ASSUME NEW t \in Threads PROVE \E f : Blames(t, f)
  <2>1. Leaked(t) = {}
    <3>1. Created(t) = {}
      BY DEF Init, Created
    <3> QED BY <3>1 DEF Leaked
  <2>2. pc[t] # "cas"
    BY DEF Init
  <2>3. [n \in {} |-> n] \in [{} -> Published \ Created(t)]
    OBVIOUS
  <2>4. Blames(t, [n \in {} |-> n])
    BY <2>1, <2>2, <2>3 DEF Blames
  <2> QED BY <2>4
<1> QED BY <1>1, <1>2, FS_EmptySet DEF LeakInv

\* What the blame of thread t depends on.
LEMMA BlameKept ==
  ASSUME NEW t \in Threads, \E f : Blames(t, f),
         Leaked(t)' = Leaked(t), Created(t)' = Created(t),
         Published \subseteq Published',
         pc'[t] = "cas" => /\ pc[t] = "cas" /\ slot'[at'[t]] \notin Created(t)
                           /\ slot'[at'[t]] \notin Published \/ slot'[at'[t]] = slot[at[t]]
  PROVE  (\E f : Blames(t, f))'
<1>1. PICK f : Blames(t, f)
  OBVIOUS
<1>2. /\ f \in [Leaked(t)' -> Published' \ Created(t)']
      /\ \A m, n \in Leaked(t)' : f[m] = f[n] => m = n
  BY <1>1 DEF Blames
<1>3. pc'[t] = "cas" => /\ slot'[at'[t]] \notin Created(t)'
                        /\ \A n \in Leaked(t)' : f[n] # slot'[at'[t]]
  BY <1>1 DEF Blames
<1>4. Blames(t, f)'
  BY <1>2, <1>3 DEF Blames
<1> QED BY <1>4

\* The nodes of a thread, and the one it may be about to publish.
LEMMA OwnNodes ==
  ASSUME IInv, NEW t \in Threads
  PROVE  /\ Created(t) \subseteq Node /\ Null \notin Created(t)
         /\ \A u \in Threads : u # t => Created(t) \cap Created(u) = {}
         /\ <<t, used[t] + 1>> \notin Created(t)
         /\ <<t, used[t] + 1>> \notin Published
         /\ pc[t] = "cas" => Fresh(t) \in Created(t) /\ Fresh(t) \notin Published
<1>1. used[t] \in 0..Capacity
  BY DEF IInv, TypeOK
<1>2. Created(t) \subseteq Node
  BY <1>1, TrieAssumption DEF Created, Node
<1>3. \A u \in Threads : u # t => Created(t) \cap Created(u) = {}
  BY DEF Created
<1>4. <<t, used[t] + 1>> \notin Created(t)
  BY <1>1 DEF Created
<1>5. <<t, used[t] + 1>> \notin Published
  <2>1. \A n \in Published : n[2] <= used[n[1]]
    BY PublishedFacts DEF IInv, Shape
  <2> QED BY <1>1, <2>1
<1>6. pc[t] = "cas" => Fresh(t) \in Created(t) /\ Fresh(t) \notin Published
  BY <1>1 DEF IInv, AtLabel, Fresh, Created
<1> QED BY <1>2, <1>3, <1>4, <1>5, <1>6, TrieAssumption DEF Node

\* A step that neither takes nor publishes a node, and is not a race.
LEMMA LeakQuiet ==
  ASSUME LeakInv, UNCHANGED <<slot, used>>,
         \A t \in Threads : /\ pc'[t] = "cas" <=> pc[t] = "cas"
                            /\ pc[t] = "cas" => at'[t] = at[t]
  PROVE  LeakInv'
<1>1. Published' = Published
  BY DEF Published
<1>2. ASSUME NEW t \in Threads PROVE (\E f : Blames(t, f))'
  <2>1. Created(t)' = Created(t) /\ Leaked(t)' = Leaked(t)
    BY <1>1 DEF Created, Leaked, InFlight, Fresh
  <2>2. \E f : Blames(t, f)
    BY DEF LeakInv
  <2>3. pc[t] = "cas" => slot[at[t]] \notin Created(t)
    BY <2>2 DEF Blames
  <2> QED BY <1>1, <2>1, <2>2, <2>3, BlameKept
<1> QED BY <1>1, <1>2 DEF LeakInv

LEMMA LeakCreate ==
  ASSUME IInv, LeakInv, NEW u \in Threads, PutCreate(u) PROVE LeakInv'
<1> DEFINE x == <<u, used[u] + 1>>
<1>0. /\ pc[u] = "load" /\ slot[at[u]] = Null /\ UNCHANGED <<slot, at>>
      /\ used' = [used EXCEPT ![u] = @ + 1] /\ pc' = [pc EXCEPT ![u] = "cas"]
      /\ used[u] < Capacity
  BY DEF PutCreate
<1>a. used[u] \in 0..Capacity
  BY DEF IInv, TypeOK
<1>1. Published' = Published
  BY <1>0 DEF Published
<1>2. ASSUME NEW t \in Threads, t # u PROVE (\E f : Blames(t, f))'
  <2>1. used'[t] = used[t] /\ pc'[t] = pc[t]
    BY <1>0, <1>2 DEF IInv, TypeOK
  <2>2. Created(t)' = Created(t) /\ Leaked(t)' = Leaked(t)
    BY <1>1, <2>1 DEF Created, Leaked, InFlight, Fresh
  <2>3. \E f : Blames(t, f)
    BY DEF LeakInv
  <2>4. pc[t] = "cas" => slot[at[t]] \notin Created(t)
    BY <2>3 DEF Blames
  <2> QED BY <1>0, <1>1, <2>1, <2>2, <2>3, <2>4, BlameKept
<1>3. (\E f : Blames(u, f))'
  <2>1. used'[u] = used[u] + 1 /\ pc'[u] = "cas"
    BY <1>0 DEF IInv, TypeOK
  <2>2. Created(u)' = Created(u) \cup {x}
    <3>1. 1..(used[u] + 1) = 1..used[u] \cup {used[u] + 1}
      BY <1>a
    <3> QED BY <2>1, <3>1 DEF Created
  <2>3. x \notin Created(u) /\ x \notin Published /\ Null \notin Created(u)
    BY OwnNodes
  <2>4. Leaked(u) = Created(u) \ Published
    BY <1>0 DEF Leaked, InFlight
  <2>5. Leaked(u)' = (Created(u) \cup {x}) \ (Published \cup {x})
    BY <1>1, <2>1, <2>2 DEF Leaked, InFlight, Fresh
  <2>6. Leaked(u)' = Leaked(u)
    BY <2>3, <2>4, <2>5
  <2>7. Null \notin Created(u)' /\ Null \notin Published
    <3>1. Null # x
      <4>1. x \in Node
        <5>1. used[u] + 1 \in 1..Capacity
          BY <1>0, <1>a, TrieAssumption
        <5> QED BY <5>1 DEF Node
      <4> QED BY <4>1, TrieAssumption DEF Node
    <3> QED BY <2>2, <2>3, <3>1 DEF Published
  <2>8. PICK f : Blames(u, f)
    BY DEF LeakInv
  <2>9. f \in [Leaked(u)' -> Published' \ Created(u)']
    BY <1>1, <2>2, <2>3, <2>6, <2>8 DEF Blames
  <2>10. slot'[at'[u]] = Null
    BY <1>0
  <2>11. Blames(u, f)'
    BY <1>1, <2>6, <2>7, <2>8, <2>9, <2>10 DEF Blames
  <2> QED BY <2>11
<1> QED BY <1>1, <1>2, <1>3 DEF LeakInv

LEMMA LeakPublish ==
  ASSUME IInv, LeakInv, NEW u \in Threads, PutPublish(u) PROVE LeakInv'
<1> DEFINE w == Fresh(u)
<1>0. /\ pc[u] = "cas" /\ slot[at[u]] = Null /\ slot' = [slot EXCEPT ![at[u]] = w]
      /\ UNCHANGED used /\ pc' = [pc EXCEPT ![u] = "idle"] /\ at' = [at EXCEPT ![u] = Null]
  BY DEF PutPublish, Return
<1>1. w \in Created(u) /\ w \notin Published /\ w # Null /\ at[u] \in Slots
  BY <1>0, OwnNodes, StepFacts
<1>2. \A s \in Slots : slot'[s] = IF s = at[u] THEN w ELSE slot[s]
  BY <1>0 DEF IInv, TypeOK
<1>3. Published' = Published \cup {w}
  BY <1>0, <1>1, <1>2 DEF Published
<1>4. \A t \in Threads : Created(t)' = Created(t)
  BY <1>0 DEF Created
<1>5. ASSUME NEW t \in Threads, t # u PROVE (\E f : Blames(t, f))'
  <2>1. pc'[t] = pc[t] /\ at'[t] = at[t]
    BY <1>0, <1>5 DEF IInv, TypeOK
  <2>2. w \notin Created(t)
    BY <1>1, <1>5, OwnNodes
  <2>3. Leaked(t)' = Leaked(t)
    BY <1>0, <1>3, <1>4, <2>1, <2>2 DEF Leaked, InFlight, Fresh
  <2>4. \E f : Blames(t, f)
    BY DEF LeakInv
  <2>5. pc[t] = "cas" => slot[at[t]] \notin Created(t) /\ at[t] \in Slots
    BY <2>4, StepFacts DEF Blames
  <2>6. pc[t] = "cas" => slot'[at'[t]] = w \/ slot'[at'[t]] = slot[at[t]]
    BY <1>2, <2>1, <2>5
  <2> HIDE DEF w
  <2> QED BY <1>1, <1>3, <1>4, <2>1, <2>2, <2>3, <2>4, <2>5, <2>6, BlameKept
<1>6. (\E f : Blames(u, f))'
  <2>1. pc'[u] = "idle"
    BY <1>0 DEF IInv, TypeOK
  <2>2. Leaked(u)' = Leaked(u)
    BY <1>0, <1>3, <1>4, <2>1 DEF Leaked, InFlight
  <2> QED BY <1>3, <1>4, <2>1, <2>2, BlameKept DEF LeakInv
<1>7. IsFiniteSet(Published')
  BY <1>3, FS_AddElement DEF LeakInv
<1> QED BY <1>5, <1>6, <1>7 DEF LeakInv

LEMMA LeakLose ==
  ASSUME IInv, LeakInv, NEW u \in Threads, PutLoseRace(u) PROVE LeakInv'
<1> DEFINE x == Fresh(u)
           w == slot[at[u]]
<1>0. /\ pc[u] = "cas" /\ w # Null /\ UNCHANGED <<slot, used, at>>
      /\ pc' = [pc EXCEPT ![u] = "visit"]
  BY DEF PutLoseRace, shared
<1>1. Published' = Published
  BY <1>0 DEF Published
<1>2. \A t \in Threads : Created(t)' = Created(t)
  BY <1>0 DEF Created
<1>3. ASSUME NEW t \in Threads, t # u PROVE (\E f : Blames(t, f))'
  <2>1. pc'[t] = pc[t] /\ at'[t] = at[t]
    BY <1>0, <1>3 DEF IInv, TypeOK
  <2>2. Leaked(t)' = Leaked(t)
    BY <1>0, <1>1, <1>2, <2>1 DEF Leaked, InFlight, Fresh
  <2>3. \E f : Blames(t, f)
    BY DEF LeakInv
  <2>4. pc[t] = "cas" => slot[at[t]] \notin Created(t)
    BY <2>3 DEF Blames
  <2> QED BY <1>0, <1>1, <1>2, <2>1, <2>2, <2>3, <2>4, BlameKept
<1>4. (\E f : Blames(u, f))'
  <2>1. pc'[u] = "visit"
    BY <1>0 DEF IInv, TypeOK
  <2>2. x \in Created(u) /\ x \notin Published
    BY <1>0, OwnNodes
  <2>3. Leaked(u) = Created(u) \ (Published \cup {x}) /\ Leaked(u)' = Created(u) \ Published
    BY <1>0, <1>1, <1>2, <2>1 DEF Leaked, InFlight
  <2>4. Leaked(u)' = Leaked(u) \cup {x} /\ x \notin Leaked(u)
    BY <2>2, <2>3
  <2>5. PICK f : Blames(u, f)
    BY DEF LeakInv
  <2>6. w \in Published \ Created(u)
    BY <1>0, <2>5, StepFacts, PublishedFacts DEF Blames, IInv, Shape
  <2> DEFINE g == [n \in Leaked(u) \cup {x} |-> IF n = x THEN w ELSE f[n]]
  <2>7. g \in [Leaked(u) \cup {x} -> Published \ Created(u)]
    BY <2>5, <2>6 DEF Blames
  <2>8. \A m, n \in Leaked(u) \cup {x} : g[m] = g[n] => m = n
    BY <1>0, <2>4, <2>5 DEF Blames
  <2> HIDE DEF g
  <2>9. /\ g \in [Leaked(u)' -> Published' \ Created(u)']
        /\ \A m, n \in Leaked(u)' : g[m] = g[n] => m = n
    BY <1>1, <1>2, <2>4, <2>7, <2>8
  <2>10. PICK h : /\ h \in [Leaked(u)' -> Published' \ Created(u)']
                  /\ \A m, n \in Leaked(u)' : h[m] = h[n] => m = n
    BY <2>9
  <2>11. Blames(u, h)'
    BY <2>1, <2>10 DEF Blames
  <2> QED BY <2>11
<1> QED BY <1>1, <1>3, <1>4 DEF LeakInv

LEMMA LeakNext == IInv /\ LeakInv /\ [Next]_vars => LeakInv'
<1> SUFFICES ASSUME IInv, LeakInv, [Next]_vars PROVE LeakInv'
  OBVIOUS
<1>1. CASE UNCHANGED vars
  BY <1>1, LeakQuiet DEF vars
<1>2. ASSUME NEW u \in Threads, NEW o, NEW k, NEW v, Begin(u, o, k, v) PROVE LeakInv'
  <2>1. /\ pc[u] = "idle" /\ UNCHANGED <<slot, used>>
        /\ pc' = [pc EXCEPT ![u] = "load"] /\ \E s : at' = [at EXCEPT ![u] = s]
    BY <1>2 DEF Begin, shared
  <2> QED BY <2>1, LeakQuiet DEF IInv, TypeOK
<1>3. ASSUME NEW u \in Threads, Step(u) PROVE LeakInv'
  <2>1. CASE PutCreate(u)
    BY <2>1, LeakCreate
  <2>2. CASE PutPublish(u)
    BY <2>2, LeakPublish
  <2>3. CASE PutLoseRace(u)
    BY <2>3, LeakLose
  <2>4. CASE LoadNode(u) \/ GetMiss(u) \/ GetHit(u) \/ Descend(u) \/ PutNoMemory(u) \/ PutOverwrite(u)
    <3>1. /\ pc[u] \in {"load", "visit"} /\ UNCHANGED <<slot, used>>
          /\ \E p \in {"idle", "load", "visit"} : pc' = [pc EXCEPT ![u] = p]
          /\ \/ UNCHANGED at
             \/ \E s : at' = [at EXCEPT ![u] = s]
      BY <2>4 DEF LoadNode, GetMiss, GetHit, Descend, PutNoMemory, PutOverwrite, Return, shared
    <3>2. ASSUME NEW t \in Threads
          PROVE  (pc'[t] = "cas" <=> pc[t] = "cas") /\ (pc[t] = "cas" => at'[t] = at[t])
      <4>1. CASE t = u
        BY <3>1, <4>1 DEF IInv, TypeOK
      <4>2. CASE t # u
        BY <3>1, <4>2 DEF IInv, TypeOK
      <4> QED BY <4>1, <4>2
    <3> QED BY <3>1, <3>2, LeakQuiet
  <2> QED BY <1>3, <2>1, <2>2, <2>3, <2>4 DEF Step
<1> QED BY <1>1, <1>2, <1>3 DEF Next, PutBegin, GetBegin

\* "Bounded by retry rate": however the races fall, a thread leaks no more nodes
\* than the other threads have published.
THEOREM LeaksAreBounded == Spec => []LeakBound
<1>1. IInv /\ LeakInv => LeakBound
  <2> SUFFICES ASSUME IInv, LeakInv, NEW t \in Threads
               PROVE  Cardinality(Leaked(t)) <= Cardinality(Published \ Created(t))
    BY DEF LeakBound
  <2>1. PICK f : Blames(t, f)
    BY DEF LeakInv
  <2>2. f \in Injection(Leaked(t), Published \ Created(t))
    BY <2>1 DEF Blames, Injection, IsInjective
  <2>3. IsFiniteSet(Published \ Created(t))
    BY FS_Subset DEF LeakInv
  <2> QED BY <2>2, <2>3, FS_Injection
<1>2. Init => IInv /\ LeakInv
  BY InitInv, LeakInit
<1>3. IInv /\ LeakInv /\ [Next]_vars => IInv' /\ LeakInv'
  BY NextInv, LeakNext
<1> QED BY <1>1, <1>2, <1>3, PTL DEF Spec
==============================================================================
