--------------------------- MODULE HashIndexProofs ---------------------------
(***************************************************************************)
(* The index is an atomic map of the callers' keys, for any threads, keys  *)
(* and digests.  The theorems of the trie hold of the index's pairs of     *)
(* digests; what is left is the way from the pairs back to the keys.       *)
(***************************************************************************)
EXTENDS IndexBatch, TLAPS, SequenceTheorems

TP == INSTANCE HashTrieProofs WITH Keys <- Pairs, Miss <- "ERR_NOT_FOUND"

\* The index fits the trie's assumption.
LEMMA PairsAreKeys == TP!TrieAssumption
BY IndexAssumption DEF TP!TrieAssumption

\* A thread in a call remembers the key whose pair the trie is given.
AskedInv ==
  /\ asked \in [Threads -> ByteKeys \cup {Null}]
  /\ \A t \in Threads : pc[t] # "idle" => asked[t] \in ByteKeys /\ key[t] = Pair(asked[t])

IndexInv == TP!IInv /\ AskedInv

LEMMA SameMap == Trie!MapOf = TP!MapOf /\ Trie!MapOf' = TP!MapOf'
BY DEF Trie!MapOf, TP!MapOf, Trie!Holders, TP!Holders, Trie!Published, TP!Published,
       Trie!Slots, TP!Slots, Trie!Node, TP!Node

LEMMA SameBegin ==
  ASSUME NEW t, NEW o, NEW k, NEW v PROVE Trie!Begin(t, o, k, v) <=> TP!Begin(t, o, k, v)
BY DEF Trie!Begin, TP!Begin, Trie!shared, TP!shared

LEMMA SameStep == ASSUME NEW t PROVE Trie!Step(t) <=> TP!Step(t)
BY DEF Trie!Step, TP!Step, Trie!LoadNode, TP!LoadNode, Trie!GetMiss, TP!GetMiss,
       Trie!GetHit, TP!GetHit, Trie!Descend, TP!Descend, Trie!PutCreate, TP!PutCreate,
       Trie!PutNoMemory, TP!PutNoMemory, Trie!PutPublish, TP!PutPublish,
       Trie!PutLoseRace, TP!PutLoseRace, Trie!PutOverwrite, TP!PutOverwrite,
       Trie!Return, TP!Return, Trie!shared, TP!shared, Trie!args, TP!args,
       Trie!Fresh, TP!Fresh

\* A call begins by its own thread only.
LEMMA BeginFacts ==
  ASSUME IndexInv, NEW t \in Threads, NEW o, NEW k \in ByteKeys, NEW v,
         TP!Begin(t, o, Pair(k), v), asked' = [asked EXCEPT ![t] = k]
  PROVE  /\ pc[t] = "idle" /\ pc'[t] # "idle" /\ asked'[t] = k
         /\ op'[t] = o /\ key'[t] = Pair(k) /\ val'[t] = v
         /\ \A u \in Threads \ {t} :
              /\ pc'[u] = pc[u] /\ op'[u] = op[u] /\ key'[u] = key[u] /\ val'[u] = val[u]
              /\ asked'[u] = asked[u]
         /\ reply' = [reply EXCEPT ![t] = Null]
         /\ UNCHANGED <<slot, nkey, nval>>
BY DEF IndexInv, AskedInv, TP!IInv, TP!TypeOK, TP!Begin, TP!shared

\* So does it go on.
LEMMA StepIsOwn ==
  ASSUME IndexInv, NEW t \in Threads, TP!Step(t)
  PROVE  /\ pc[t] # "idle"
         /\ UNCHANGED <<op, key, val>> \/ pc'[t] = "idle"
         /\ \A u \in Threads \ {t} :
              pc'[u] = pc[u] /\ op'[u] = op[u] /\ key'[u] = key[u] /\ val'[u] = val[u]
BY DEF IndexInv, TP!IInv, TP!TypeOK, TP!Step, TP!LoadNode, TP!GetMiss, TP!GetHit,
       TP!Descend, TP!PutCreate, TP!PutNoMemory, TP!PutPublish, TP!PutLoseRace,
       TP!PutOverwrite, TP!Return, TP!args

LEMMA IndexInit == Init => IndexInv
<1> SUFFICES ASSUME Init PROVE IndexInv
  OBVIOUS
<1>1. TP!Init
  BY DEF Init, Trie!Init, TP!Init, Trie!Slots, TP!Slots, Trie!Node, TP!Node
<1>2. TP!IInv
  BY <1>1, PairsAreKeys, TP!InitInv
<1>3. AskedInv
  BY <1>1 DEF AskedInv, Init, TP!Init
<1> QED BY <1>2, <1>3 DEF IndexInv

LEMMA IndexNext == IndexInv /\ [Next]_indexVars => IndexInv'
<1> SUFFICES ASSUME IndexInv, [Next]_indexVars PROVE IndexInv'
  OBVIOUS
<1>1. [TP!Next]_(TP!vars) => TP!IInv'
  BY PairsAreKeys, TP!NextInv DEF IndexInv
<1>2. ASSUME NEW t \in Threads, NEW k \in ByteKeys, NEW o \in {"put", "get"},
             NEW v \in Values \cup {NoValue}, o = "put" => v \in Values,
             o = "get" => v = NoValue,
             Trie!Begin(t, o, Pair(k), v), asked' = [asked EXCEPT ![t] = k]
      PROVE  IndexInv'
  <2>1. TP!Begin(t, o, Pair(k), v) /\ Pair(k) \in Pairs
    BY <1>2, SameBegin DEF Pairs
  <2>2. TP!PutBegin(t) \/ TP!GetBegin(t)
    BY <1>2, <2>1 DEF TP!PutBegin, TP!GetBegin
  <2>3. TP!IInv'
    BY <1>1, <2>2 DEF TP!Next
  <2>4. AskedInv'
    <3>1. /\ asked'[t] = k /\ key'[t] = Pair(k)
          /\ \A u \in Threads \ {t} :
               pc'[u] = pc[u] /\ key'[u] = key[u] /\ asked'[u] = asked[u]
      BY <1>2, <2>1, BeginFacts
    <3>2. \A u \in Threads :
            pc'[u] # "idle" => asked'[u] \in ByteKeys /\ key'[u] = Pair(asked'[u])
      BY <3>1 DEF IndexInv, AskedInv
    <3>3. asked' \in [Threads -> ByteKeys \cup {Null}]
      BY <1>2 DEF IndexInv, AskedInv
    <3> QED BY <3>2, <3>3 DEF AskedInv
  <2> QED BY <2>3, <2>4 DEF IndexInv
<1>3. ASSUME NEW t \in Threads, Step(t) PROVE IndexInv'
  <2>1. TP!Step(t)
    BY <1>3, SameStep DEF Step
  <2>2. TP!IInv'
    BY <1>1, <2>1 DEF TP!Next
  <2>3. AskedInv'
    BY <1>3, <2>1, StepIsOwn DEF IndexInv, AskedInv, Step
  <2> QED BY <2>2, <2>3 DEF IndexInv
<1>4. CASE UNCHANGED indexVars
  <2>1. UNCHANGED TP!vars
    BY <1>4 DEF indexVars, TP!vars
  <2> QED BY <1>1, <1>4, <2>1 DEF IndexInv, AskedInv, indexVars
<1> QED BY <1>2, <1>3, <1>4 DEF Next, Put, Get
------------------------------------------------------------------------------
(***************************************************************************)
(* The abstract map of the pairs, seen as one of the keys.                 *)
(***************************************************************************)
ByteMap  == [k \in ByteKeys |-> Trie!MapOf[Pair(k)]]
ByteCall == [t \in Threads |->
               IF pc[t] = "idle" THEN Null
               ELSE [op |-> op[t], key |-> asked[t], val |-> val[t]]]

\* "~2^128 effective collision space": a pair has one key.
LEMMA PairIsOwn == \A j, k \in ByteKeys : Pair(j) = Pair(k) => j = k
BY IndexAssumption DEF Pair

LEMMA CallsMatch ==
  ASSUME IndexInv, NEW t \in Threads
  PROVE  /\ pc[t] = "idle" => ByteCall[t] = Null /\ TP!CallOf[t] = Null
         /\ pc[t] # "idle" =>
              /\ ByteCall[t] # Null /\ TP!CallOf[t] # Null
              /\ ByteCall[t].op = op[t] /\ TP!CallOf[t].op = op[t]
              /\ ByteCall[t].val = val[t] /\ TP!CallOf[t].val = val[t]
              /\ ByteCall[t].key = asked[t] /\ TP!CallOf[t].key = Pair(asked[t])
              /\ asked[t] \in ByteKeys /\ Pair(asked[t]) \in Pairs
<1>1. CASE pc[t] = "idle"
  BY <1>1 DEF ByteCall, TP!CallOf
<1>2. CASE pc[t] # "idle"
  <2>1. /\ TP!CallOf[t] # Null /\ TP!CallOf[t].op = op[t]
        /\ TP!CallOf[t].key = key[t] /\ TP!CallOf[t].val = val[t]
    BY <1>2, PairsAreKeys, TP!CallFacts DEF IndexInv
  <2>2. asked[t] \in ByteKeys /\ key[t] = Pair(asked[t]) /\ Pair(asked[t]) \in Pairs
    BY <1>2 DEF IndexInv, AskedInv, Pairs
  <2>3. ByteCall[t] = [op |-> op[t], key |-> asked[t], val |-> val[t]]
    BY <1>2 DEF ByteCall
  <2>4. op[t] \in {"put", "get"} /\ val[t] \in Values \cup {NoValue}
    BY <1>2 DEF IndexInv, TP!IInv, TP!WalkOnRoute
  <2>5. ByteCall[t] # Null
    BY <2>2, <2>3, <2>4, IndexAssumption
  <2> QED BY <1>2, <2>1, <2>2, <2>3, <2>5
<1> QED BY <1>1, <1>2

LEMMA NullIsIdle ==
  (IndexInv => \A t \in Threads : pc[t] # "idle" => TP!CallOf[t] # Null)'
<1>1. IndexInv => \A t \in Threads : pc[t] # "idle" => TP!CallOf[t] # Null
  BY CallsMatch
<1> QED BY <1>1, PTL

\* A return of the trie's call is a return of the caller's.
LEMMA AnswersMatch ==
  ASSUME IndexInv, NEW t \in Threads, TP!Step(t), Step(t),
         NEW u \in Threads, NEW s, NEW v, TP!CallOf[u] # Null, TP!Abs!Answer(u, s, v)
  PROVE  /\ u = t /\ pc[t] # "idle" /\ ByteCall' = [ByteCall EXCEPT ![t] = Null]
         /\ reply' = [reply EXCEPT ![t] = [status |-> s, val |-> v]]
<1>1. /\ TP!CallOf' = [TP!CallOf EXCEPT ![u] = Null]
      /\ reply' = [reply EXCEPT ![u] = [status |-> s, val |-> v]]
  BY DEF TP!Abs!Answer
<1>2. pc[u] # "idle" /\ pc[t] # "idle"
  BY CallsMatch, StepIsOwn
<1>3. TP!CallOf'[u] = Null
  BY <1>1 DEF TP!CallOf
<1>4. IndexInv'
  BY IndexNext DEF Next
<1>5. pc'[u] = "idle"
  BY <1>3, <1>4, NullIsIdle
<1>6. u = t
  BY <1>2, <1>5, StepIsOwn
<1>7. \A w \in Threads : ByteCall'[w] = IF w = t THEN Null ELSE ByteCall[w]
  BY <1>5, <1>6, StepIsOwn DEF ByteCall, Step, IndexInv, AskedInv
<1>8. ByteCall' = [ByteCall EXCEPT ![t] = Null]
  BY <1>7 DEF ByteCall
<1> QED BY <1>1, <1>2, <1>6, <1>8

LEMMA ByteFacts ==
  /\ \A k \in ByteKeys : /\ Pair(k) \in Pairs
                         /\ ByteMap[k] = TP!MapOf[Pair(k)]
                         /\ ByteMap'[k] = TP!MapOf'[Pair(k)]
  /\ ByteMap = [k \in ByteKeys |-> TP!MapOf[Pair(k)]]
  /\ ByteMap' = [k \in ByteKeys |-> TP!MapOf'[Pair(k)]]
BY SameMap DEF ByteMap, Pairs

LEMMA StepMatches ==
  ASSUME IndexInv, NEW t \in Threads, Step(t)
  PROVE  Bytes!Next \/ UNCHANGED <<ByteMap, ByteCall, reply>>
<1>1. TP!Step(t)
  BY SameStep DEF Step
<1>2. IndexInv'
  BY IndexNext DEF Next
<1>3. TP!Abs!Next \/ UNCHANGED <<TP!MapOf, TP!CallOf, reply>>
  BY <1>1, <1>2, PairsAreKeys, TP!AbsStep DEF IndexInv
<1>4. /\ pc[t] # "idle" /\ ByteCall[t] # Null /\ asked[t] \in ByteKeys
      /\ ByteCall[t].op = op[t] /\ ByteCall[t].key = asked[t] /\ ByteCall[t].val = val[t]
      /\ TP!CallOf[t].op = op[t] /\ TP!CallOf[t].key = Pair(asked[t])
      /\ TP!CallOf[t].val = val[t]
  BY <1>1, StepIsOwn, CallsMatch
<1>5. TP!MapOf' = TP!MapOf => ByteMap' = ByteMap
  BY ByteFacts
<1>6. ASSUME NEW u \in Threads, TP!Abs!Put(u) PROVE Bytes!Next
  <2>1. /\ TP!CallOf[u] # Null /\ TP!Abs!Answer(u, "OK", NoValue) /\ TP!CallOf[u].op = "put"
        /\ TP!MapOf' = [TP!MapOf EXCEPT ![TP!CallOf[u].key] = TP!CallOf[u].val]
    BY <1>6 DEF TP!Abs!Put
  <2>2. /\ u = t /\ ByteCall' = [ByteCall EXCEPT ![t] = Null]
        /\ reply' = [reply EXCEPT ![t] = [status |-> "OK", val |-> NoValue]]
    BY <1>1, <2>1, AnswersMatch
  <2>3. TP!MapOf' = [TP!MapOf EXCEPT ![Pair(asked[t])] = val[t]]
    BY <1>4, <2>1, <2>2
  <2>4. \A k \in ByteKeys : ByteMap'[k] = IF k = asked[t] THEN val[t] ELSE ByteMap[k]
    <3>1. DOMAIN TP!MapOf = Pairs
      BY DEF TP!MapOf
    <3>2. TP!MapOf'[Pair(asked[t])] = val[t]
      BY <1>4, <2>3, <3>1, ByteFacts
    <3>3. \A p \in Pairs : p # Pair(asked[t]) => TP!MapOf'[p] = TP!MapOf[p]
      BY <2>3, <3>1
    <3>4. ASSUME NEW k \in ByteKeys
          PROVE  ByteMap'[k] = IF k = asked[t] THEN val[t] ELSE ByteMap[k]
      <4>1. /\ Pair(k) \in Pairs /\ ByteMap[k] = TP!MapOf[Pair(k)]
            /\ ByteMap'[k] = TP!MapOf'[Pair(k)]
        BY ByteFacts
      <4>2. CASE k = asked[t]
        BY <3>2, <4>1, <4>2
      <4>3. CASE k # asked[t]
        <5>1. Pair(k) # Pair(asked[t])
          BY <1>4, <4>3, PairIsOwn
        <5> QED BY <3>3, <4>1, <4>3, <5>1
      <4> QED BY <4>2, <4>3
    <3> QED BY <3>4
  <2>5. ByteMap' = [ByteMap EXCEPT ![asked[t]] = val[t]]
    BY <2>4, ByteFacts
  <2>6. Bytes!Put(t)
    BY <1>4, <2>1, <2>2, <2>5 DEF Bytes!Put, Bytes!Answer, ByteMap, ByteCall
  <2> QED BY <2>6 DEF Bytes!Next
<1>7. ASSUME NEW u \in Threads, TP!Abs!PutFails(u) PROVE Bytes!Next
  <2>1. /\ TP!CallOf[u] # Null /\ TP!Abs!Answer(u, "ERR_NO_MEMORY", NoValue)
        /\ TP!CallOf[u].op = "put" /\ TP!MapOf[TP!CallOf[u].key] = NoValue
        /\ TP!MapOf' = TP!MapOf
    BY <1>7 DEF TP!Abs!PutFails
  <2>2. /\ u = t /\ ByteCall' = [ByteCall EXCEPT ![t] = Null]
        /\ reply' = [reply EXCEPT ![t] = [status |-> "ERR_NO_MEMORY", val |-> NoValue]]
    BY <1>1, <2>1, AnswersMatch
  <2>3. ByteMap[asked[t]] = NoValue
    BY <1>4, <2>1, <2>2, ByteFacts
  <2>4. Bytes!PutFails(t)
    BY <1>4, <1>5, <2>1, <2>2, <2>3 DEF Bytes!PutFails, Bytes!Answer, ByteMap, ByteCall
  <2> QED BY <2>4 DEF Bytes!Next
<1>8. ASSUME NEW u \in Threads, TP!Abs!GetHit(u) PROVE Bytes!Next
  <2> DEFINE v == TP!MapOf[TP!CallOf[u].key]
  <2>1. /\ TP!CallOf[u] # Null /\ TP!Abs!Answer(u, "OK", v)
        /\ TP!CallOf[u].op = "get" /\ v # NoValue /\ TP!MapOf' = TP!MapOf
    BY <1>8 DEF TP!Abs!GetHit
  <2>2. /\ u = t /\ ByteCall' = [ByteCall EXCEPT ![t] = Null]
        /\ reply' = [reply EXCEPT ![t] = [status |-> "OK", val |-> v]]
    BY <1>1, <2>1, AnswersMatch
  <2>3. ByteMap[asked[t]] = v
    BY <1>4, <2>2, ByteFacts
  <2>4. Bytes!GetHit(t)
    BY <1>4, <1>5, <2>1, <2>2, <2>3 DEF Bytes!GetHit, Bytes!Answer, ByteMap, ByteCall
  <2> QED BY <2>4 DEF Bytes!Next
<1>9. ASSUME NEW u \in Threads, TP!Abs!GetMiss(u) PROVE Bytes!Next
  <2>1. /\ TP!CallOf[u] # Null /\ TP!Abs!Answer(u, "ERR_NOT_FOUND", NoValue)
        /\ TP!CallOf[u].op = "get" /\ TP!MapOf[TP!CallOf[u].key] = NoValue
        /\ TP!MapOf' = TP!MapOf
    BY <1>9 DEF TP!Abs!GetMiss
  <2>2. /\ u = t /\ ByteCall' = [ByteCall EXCEPT ![t] = Null]
        /\ reply' = [reply EXCEPT ![t] = [status |-> "ERR_NOT_FOUND", val |-> NoValue]]
    BY <1>1, <2>1, AnswersMatch
  <2>3. ByteMap[asked[t]] = NoValue
    BY <1>4, <2>1, <2>2, ByteFacts
  <2>4. Bytes!GetMiss(t)
    BY <1>4, <1>5, <2>1, <2>2, <2>3 DEF Bytes!GetMiss, Bytes!Answer, ByteMap, ByteCall
  <2> QED BY <2>4 DEF Bytes!Next
\* A step of a call begins no call.
<1>10. ASSUME NEW u \in Threads, NEW c, c # Null, TP!Abs!Invoke(u, c) PROVE FALSE
  <2>1. TP!CallOf[u] = Null /\ TP!CallOf'[u] = c
    BY <1>10 DEF TP!Abs!Invoke, TP!CallOf
  <2>2. pc[u] = "idle" /\ pc'[u] # "idle"
    BY <1>10, <2>1, CallsMatch DEF TP!CallOf
  <2> QED BY <1>1, <2>2, StepIsOwn
<1>11. ASSUME UNCHANGED <<TP!MapOf, TP!CallOf, reply>>
       PROVE  UNCHANGED <<ByteMap, ByteCall, reply>>
  <2>1. pc'[t] # "idle"
    BY <1>4, <1>11, CallsMatch DEF TP!CallOf
  <2>2. \A u \in Threads : ByteCall'[u] = ByteCall[u]
    BY <1>1, <1>4, <2>1, StepIsOwn DEF ByteCall, Step
  <2>3. ByteCall' = ByteCall
    BY <2>2 DEF ByteCall
  <2> QED BY <1>5, <1>11, <2>3
<1>12. \A c \in TP!Abs!Calls : c # Null
  BY IndexAssumption DEF TP!Abs!Calls
<1> QED BY <1>3, <1>6, <1>7, <1>8, <1>9, <1>10, <1>11, <1>12 DEF TP!Abs!Next

LEMMA BeginMatches ==
  ASSUME IndexInv, NEW t \in Threads, NEW k \in ByteKeys, NEW o \in {"put", "get"},
         NEW v \in Values \cup {NoValue}, o = "put" => v \in Values,
         o = "get" => v = NoValue,
         Trie!Begin(t, o, Pair(k), v), asked' = [asked EXCEPT ![t] = k]
  PROVE  Bytes!Next
<1> DEFINE c == [op |-> o, key |-> k, val |-> v]
<1>1. TP!Begin(t, o, Pair(k), v)
  BY SameBegin
<1>2. c \in Bytes!Calls
  BY DEF Bytes!Calls
<1>3. /\ pc[t] = "idle" /\ pc'[t] # "idle" /\ asked'[t] = k
      /\ op'[t] = o /\ key'[t] = Pair(k) /\ val'[t] = v
      /\ \A u \in Threads \ {t} :
           /\ pc'[u] = pc[u] /\ op'[u] = op[u] /\ key'[u] = key[u] /\ val'[u] = val[u]
           /\ asked'[u] = asked[u]
      /\ reply' = [reply EXCEPT ![t] = Null]
      /\ UNCHANGED <<slot, nkey, nval>>
  BY <1>1, BeginFacts, Zenon
<1>4. ByteCall[t] = Null /\ ByteCall'[t] = c
  BY <1>3 DEF ByteCall
<1>5. \A u \in Threads \ {t} : ByteCall'[u] = ByteCall[u]
  BY <1>3 DEF ByteCall
<1>6. ByteCall' = [ByteCall EXCEPT ![t] = c]
  <2> HIDE DEF c
  <2>1. \A u \in Threads : ByteCall'[u] = IF u = t THEN c ELSE ByteCall[u]
    BY <1>4, <1>5
  <2> QED BY <2>1 DEF ByteCall
<1>7. ByteMap' = ByteMap
  BY <1>3 DEF ByteMap, Trie!MapOf, Trie!Holders, Trie!Published
<1>8. Bytes!Invoke(t, c)
  BY <1>3, <1>4, <1>6, <1>7 DEF Bytes!Invoke, ByteMap, ByteCall
<1> QED BY <1>2, <1>8 DEF Bytes!Next

\* Two keys whose first digests collide stay two entries, whatever races: the index
\* is an atomic map of the callers' keys although it keeps none of them.
THEOREM IndexMapsCallersKeys == Spec => MapsCallersKeys
<1>1. Init => Bytes!Init
  <2> SUFFICES ASSUME Init PROVE Bytes!Init
    OBVIOUS
  <2>1. Trie!MapOf = [p \in Pairs |-> NoValue]
    BY DEF Init, Trie!Init, Trie!MapOf, Trie!Holders, Trie!Published
  <2>2. \A k \in ByteKeys : Pair(k) \in Pairs
    BY DEF Pairs
  <2> QED BY <2>1, <2>2 DEF Init, Trie!Init, Bytes!Init
<1>2. IndexInv /\ [Next]_indexVars => [Bytes!Next]_(Bytes!vars)
  <2> SUFFICES ASSUME IndexInv, [Next]_indexVars
               PROVE  Bytes!Next \/ UNCHANGED <<ByteMap, ByteCall, reply>>
    BY DEF Bytes!vars, ByteMap, ByteCall
  <2>1. CASE UNCHANGED indexVars
    BY <2>1 DEF indexVars, ByteMap, ByteCall, Trie!MapOf, Trie!Holders, Trie!Published
  <2>2. CASE Next
    BY <2>2, BeginMatches, StepMatches DEF Next, Put, Get
  <2> QED BY <2>1, <2>2
<1> QED BY <1>1, <1>2, IndexInit, IndexNext, PTL DEF Spec, MapsCallersKeys, Bytes!Spec
------------------------------------------------------------------------------
(***************************************************************************)
(* Batches.                                                                *)
(***************************************************************************)
LEMMA ByteCallIsNull ==
  (IndexInv => \A u \in Threads : pc[u] # "idle" => ByteCall[u] # Null)'
<1>1. IndexInv => \A u \in Threads : pc[u] # "idle" => ByteCall[u] # Null
  BY CallsMatch
<1> QED BY <1>1, PTL

\* A call of a thread ends, or goes on; only a Put that ends with OK changes the
\* map, and it sets its own key; NO_MEMORY is answered for an absent key.
LEMMA StepOutcome ==
  ASSUME IndexInv, NEW t \in Threads, Step(t)
  PROVE  /\ pc'[t] # "idle" => ByteMap' = ByteMap
         /\ pc'[t] = "idle" /\ op[t] = "put" =>
              /\ reply'[t].status \in {"OK", "ERR_NO_MEMORY"}
              /\ reply'[t].status = "OK" =>
                   ByteMap' = [ByteMap EXCEPT ![asked[t]] = val[t]]
              /\ reply'[t].status = "ERR_NO_MEMORY" =>
                   ByteMap' = ByteMap /\ ByteMap[asked[t]] = NoValue
         /\ op[t] # "put" => ByteMap' = ByteMap
<1>1. TP!Step(t) /\ pc[t] # "idle"
  BY SameStep, StepIsOwn DEF Step
<1>2. IndexInv'
  BY IndexNext DEF Next
<1>3. /\ ByteCall[t] # Null /\ asked[t] \in ByteKeys
      /\ ByteCall[t].op = op[t] /\ ByteCall[t].key = asked[t] /\ ByteCall[t].val = val[t]
  BY <1>1, CallsMatch
<1>4. Bytes!Next \/ UNCHANGED <<ByteMap, ByteCall, reply>>
  BY StepMatches
<1>5. \A u \in Threads : pc[u] = "idle" => ByteCall[u] = Null
  BY DEF ByteCall
<1>6. \A u \in Threads : pc'[u] = "idle" => ByteCall'[u] = Null
  BY DEF ByteCall
<1>7. \A u \in Threads : pc'[u] # "idle" => ByteCall'[u] # Null
  BY <1>2, ByteCallIsNull
<1>8. \A u \in Threads : u # t => pc'[u] = pc[u]
  BY <1>1, StepIsOwn
<1>9. ASSUME NEW u \in Threads, NEW s, NEW v, ByteCall[u] # Null,
             ByteCall' = [ByteCall EXCEPT ![u] = Null],
             reply' = [reply EXCEPT ![u] = [status |-> s, val |-> v]]
      PROVE  u = t /\ pc'[t] = "idle" /\ reply'[t].status = s
  <2>1. ByteCall'[u] = Null
    BY <1>9 DEF ByteCall
  <2>2. u = t
    BY <1>5, <1>7, <1>8, <1>9, <2>1
  <2>3. t \in DOMAIN reply
    BY DEF IndexInv, TP!IInv, TP!TypeOK
  <2> QED BY <1>7, <1>9, <2>1, <2>2, <2>3
<1>10. ASSUME NEW u \in Threads, NEW c \in Bytes!Calls, Bytes!Invoke(u, c) PROVE FALSE
  <2>1. ByteCall[u] = Null /\ ByteCall'[u] = c
    BY <1>10 DEF Bytes!Invoke, ByteCall
  <2>2. c # Null
    BY IndexAssumption DEF Bytes!Calls
  <2>3. u # t
    BY <1>3, <2>1
  <2>4. pc'[u] # "idle"
    BY <1>6, <2>1, <2>2
  <2>5. pc[u] # "idle"
    BY <1>8, <2>3, <2>4
  <2> QED BY <2>1, <2>5, CallsMatch
<1>11. ASSUME NEW u \in Threads, Bytes!Put(u)
       PROVE  /\ pc'[t] = "idle" /\ op[t] = "put" /\ reply'[t].status = "OK"
              /\ ByteMap' = [ByteMap EXCEPT ![asked[t]] = val[t]]
  <2>1. /\ ByteCall[u] # Null /\ ByteCall[u].op = "put"
        /\ ByteMap' = [ByteMap EXCEPT ![ByteCall[u].key] = ByteCall[u].val]
        /\ ByteCall' = [ByteCall EXCEPT ![u] = Null]
        /\ reply' = [reply EXCEPT ![u] = [status |-> "OK", val |-> NoValue]]
    BY <1>11 DEF Bytes!Put, Bytes!Answer, ByteMap, ByteCall
  <2>2. u = t /\ pc'[t] = "idle" /\ reply'[t].status = "OK"
    BY <1>9, <2>1
  <2> QED BY <1>3, <2>1, <2>2
<1>12. ASSUME NEW u \in Threads, Bytes!PutFails(u)
       PROVE  /\ pc'[t] = "idle" /\ op[t] = "put" /\ reply'[t].status = "ERR_NO_MEMORY"
              /\ ByteMap' = ByteMap /\ ByteMap[asked[t]] = NoValue
  <2>1. /\ ByteCall[u] # Null /\ ByteCall[u].op = "put"
        /\ ByteMap' = ByteMap /\ ByteMap[ByteCall[u].key] = NoValue
        /\ ByteCall' = [ByteCall EXCEPT ![u] = Null]
        /\ reply' = [reply EXCEPT ![u] = [status |-> "ERR_NO_MEMORY", val |-> NoValue]]
    BY <1>12 DEF Bytes!PutFails, Bytes!Answer, ByteMap, ByteCall
  <2>2. u = t /\ pc'[t] = "idle" /\ reply'[t].status = "ERR_NO_MEMORY"
    BY <1>9, <2>1
  <2> QED BY <1>3, <2>1, <2>2
<1>13. ASSUME NEW u \in Threads, Bytes!GetHit(u) \/ Bytes!GetMiss(u)
       PROVE  op[t] = "get" /\ pc'[t] = "idle" /\ ByteMap' = ByteMap
  <2>1. PICK s, v :
          /\ ByteCall[u] # Null /\ ByteCall[u].op = "get" /\ ByteMap' = ByteMap
          /\ ByteCall' = [ByteCall EXCEPT ![u] = Null]
          /\ reply' = [reply EXCEPT ![u] = [status |-> s, val |-> v]]
    BY <1>13 DEF Bytes!GetHit, Bytes!GetMiss, Bytes!Answer, ByteMap, ByteCall
  <2>2. u = t /\ pc'[t] = "idle"
    BY <1>9, <2>1
  <2> QED BY <1>3, <2>1, <2>2
<1>14. CASE UNCHANGED <<ByteMap, ByteCall, reply>>
  <2>1. pc'[t] # "idle"
    BY <1>3, <1>6, <1>14
  <2> QED BY <1>14, <2>1
<1>15. CASE Bytes!Next
  <2>1. \/ /\ pc'[t] = "idle" /\ op[t] = "put" /\ reply'[t].status = "OK"
           /\ ByteMap' = [ByteMap EXCEPT ![asked[t]] = val[t]]
        \/ /\ pc'[t] = "idle" /\ op[t] = "put" /\ reply'[t].status = "ERR_NO_MEMORY"
           /\ ByteMap' = ByteMap /\ ByteMap[asked[t]] = NoValue
        \/ op[t] = "get" /\ pc'[t] = "idle" /\ ByteMap' = ByteMap
    BY <1>10, <1>11, <1>12, <1>13, <1>15 DEF Bytes!Next
  <2> QED BY <2>1
<1> QED BY <1>4, <1>14, <1>15

\* The end of a window, and the last value of a key among the items.
LEMMA WindowFacts ==
  ASSUME NEW items \in Seq([key : ByteKeys, val : Values]), NEW n \in Nat,
         n < Len(items)
  PROVE  WindowEnd(items, n) \in Nat /\ n < WindowEnd(items, n)
         /\ WindowEnd(items, n) <= Len(items)
<1> PICK L \in Nat : L = Len(items)
  OBVIOUS
<1> DEFINE m == Min({L - n, Window})
<1>1. m \in {L - n, Window} /\ m <= L - n
  <2>1. CASE L - n <= Window
    <3>1. \A y \in {L - n, Window} : L - n <= y
      BY <2>1, PutBatchAssumption
    <3>2. \A x \in {L - n, Window} :
            (\A y \in {L - n, Window} : x <= y) => x = L - n
      BY <2>1, PutBatchAssumption
    <3> QED BY <3>1, <3>2 DEF Min
  <2>2. CASE ~(L - n <= Window)
    <3>1. \A y \in {L - n, Window} : Window <= y
      BY <2>2, PutBatchAssumption
    <3>2. \A x \in {L - n, Window} :
            (\A y \in {L - n, Window} : x <= y) => x = Window
      BY <2>2, PutBatchAssumption
    <3> QED BY <2>2, <3>1, <3>2, PutBatchAssumption DEF Min
  <2> QED BY <2>1, <2>2
<1>2. WindowEnd(items, n) = n + m
  BY DEF WindowEnd
<1> HIDE DEF m
<1> QED BY <1>1, <1>2, PutBatchAssumption

\* One more item: its own key takes its value, the others keep theirs.
LEMMA LastOfNext ==
  ASSUME NEW items \in Seq([key : ByteKeys, val : Values]), NEW n \in Nat,
         n < Len(items), NEW k
  PROVE  /\ items[n + 1].key = k => LastOf(items, n + 1, k) = items[n + 1].val
         /\ items[n + 1].key # k => LastOf(items, n + 1, k) = LastOf(items, n, k)
<1> DEFINE S(m) == {j \in 1..m : items[j].key = k}
<1>1. CASE items[n + 1].key = k
  <2>1. n + 1 \in S(n + 1) /\ \A y \in S(n + 1) : n + 1 >= y /\ y \in Nat
    BY <1>1
  <2>2. \A x \in S(n + 1) : (\A y \in S(n + 1) : x >= y) => x = n + 1
    BY <2>1
  <2>3. Max(S(n + 1)) = n + 1
    BY <2>1, <2>2 DEF Max
  <2> QED BY <1>1, <2>3 DEF LastOf
<1>2. CASE items[n + 1].key # k
  <2>1. S(n + 1) = S(n)
    <3>1. \A j \in 1..(n + 1) : j \in 1..n \/ j = n + 1
      OBVIOUS
    <3>2. \A j \in 1..n : j \in 1..(n + 1)
      OBVIOUS
    <3> QED BY <1>2, <3>1, <3>2
  <2> QED BY <1>2, <2>1 DEF LastOf
<1> QED BY <1>1, <1>2

Items   == [key : ByteKeys, val : Values]
Batches == [items : PutBatches \cup {<< >>}, i : Nat, end : Nat,
            status : {"none", "running", "OK", "ERR_NO_MEMORY"}]

\* A batch is where its status says.
WellFormed(b) ==
  /\ b \in Batches
  /\ b.i <= Len(b.items)
  /\ b.status = "running" => b.i < b.end /\ b.end <= Len(b.items)
  /\ b.status = "ERR_NO_MEMORY" => b.i < Len(b.items)
  /\ b.status = "OK" => b.i = Len(b.items)

\* The map m holds the items put, but for the keys in o.
Sound(b, o, m) ==
  b.status # "none" =>
    /\ \A j \in 1..b.i : LET k == b.items[j].key IN
         k \notin o => m[k] = LastOf(b.items, b.i, k)
    /\ b.status = "ERR_NO_MEMORY" =>
         LET k == b.items[b.i + 1].key IN k \notin o => m[k] = NoValue

\* The call of a thread in a batch is the Put of the batch's next item, and no
\* thread is in a call while it still remembers the answer of a batch.
ItsCall(b, p, o, k, v) ==
  p # "idle" =>
    /\ b.status \in {"none", "running"}
    /\ b.status = "running" =>
         o = "put" /\ k = b.items[b.i + 1].key /\ v = b.items[b.i + 1].val

BatchInv ==
  /\ puts \in [Threads -> Batches] /\ others \in [Threads -> SUBSET ByteKeys]
  /\ \A t \in Threads : /\ WellFormed(puts[t])
                        /\ Sound(puts[t], others[t], ByteMap)
                        /\ ItsCall(puts[t], pc[t], op[t], asked[t], val[t])

LEMMA ItemsAreItems ==
  ASSUME NEW b, WellFormed(b)
  PROVE  /\ b.items \in Seq(Items) /\ b.i \in Nat
         /\ \A j \in 1..Len(b.items) : b.items[j].key \in ByteKeys
<1>1. b.items \in PutBatches \cup {<< >>} /\ b.i \in Nat
  BY DEF WellFormed, Batches
<1>2. << >> \in Seq(Items)
  OBVIOUS
<1>3. b.items \in Seq(Items)
  BY <1>1, <1>2, PutBatchAssumption DEF Items
<1>4. \A j \in 1..Len(b.items) : b.items[j] \in Items
  BY <1>3
<1> QED BY <1>1, <1>3, <1>4 DEF Items

\* Other threads' Puts do not disturb a batch, as long as they are remembered.
LEMMA SoundStays ==
  ASSUME NEW b, NEW o, NEW o2, NEW m, NEW m2, WellFormed(b), Sound(b, o, m),
         o \subseteq o2,
         \A k \in ByteKeys : m2[k] = m[k] \/ b.status = "none" \/ k \in o2
  PROVE  Sound(b, o2, m2)
<1> SUFFICES ASSUME b.status # "none" PROVE Sound(b, o2, m2)
  BY DEF Sound
<1>1. b.items \in Seq(Items) /\ b.i \in Nat /\ b.i <= Len(b.items)
  BY ItemsAreItems DEF WellFormed
<1>2. \A j \in 1..Len(b.items) : b.items[j].key \in ByteKeys
  BY ItemsAreItems
<1>3. \A j \in 1..b.i : LET k == b.items[j].key IN
        k \notin o2 => m2[k] = LastOf(b.items, b.i, k)
  <2> SUFFICES ASSUME NEW j \in 1..b.i, b.items[j].key \notin o2
               PROVE  m2[b.items[j].key] = LastOf(b.items, b.i, b.items[j].key)
    OBVIOUS
  <2>1. j \in 1..Len(b.items)
    BY <1>1
  <2>2. m[b.items[j].key] = LastOf(b.items, b.i, b.items[j].key)
    BY DEF Sound
  <2> QED BY <1>2, <2>1, <2>2
<1>4. ASSUME b.status = "ERR_NO_MEMORY", b.items[b.i + 1].key \notin o2
      PROVE  m2[b.items[b.i + 1].key] = NoValue
  <2>1. b.i + 1 \in 1..Len(b.items)
    BY <1>1, <1>4 DEF WellFormed
  <2>2. m[b.items[b.i + 1].key] = NoValue
    BY <1>4 DEF Sound
  <2> QED BY <1>2, <1>4, <2>1, <2>2
<1> QED BY <1>3, <1>4 DEF Sound

\* What becomes of a batch when the Put of an item returns.
LEMMA ItemPutFacts ==
  ASSUME NEW b, WellFormed(b), b.status = "running", NEW s \in {"OK", "ERR_NO_MEMORY"}
  PROVE  LET c == ItemPut(b, s) IN
         /\ WellFormed(c) /\ c.items = b.items /\ c.status # "none"
         /\ s = "OK" => c.i = b.i + 1 /\ c.status # "ERR_NO_MEMORY"
         /\ s = "ERR_NO_MEMORY" => c.i = b.i /\ c.status = "ERR_NO_MEMORY"
<1> PICK c : c = ItemPut(b, s)
  OBVIOUS
<1>1. b.items \in Seq(Items) /\ b.i \in Nat /\ b.end \in Nat /\ b \in Batches
      /\ b.i < b.end /\ b.end <= Len(b.items)
  BY ItemsAreItems DEF WellFormed, Batches
<1> PICK L \in Nat : L = Len(b.items)
  BY <1>1
<1>2. CASE s = "ERR_NO_MEMORY"
  <2>1. c = [b EXCEPT !.status = s]
    BY <1>2 DEF ItemPut
  <2>2. /\ c \in Batches /\ c.items = b.items /\ c.i = b.i
        /\ c.status = "ERR_NO_MEMORY"
    BY <1>1, <1>2, <2>1 DEF Batches
  <2> QED BY <1>1, <1>2, <2>2 DEF WellFormed
<1>3. CASE s = "OK"
  <2> PICK d : d = [b EXCEPT !.i = b.i + 1]
    OBVIOUS
  <2>4. /\ d \in Batches /\ d.items = b.items /\ d.i = b.i + 1
        /\ d.status = "running" /\ d.end = b.end
    BY <1>1 DEF Batches
  <2>1. CASE b.i + 1 < b.end
    <3>1. c = d
      BY <1>3, <2>1 DEF ItemPut
    <3>2. /\ c \in Batches /\ c.items = b.items /\ c.i = b.i + 1
          /\ c.status = "running" /\ c.end = b.end
      BY <2>4, <3>1 DEF Batches
    <3> QED BY <1>1, <1>3, <2>1, <3>2 DEF WellFormed
  <2>2. CASE ~(b.i + 1 < b.end) /\ b.i + 1 = L
    <3>1. c = [d EXCEPT !.status = "OK"]
      BY <1>3, <2>2 DEF ItemPut
    <3>2. /\ c \in Batches /\ c.items = b.items /\ c.i = b.i + 1
          /\ c.status = "OK"
      BY <2>4, <3>1 DEF Batches
    <3> QED BY <1>1, <1>3, <2>2, <3>2 DEF WellFormed
  <2>3. CASE ~(b.i + 1 < b.end) /\ b.i + 1 # L
    <3> DEFINE e == WindowEnd(b.items, b.i + 1)
    <3>1. c = [d EXCEPT !.end = e]
      BY <1>3, <2>3 DEF ItemPut
    <3>2. b.i + 1 \in Nat /\ b.i + 1 < Len(b.items)
      BY <1>1, <2>3
    <3>3. e \in Nat /\ b.i + 1 < e /\ e <= Len(b.items)
      BY <1>1, <3>2, WindowFacts DEF Items
    <3> HIDE DEF e
    <3>4. /\ c \in Batches /\ c.items = b.items /\ c.i = b.i + 1
          /\ c.status = "running" /\ c.end = e
      BY <2>4, <3>1, <3>3 DEF Batches
    <3> QED BY <1>1, <1>3, <3>2, <3>3, <3>4 DEF WellFormed
  <2> QED BY <2>1, <2>2, <2>3
<1> QED BY <1>2, <1>3

\* The Put of the next item makes the batch one item longer.
LEMMA SoundNext ==
  ASSUME NEW b, NEW o, NEW m, NEW m2, WellFormed(b), b.status = "running",
         Sound(b, o, m), NEW s \in {"OK", "ERR_NO_MEMORY"}, DOMAIN m = ByteKeys,
         LET item == b.items[b.i + 1] IN
           /\ s = "OK" => m2 = [m EXCEPT ![item.key] = item.val]
           /\ s = "ERR_NO_MEMORY" => m2 = m /\ m[item.key] = NoValue
  PROVE  Sound(ItemPut(b, s), o, m2)
<1> PICK c : c = ItemPut(b, s)
  OBVIOUS
<1> DEFINE item == b.items[b.i + 1]
<1>1. b.items \in Seq(Items) /\ b.i \in Nat /\ b.i < Len(b.items)
  BY ItemsAreItems DEF WellFormed, Batches
<1> PICK L \in Nat : L = Len(b.items)
  BY <1>1
<1>2. /\ c.items = b.items /\ c.status # "none"
      /\ s = "OK" => c.i = b.i + 1 /\ c.status # "ERR_NO_MEMORY"
      /\ s = "ERR_NO_MEMORY" => c.i = b.i /\ c.status = "ERR_NO_MEMORY"
  BY ItemPutFacts
<1>3. \A j \in 1..b.i : LET k == b.items[j].key IN
        k \notin o => m[k] = LastOf(b.items, b.i, k)
  BY DEF Sound
<1>4. item.key \in ByteKeys
  <2>1. b.i + 1 \in 1..Len(b.items)
    BY <1>1
  <2> QED BY <2>1, ItemsAreItems
<1>5. CASE s = "ERR_NO_MEMORY"
  BY <1>2, <1>3, <1>5 DEF Sound
<1>6. CASE s = "OK"
  <2>1. m2 = [m EXCEPT ![item.key] = item.val]
    BY <1>6
  <2>2. ASSUME NEW j \in 1..(b.i + 1), b.items[j].key \notin o
        PROVE  m2[b.items[j].key] = LastOf(b.items, b.i + 1, b.items[j].key)
    <3>1. CASE b.items[j].key = item.key
      <4>1. LastOf(b.items, b.i + 1, item.key) = item.val
        BY <1>1, LastOfNext DEF Items
      <4>2. m2[item.key] = item.val
        BY <1>4, <2>1
      <4> QED BY <3>1, <4>1, <4>2
    <3>2. CASE b.items[j].key # item.key
      <4>1. j \in 1..b.i
        <5>1. j # b.i + 1
          BY <3>2
        <5> QED BY <1>1, <5>1
      <4>2. LastOf(b.items, b.i + 1, b.items[j].key) = LastOf(b.items, b.i, b.items[j].key)
        BY <1>1, <3>2, LastOfNext DEF Items
      <4>3. b.items[j].key \in ByteKeys
        <5>1. j \in 1..Len(b.items)
          BY <1>1, <4>1
        <5> QED BY <5>1, ItemsAreItems
      <4>4. m2[b.items[j].key] = m[b.items[j].key]
        BY <2>1, <3>2, <4>3
      <4> QED BY <1>3, <2>2, <4>1, <4>2, <4>4
    <3> QED BY <3>1, <3>2
  <2> QED BY <1>2, <1>6, <2>2 DEF Sound
<1> QED BY <1>5, <1>6

LEMMA BatchInit == PutBatchInit => IndexInv /\ BatchInv
<1> SUFFICES ASSUME PutBatchInit PROVE BatchInv
  BY IndexInit DEF PutBatchInit
<1>1. /\ puts = [t \in Threads |-> NoBatch] /\ others = [t \in Threads |-> {}]
      /\ pc = [t \in Threads |-> "idle"]
  BY DEF PutBatchInit, Init, Trie!Init
<1>2. NoBatch \in Batches /\ WellFormed(NoBatch)
  BY DEF NoBatch, Batches, WellFormed
<1>3. ASSUME NEW t \in Threads
      PROVE  /\ Sound(puts[t], others[t], ByteMap)
             /\ ItsCall(puts[t], pc[t], op[t], asked[t], val[t])
  BY <1>1 DEF Sound, ItsCall, NoBatch
<1> QED BY <1>1, <1>2, <1>3 DEF BatchInv

\* The parts of the invariant that are about one thread.
ThreadInv(t) ==
  /\ WellFormed(puts[t]) /\ Sound(puts[t], others[t], ByteMap)
  /\ ItsCall(puts[t], pc[t], op[t], asked[t], val[t])

\* A thread that does nothing keeps them.
LEMMA OthersSound ==
  ASSUME BatchInv, NEW u \in Threads, puts'[u] = puts[u], others[u] \subseteq others'[u],
         pc'[u] = pc[u], op'[u] = op[u], asked'[u] = asked[u], val'[u] = val[u],
         \A k \in ByteKeys : \/ ByteMap'[k] = ByteMap[k]
                             \/ puts[u].status = "none" \/ k \in others'[u]
  PROVE  ThreadInv(u)'
<1>1. WellFormed(puts[u]) /\ Sound(puts[u], others[u], ByteMap)
  BY DEF BatchInv
<1>2. Sound(puts[u], others'[u], ByteMap')
  BY <1>1, SoundStays
<1>3. /\ WellFormed(puts'[u]) /\ Sound(puts'[u], others'[u], ByteMap')
      /\ ItsCall(puts'[u], pc'[u], op'[u], asked'[u], val'[u])
  BY <1>1, <1>2 DEF BatchInv
<1> QED BY <1>3 DEF ThreadInv

LEMMA BatchGlue ==
  ASSUME \A t \in Threads : ThreadInv(t)',
         puts' \in [Threads -> Batches], others' \in [Threads -> SUBSET ByteKeys]
  PROVE  BatchInv'
BY DEF BatchInv, ThreadInv

\* The entry of a call, one of a batch or a single one, leaves the map alone.
LEMMA BeginMap ==
  ASSUME IndexInv, NEW t \in Threads, NEW o, NEW k \in ByteKeys, NEW v,
         Trie!Begin(t, o, Pair(k), v), asked' = [asked EXCEPT ![t] = k]
  PROVE  /\ pc[t] = "idle" /\ op'[t] = o /\ val'[t] = v /\ asked'[t] = k
         /\ ByteMap' = ByteMap
         /\ \A u \in Threads \ {t} :
              pc'[u] = pc[u] /\ op'[u] = op[u] /\ val'[u] = val[u] /\ asked'[u] = asked[u]
<1>1. TP!Begin(t, o, Pair(k), v)
  BY SameBegin
<1>2. /\ pc[t] = "idle" /\ asked'[t] = k /\ op'[t] = o /\ val'[t] = v
      /\ \A u \in Threads \ {t} :
           /\ pc'[u] = pc[u] /\ op'[u] = op[u] /\ key'[u] = key[u] /\ val'[u] = val[u]
           /\ asked'[u] = asked[u]
      /\ UNCHANGED <<slot, nkey, nval>>
  BY <1>1, BeginFacts, Zenon
<1>3. ByteMap' = ByteMap
  BY <1>2 DEF ByteMap, Trie!MapOf, Trie!Holders, Trie!Published
<1> QED BY <1>2, <1>3

\* Every step of the batches is a step of the index, and keeps the invariant.
LEMMA BatchNext ==
  IndexInv /\ BatchInv /\ [PutBatchNext]_<<indexVars, batchVars>>
    => [Next]_indexVars /\ BatchInv'
<1> SUFFICES ASSUME IndexInv, BatchInv, [PutBatchNext]_<<indexVars, batchVars>>
             PROVE  [Next]_indexVars /\ BatchInv'
  OBVIOUS
<1>0. /\ puts \in [Threads -> Batches] /\ others \in [Threads -> SUBSET ByteKeys]
      /\ \A t \in Threads : ThreadInv(t)
  BY DEF BatchInv, ThreadInv
<1>1. ASSUME NEW t \in Threads, SingleCall(t) PROVE Next /\ BatchInv'
  <2>1. /\ ~Running(t) /\ puts' = [puts EXCEPT ![t] = NoBatch]
        /\ others' = [others EXCEPT ![t] = {}]
    BY <1>1 DEF SingleCall
  <2>2. PICK k \in ByteKeys : Get(t, k) \/ \E v \in Values : Put(t, k, v)
    BY <1>1 DEF SingleCall
  <2>3. /\ ByteMap' = ByteMap
        /\ \A u \in Threads \ {t} :
             pc'[u] = pc[u] /\ op'[u] = op[u] /\ val'[u] = val[u] /\ asked'[u] = asked[u]
    <3>1. CASE Get(t, k)
      BY <3>1, BeginMap DEF Get
    <3>2. CASE \E v \in Values : Put(t, k, v)
      BY <3>2, BeginMap DEF Put
    <3> QED BY <2>2, <3>1, <3>2
  <2>4. NoBatch \in Batches /\ WellFormed(NoBatch)
    BY DEF NoBatch, Batches, WellFormed
  <2>5. puts' \in [Threads -> Batches] /\ others' \in [Threads -> SUBSET ByteKeys]
    BY <1>0, <2>1, <2>4
  <2>6. ThreadInv(t)'
    <3>1. puts'[t] = NoBatch
      BY <1>0, <2>1
    <3>2. /\ WellFormed(puts'[t]) /\ Sound(puts'[t], others'[t], ByteMap')
          /\ ItsCall(puts'[t], pc'[t], op'[t], asked'[t], val'[t])
      BY <2>4, <3>1 DEF NoBatch, Sound, ItsCall
    <3> QED BY <3>2 DEF ThreadInv
  <2>7. ASSUME NEW u \in Threads \ {t} PROVE ThreadInv(u)'
    <3>1. puts'[u] = puts[u] /\ others'[u] = others[u]
      BY <1>0, <2>1
    <3> QED BY <2>3, <3>1, OthersSound
  <2>8. BatchInv'
    BY <2>5, <2>6, <2>7, BatchGlue
  <2> QED BY <1>1, <2>8 DEF SingleCall, Next
<1>2. ASSUME NEW t \in Threads, PutItem(t) PROVE Next /\ BatchInv'
  <2> PICK item : item = puts[t].items[puts[t].i + 1]
    OBVIOUS
  <2>1. /\ puts[t].status = "running" /\ puts' = puts /\ others' = others
        /\ Trie!Begin(t, "put", Pair(item.key), item.val)
        /\ asked' = [asked EXCEPT ![t] = item.key]
    BY <1>2 DEF PutItem, Running, Put, batchVars
  <2>2. item.key \in ByteKeys /\ item.val \in Values
    <3>1. WellFormed(puts[t])
      BY <1>0 DEF ThreadInv
    <3>2. PICK L \in Nat : L = Len(puts[t].items)
      BY <3>1, ItemsAreItems
    <3>3. puts[t].i + 1 \in 1..Len(puts[t].items)
      BY <2>1, <3>1, <3>2 DEF WellFormed, Batches
    <3>4. item \in Items
      BY <3>1, <3>3, ItemsAreItems
    <3> QED BY <3>4 DEF Items
  <2>3. /\ ByteMap' = ByteMap
        /\ op'[t] = "put" /\ val'[t] = item.val /\ asked'[t] = item.key
        /\ \A u \in Threads \ {t} :
             pc'[u] = pc[u] /\ op'[u] = op[u] /\ val'[u] = val[u] /\ asked'[u] = asked[u]
    <3>1. PICK k, v : k = item.key /\ v = item.val
      OBVIOUS
    <3>2. k \in ByteKeys
      BY <2>2, <3>1
    <3>3. Trie!Begin(t, "put", Pair(k), v) /\ asked' = [asked EXCEPT ![t] = k]
      BY <2>1, <3>1
    <3>4. ByteMap' = ByteMap
      BY <3>2, <3>3, BeginMap
    <3>5. op'[t] = "put" /\ val'[t] = v /\ asked'[t] = k
      <4>1. TP!Begin(t, "put", Pair(k), v)
        BY <3>3, SameBegin
      <4> QED BY <3>2, <3>3, <4>1, BeginFacts
    <3>6. \A u \in Threads \ {t} :
            pc'[u] = pc[u] /\ op'[u] = op[u] /\ val'[u] = val[u] /\ asked'[u] = asked[u]
      BY <3>2, <3>3, BeginMap
    <3> QED BY <3>1, <3>4, <3>5, <3>6
  <2>4. ThreadInv(t)'
    <3>1. /\ WellFormed(puts[t]) /\ Sound(puts[t], others[t], ByteMap)
          /\ ItsCall(puts[t], pc'[t], op'[t], asked'[t], val'[t])
      BY <1>0, <2>1, <2>3 DEF ThreadInv, ItsCall
    <3>2. /\ WellFormed(puts'[t]) /\ Sound(puts'[t], others'[t], ByteMap')
          /\ ItsCall(puts'[t], pc'[t], op'[t], asked'[t], val'[t])
      BY <2>1, <2>3, <3>1
    <3> QED BY <3>2 DEF ThreadInv
  <2>5. ASSUME NEW u \in Threads \ {t} PROVE ThreadInv(u)'
    BY <2>1, <2>3, OthersSound
  <2>6. BatchInv'
    BY <1>0, <2>1, <2>4, <2>5, BatchGlue
  <2>7. Put(t, item.key, item.val)
    BY <2>1 DEF Put
  <2> QED BY <2>2, <2>6, <2>7 DEF Next
<1>3. ASSUME NEW t \in Threads, CallStep(t) PROVE Next /\ BatchInv'
  <2> PICK b : b = puts[t]
    OBVIOUS
  <2> PICK s : s = reply'[t].status
    OBVIOUS
  <2>1. /\ Step(t)
        /\ puts' = IF Running(t) /\ pc'[t] = "idle"
                     THEN [puts EXCEPT ![t] = ItemPut(@, s)] ELSE puts
        /\ others' = IF op[t] = "put" /\ pc'[t] = "idle" /\ s = "OK"
                       THEN [u \in Threads |->
                               IF u # t /\ puts[u].status # "none"
                                 THEN others[u] \cup {asked[t]} ELSE others[u]]
                       ELSE others
    BY <1>3 DEF CallStep
  <2>2. /\ (pc[t] # "idle" /\ UNCHANGED <<op, val>>) \/ pc'[t] = "idle"
        /\ \A u \in Threads \ {t} :
             pc'[u] = pc[u] /\ op'[u] = op[u] /\ val'[u] = val[u] /\ asked'[u] = asked[u]
    <3>1. TP!Step(t)
      BY <2>1, SameStep DEF Step
    <3>2. \A u \in Threads \ {t} : asked'[u] = asked[u]
      BY <2>1 DEF Step, IndexInv, AskedInv
    <3> QED BY <3>1, <3>2, StepIsOwn
  <2>3. /\ pc[t] # "idle" /\ asked[t] \in ByteKeys
        /\ pc'[t] # "idle" => asked' = asked
    <3>1. TP!Step(t)
      BY <2>1, SameStep DEF Step
    <3>2. pc[t] # "idle"
      BY <3>1, StepIsOwn
    <3> QED BY <2>1, <3>2 DEF Step, IndexInv, AskedInv
  <2>4. /\ pc'[t] # "idle" => ByteMap' = ByteMap
        /\ pc'[t] = "idle" /\ op[t] = "put" =>
             /\ s \in {"OK", "ERR_NO_MEMORY"}
             /\ s = "OK" => ByteMap' = [ByteMap EXCEPT ![asked[t]] = val[t]]
             /\ s = "ERR_NO_MEMORY" => ByteMap' = ByteMap /\ ByteMap[asked[t]] = NoValue
        /\ op[t] # "put" => ByteMap' = ByteMap
    BY <2>1, StepOutcome
  <2>5. /\ WellFormed(b) /\ Sound(b, others[t], ByteMap)
        /\ b.status \in {"none", "running"}
        /\ b.status = "running" =>
             /\ op[t] = "put" /\ asked[t] = b.items[b.i + 1].key
             /\ val[t] = b.items[b.i + 1].val
    BY <1>0, <2>3 DEF ThreadInv, ItsCall
  <2>6. puts' \in [Threads -> Batches] /\ others' \in [Threads -> SUBSET ByteKeys]
    <3>1. others' \in [Threads -> SUBSET ByteKeys]
      BY <1>0, <2>1, <2>3
    <3>2. CASE Running(t) /\ pc'[t] = "idle"
      <4>1. ItemPut(b, s) \in Batches
        BY <2>4, <2>5, <3>2, ItemPutFacts DEF Running, WellFormed
      <4> QED BY <1>0, <2>1, <3>1, <3>2, <4>1
    <3>3. CASE ~(Running(t) /\ pc'[t] = "idle")
      BY <1>0, <2>1, <3>1, <3>3
    <3> QED BY <3>2, <3>3
  <2>7. ThreadInv(t)'
    <3>1. others'[t] = others[t]
      BY <1>0, <2>1
    <3>2. CASE Running(t) /\ pc'[t] = "idle"
      <4>1. puts'[t] = ItemPut(b, s) /\ b.status = "running" /\ op[t] = "put"
        BY <1>0, <2>1, <2>5, <3>2 DEF Running
      <4>2. WellFormed(puts'[t])
        BY <2>4, <2>5, <3>2, <4>1, ItemPutFacts
      <4>3. Sound(puts'[t], others'[t], ByteMap')
        <5>1. DOMAIN ByteMap = ByteKeys
          BY DEF ByteMap
        <5>2. /\ s \in {"OK", "ERR_NO_MEMORY"}
              /\ s = "OK" => ByteMap' = [ByteMap EXCEPT ![b.items[b.i + 1].key]
                                                         = b.items[b.i + 1].val]
              /\ s = "ERR_NO_MEMORY" =>
                   ByteMap' = ByteMap /\ ByteMap[b.items[b.i + 1].key] = NoValue
          BY <2>4, <2>5, <3>2, <4>1
        <5>3. Sound(ItemPut(b, s), others[t], ByteMap')
          BY <2>5, <4>1, <5>1, <5>2, SoundNext
        <5> QED BY <3>1, <4>1, <5>3
      <4> QED BY <3>2, <4>2, <4>3 DEF ThreadInv, ItsCall
    <3>3. CASE ~Running(t) /\ pc'[t] = "idle"
      <4>1. puts'[t] = b /\ b.status = "none"
        BY <2>1, <2>5, <3>3 DEF Running
      <4>2. /\ WellFormed(puts'[t]) /\ Sound(puts'[t], others'[t], ByteMap')
            /\ ItsCall(puts'[t], pc'[t], op'[t], asked'[t], val'[t])
        BY <2>5, <3>3, <4>1 DEF Sound, ItsCall
      <4> QED BY <4>2 DEF ThreadInv
    <3>4. CASE pc'[t] # "idle"
      <4>1. /\ puts'[t] = b /\ ByteMap' = ByteMap /\ asked'[t] = asked[t]
            /\ op'[t] = op[t] /\ val'[t] = val[t]
        BY <2>1, <2>2, <2>3, <2>4, <3>4
      <4>2. /\ WellFormed(puts'[t]) /\ Sound(puts'[t], others'[t], ByteMap')
            /\ ItsCall(puts'[t], pc'[t], op'[t], asked'[t], val'[t])
        BY <2>5, <3>1, <3>4, <4>1 DEF ItsCall
      <4> QED BY <4>2 DEF ThreadInv
    <3> QED BY <3>2, <3>3, <3>4
  <2>8. ASSUME NEW u \in Threads \ {t} PROVE ThreadInv(u)'
    <3>1. puts'[u] = puts[u] /\ others[u] \subseteq others'[u]
      BY <1>0, <2>1
    <3>2. ASSUME NEW k \in ByteKeys
          PROVE  ByteMap'[k] = ByteMap[k] \/ puts[u].status = "none" \/ k \in others'[u]
      <4>1. CASE ByteMap' = ByteMap
        BY <4>1
      <4>2. CASE ByteMap' # ByteMap
        <5>1. /\ op[t] = "put" /\ pc'[t] = "idle" /\ s = "OK"
              /\ ByteMap' = [ByteMap EXCEPT ![asked[t]] = val[t]]
          BY <2>4, <4>2
        <5>2. others'[u] = IF puts[u].status # "none" THEN others[u] \cup {asked[t]}
                                                      ELSE others[u]
          BY <2>1, <5>1
        <5>3. k # asked[t] => ByteMap'[k] = ByteMap[k]
          BY <5>1 DEF ByteMap
        <5> QED BY <5>2, <5>3
      <4> QED BY <4>1, <4>2
    <3> QED BY <2>2, <3>1, <3>2, OthersSound
  <2>9. BatchInv'
    BY <2>6, <2>7, <2>8, BatchGlue
  <2> QED BY <2>1, <2>9 DEF Next
<1>4. ASSUME NEW t \in Threads, NEW items \in PutBatches, PutBatchBegin(t, items)
      PROVE  UNCHANGED indexVars /\ BatchInv'
  <2> PICK b : b = [items |-> items, i |-> 0, end |-> WindowEnd(items, 0),
                    status |-> IF items = << >> THEN "OK" ELSE "running"]
    OBVIOUS
  <2>1. /\ pc[t] = "idle" /\ puts' = [puts EXCEPT ![t] = b]
        /\ others' = [others EXCEPT ![t] = {}] /\ UNCHANGED indexVars
    BY <1>4 DEF PutBatchBegin
  <2>2. items \in Seq(Items)
    BY PutBatchAssumption DEF Items
  <2>3. PICK L \in Nat : L = Len(items)
    BY <2>2
  <2>4. /\ WindowEnd(items, 0) \in Nat
        /\ items # << >> => 0 < WindowEnd(items, 0) /\ WindowEnd(items, 0) <= L
    <3>1. CASE L > 0
      BY <2>2, <2>3, <3>1, WindowFacts DEF Items
    <3>2. CASE L = 0
      <4>1. items = << >>
        BY <2>2, <2>3, <3>2, EmptySeq
      <4>2. \A x \in {0, Window} : (\A y \in {0, Window} : x <= y) => x = 0
        BY PutBatchAssumption
      <4>3. Min({0, Window}) = 0
        BY <4>2, PutBatchAssumption DEF Min
      <4>4. WindowEnd(items, 0) = 0
        BY <2>3, <3>2, <4>3 DEF WindowEnd
      <4> QED BY <4>1, <4>4
    <3> QED BY <2>3, <3>1, <3>2
  <2>5. WellFormed(b)
    <3>1. /\ b \in Batches /\ b.items = items /\ b.i = 0
          /\ b.end = WindowEnd(items, 0)
          /\ b.status = IF items = << >> THEN "OK" ELSE "running"
      BY <2>4 DEF Batches
    <3>2. items = << >> => L = 0
      BY <2>3
    <3> QED BY <2>3, <2>4, <3>1, <3>2 DEF WellFormed
  <2>6. puts' \in [Threads -> Batches] /\ others' \in [Threads -> SUBSET ByteKeys]
    BY <1>0, <2>1, <2>5 DEF WellFormed
  <2>7. ByteMap' = ByteMap
    BY <2>1 DEF indexVars, ByteMap, Trie!MapOf, Trie!Holders, Trie!Published
  <2>8. ThreadInv(t)'
    <3>1. puts'[t] = b /\ pc'[t] = "idle"
      BY <1>0, <2>1 DEF indexVars
    <3>2. /\ WellFormed(puts'[t]) /\ Sound(puts'[t], others'[t], ByteMap')
          /\ ItsCall(puts'[t], pc'[t], op'[t], asked'[t], val'[t])
      BY <2>5, <3>1 DEF Sound, ItsCall
    <3> QED BY <3>2 DEF ThreadInv
  <2>9. ASSUME NEW u \in Threads \ {t} PROVE ThreadInv(u)'
    <3>1. puts'[u] = puts[u] /\ others'[u] = others[u]
      BY <1>0, <2>1
    <3> QED BY <2>1, <2>7, <3>1, OthersSound DEF indexVars
  <2>10. BatchInv'
    BY <2>6, <2>8, <2>9, BatchGlue
  <2> QED BY <2>1, <2>10
<1>5. CASE UNCHANGED <<indexVars, batchVars>>
  <2>1. ByteMap' = ByteMap
    BY <1>5 DEF indexVars, ByteMap, Trie!MapOf, Trie!Holders, Trie!Published
  <2>2. \A u \in Threads : ThreadInv(u)'
    BY <1>5, <2>1, OthersSound DEF indexVars, batchVars
  <2> QED BY <1>0, <1>5, <2>2, BatchGlue DEF batchVars
<1> QED BY <1>1, <1>2, <1>3, <1>4, <1>5 DEF PutBatchNext

LEMMA BatchesImplementIndex == PutBatchSpec => Spec /\ [](IndexInv /\ BatchInv)
<1>1. PutBatchInit => Init
  BY DEF PutBatchInit
<1> QED BY <1>1, BatchInit, BatchNext, IndexNext, PTL DEF PutBatchSpec, Spec

\* Batches are batches of atomic Puts: with them the index still is an atomic map of
\* the callers' keys.
THEOREM BatchedIndexMapsCallersKeys == PutBatchSpec => MapsCallersKeys
BY BatchesImplementIndex, IndexMapsCallersKeys

\* Whatever the other threads do, a batch has put exactly the items it counts, later
\* duplicates win, and the item it stopped at was absent.
THEOREM BatchesAreTheirPuts == PutBatchSpec => []BatchIsItsPuts
<1>1. BatchInv => BatchIsItsPuts
  <2> SUFFICES ASSUME BatchInv, NEW t \in Threads, puts[t].status # "none"
               PROVE  LET b == puts[t]
                          Has(k) == Trie!MapOf[Pair(k)]
                      IN /\ b.status = "OK" => b.i = Len(b.items)
                         /\ \A j \in 1..b.i : LET k == b.items[j].key IN
                              k \notin others[t] => Has(k) = LastOf(b.items, b.i, k)
                         /\ b.status = "ERR_NO_MEMORY" =>
                              LET k == b.items[b.i + 1].key IN
                                k \notin others[t] => Has(k) = NoValue
    BY DEF BatchIsItsPuts
  <2> PICK b : b = puts[t]
    OBVIOUS
  <2>1. WellFormed(b) /\ Sound(b, others[t], ByteMap)
    BY DEF BatchInv
  <2>2. \A j \in 1..Len(b.items) : b.items[j].key \in ByteKeys
    BY <2>1, ItemsAreItems
  <2>3. \A k \in ByteKeys : Trie!MapOf[Pair(k)] = ByteMap[k]
    BY DEF ByteMap
  <2>4. b.i \in Nat /\ Len(b.items) \in Nat /\ b.i <= Len(b.items)
    BY <2>1, ItemsAreItems DEF WellFormed
  <2>5. ASSUME NEW j \in 1..b.i, b.items[j].key \notin others[t]
        PROVE  Trie!MapOf[Pair(b.items[j].key)] = LastOf(b.items, b.i, b.items[j].key)
    <3>1. b.items[j].key \in ByteKeys
      BY <2>2, <2>4
    <3>2. ByteMap[b.items[j].key] = LastOf(b.items, b.i, b.items[j].key)
      BY <2>1, <2>5 DEF Sound
    <3> QED BY <2>3, <3>1, <3>2
  <2>6. ASSUME b.status = "ERR_NO_MEMORY", b.items[b.i + 1].key \notin others[t]
        PROVE  Trie!MapOf[Pair(b.items[b.i + 1].key)] = NoValue
    <3>1. b.items[b.i + 1].key \in ByteKeys
      <4>1. b.i + 1 \in 1..Len(b.items)
        BY <2>1, <2>4, <2>6 DEF WellFormed
      <4> QED BY <2>2, <4>1
    <3>2. ByteMap[b.items[b.i + 1].key] = NoValue
      BY <2>1, <2>6 DEF Sound
    <3> QED BY <2>3, <3>1, <3>2
  <2> QED BY <2>1, <2>5, <2>6 DEF WellFormed
<1> QED BY <1>1, BatchesImplementIndex, PTL
==============================================================================
