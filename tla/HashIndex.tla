------------------------------ MODULE HashIndex ------------------------------
(***************************************************************************)
(* The lock-free index of src/rg_hash_index.c: a trie whose nodes hold two *)
(* digests of a key and never its bytes.  Put and Get hash the key twice   *)
(* and go on with the pair of digests exactly as HashTrie goes on with a   *)
(* key: the pair decides the route (the first digest until it is spent,    *)
(* both from the first reseed on) and is what a visited node is compared   *)
(* with.  The callers' keys are remembered only here, as history.          *)
(***************************************************************************)
EXTENDS Integers

CONSTANTS Threads, ByteKeys, Values,
          NoValue, Null, Root, Capacity, Branches, MaxDepth,
          H1, H2,       \* key -> wyhash seeded with WYP0, with WYP2
          Route         \* Route[<<h1, h2>>][d]: branch taken at level d

\* Mutant: both digests from one seed.
PairOneSeed(k) == <<H1[k], H1[k]>>

\* rgm_hash_wyhash_dual_seeded: what the index knows of a key.
Pair(k) == <<H1[k], H2[k]>>
Pairs   == {Pair(k) : k \in ByteKeys}

\* "~2^128 effective collision space": no two keys in use agree on both digests.
ASSUME IndexAssumption ==
  /\ \A j, k \in ByteKeys : H1[j] = H1[k] /\ H2[j] = H2[k] => j = k
  /\ Route \in [Pairs -> [0..MaxDepth -> Branches]]
  /\ Capacity \in Nat /\ MaxDepth \in Nat
  /\ {Null, Root} \cap (Threads \X (1..Capacity)) = {}
  /\ Null \notin Pairs /\ Null \notin ByteKeys /\ NoValue \notin Values
  /\ Null \notin [op : {"put", "get"}, key : Pairs \cup ByteKeys,
                   val : Values \cup {NoValue}]

VARIABLES slot, nkey, nval, level, used, pc, op, key, val, at, depth, cur, reply,
          asked         \* thread -> the caller's key of the call it is in (history)

Trie == INSTANCE HashTrie WITH Keys <- Pairs, Miss <- "ERR_NOT_FOUND"

indexVars == <<slot, nkey, nval, level, used, pc, op, key, val, at, depth, cur, reply,
               asked>>

Init == Trie!Init /\ asked = [t \in Threads |-> Null]

\* rgHashIndexPut and rgHashIndexGet of a key.
Put(t, k, v) == Trie!Begin(t, "put", Pair(k), v) /\ asked' = [asked EXCEPT ![t] = k]
Get(t, k)    == Trie!Begin(t, "get", Pair(k), NoValue) /\ asked' = [asked EXCEPT ![t] = k]

\* A step of rgHashIndexPutH or rgHashIndexGetH.
Step(t) ==
  /\ Trie!Step(t)
  /\ asked' = IF pc'[t] = "idle" THEN [asked EXCEPT ![t] = Null] ELSE asked

Next == \E t \in Threads :
          \/ \E k \in ByteKeys : Get(t, k) \/ \E v \in Values : Put(t, k, v)
          \/ Step(t)

Spec == Init /\ [][Next]_indexVars
------------------------------------------------------------------------------
Bytes == INSTANCE AtomicMap WITH
  Keys <- ByteKeys, Miss <- "ERR_NOT_FOUND",
  map  <- [k \in ByteKeys |-> Trie!MapOf[Pair(k)]],
  call <- [t \in Threads |->
             IF pc[t] = "idle" THEN Null
             ELSE [op |-> op[t], key |-> asked[t], val |-> val[t]]]

\* Without ever seeing a key again, the index is an atomic map of the callers' own
\* keys: two keys whose first digests collide, all the way down the first digest,
\* stay two entries under racing Puts, and a miss is answered NOT_FOUND.
MapsCallersKeys == Bytes!Spec
==============================================================================
