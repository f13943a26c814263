------------------------------- MODULE HashTrie -------------------------------
(***************************************************************************)
(* The lock-free hash trie of src/rg_hash_trie.c: Put and Get by several   *)
(* threads, one action per access to shared memory.                        *)
(*                                                                         *)
(* A slot is a 64-bit word: an entry of m_top (or m_root) or one of the    *)
(* four m_child words of a node.  A thread walks from the root slot of its *)
(* key and, at level d, takes branch Route[k][d]: level 0 is the top-level *)
(* index, the others are h >> 62 of the working register, reseeds          *)
(* included (module HashDescent computes it).  The level reached stands    *)
(* for the pair (h, round) of the code.                                    *)
(*                                                                         *)
(* Each thread allocates from an arena of its own, which holds Capacity    *)
(* nodes.  Node <<t, i>> is the i-th node that thread t bumped.            *)
(***************************************************************************)
EXTENDS Integers, FiniteSets

CONSTANTS Threads, Keys, Values,
          NoValue, Null, Root,
          Miss,         \* status of a Get that finds nothing
          Capacity,     \* nodes that fit in one thread's arena
          Branches,     \* branch numbers: 0..3 and the top-level indices
          MaxDepth,     \* bound: deepest level of the routes given
          Route         \* Route[k][d]: branch that key k takes at level d

ASSUME TrieAssumption ==
  /\ Capacity \in Nat /\ MaxDepth \in Nat
  /\ Route \in [Keys -> [0..MaxDepth -> Branches]]
  /\ Null \notin Keys
  /\ NoValue \notin Values
  /\ Null \notin Threads \X (1..Capacity)
  /\ Null \notin [op : {"put", "get"}, key : Keys, val : Values \cup {NoValue}]
  /\ Root \notin Threads \X (1..Capacity)

Node  == Threads \X (1..Capacity)
Slots == (Node \cup {Root}) \X Branches

VARIABLES
  slot,                 \* slot -> the node published in it, or Null
  nkey, nval,           \* node -> m_hash/m_keyLen/key bytes, m_value
  level,                \* node -> level it was created for (history)
  used,                 \* thread -> nodes its arena has handed out
  pc, op, key, val,     \* thread -> where its call is, and its arguments
  at, depth, cur,       \* thread -> locals slot, (h, round), cur
  reply                 \* thread -> what its last call returned

shared == <<slot, nkey, nval, level, used>>
args   == <<op, key, val>>
vars   == <<slot, nkey, nval, level, used, pc, op, key, val, at, depth, cur, reply>>

Replies == [status : {"OK", Miss, "ERR_NO_MEMORY"},
            val    : Values \cup {NoValue}]

\* The nodes some slot holds: those a walk can reach.
Published == {slot[s] : s \in Slots} \ {Null}

\* The node a Put has just taken from its arena.
Fresh(t) == <<t, used[t]>>

Init ==
  /\ slot  = [s \in Slots |-> Null]
  /\ nkey  = [n \in Node |-> Null]
  /\ nval  = [n \in Node |-> NoValue]
  /\ level = [n \in Node |-> 0]
  /\ used  = [t \in Threads |-> 0]
  /\ pc    = [t \in Threads |-> "idle"]
  /\ op    = [t \in Threads |-> Null]
  /\ key   = [t \in Threads |-> Null]
  /\ val   = [t \in Threads |-> NoValue]
  /\ at    = [t \in Threads |-> Null]
  /\ depth = [t \in Threads |-> 0]
  /\ cur   = [t \in Threads |-> Null]
  /\ reply = [t \in Threads |-> Null]

\* Entry of rgHashTriePut / rgHashTrieGet: hash the key, find its root slot.
Begin(t, o, k, v) ==
  /\ pc[t] = "idle"
  /\ pc'    = [pc EXCEPT ![t] = "load"]
  /\ op'    = [op EXCEPT ![t] = o]
  /\ key'   = [key EXCEPT ![t] = k]
  /\ val'   = [val EXCEPT ![t] = v]
  /\ at'    = [at EXCEPT ![t] = <<Root, Route[k][0]>>]
  /\ depth' = [depth EXCEPT ![t] = 0]
  /\ reply' = [reply EXCEPT ![t] = Null]
  /\ UNCHANGED <<shared, cur>>

PutBegin(t) == \E k \in Keys, v \in Values : Begin(t, "put", k, v)
GetBegin(t) == \E k \in Keys : Begin(t, "get", k, NoValue)

\* Return: the locals are gone.
Return(t, s, v) ==
  /\ pc'    = [pc EXCEPT ![t] = "idle"]
  /\ op'    = [op EXCEPT ![t] = Null]
  /\ key'   = [key EXCEPT ![t] = Null]
  /\ val'   = [val EXCEPT ![t] = NoValue]
  /\ at'    = [at EXCEPT ![t] = Null]
  /\ depth' = [depth EXCEPT ![t] = 0]
  /\ cur'   = [cur EXCEPT ![t] = Null]
  /\ reply' = [reply EXCEPT ![t] = [status |-> s, val |-> v]]

\* cur = rgm_atomic_load_i64(slot) on a slot that holds a node.
LoadNode(t) ==
  /\ pc[t] = "load" /\ slot[at[t]] # Null
  /\ cur' = [cur EXCEPT ![t] = slot[at[t]]]
  /\ pc'  = [pc EXCEPT ![t] = "visit"]
  /\ UNCHANGED <<shared, args, at, depth, reply>>

\* The load of an empty slot ends a Get: not found.
GetMiss(t) ==
  /\ pc[t] = "load" /\ op[t] = "get" /\ slot[at[t]] = Null
  /\ Return(t, Miss, NoValue)
  /\ UNCHANGED shared

\* Mutant: the node is created before the slot is looked at.
PutCreateEager(t) ==
  /\ pc[t] = "load" /\ op[t] = "put" /\ used[t] < Capacity
  /\ used'  = [used EXCEPT ![t] = @ + 1]
  /\ nkey'  = [nkey  EXCEPT ![<<t, used[t] + 1>>] = key[t]]
  /\ nval'  = [nval  EXCEPT ![<<t, used[t] + 1>>] = val[t]]
  /\ level' = [level EXCEPT ![<<t, used[t] + 1>>] = depth[t]]
  /\ pc'    = [pc EXCEPT ![t] = "cas"]
  /\ UNCHANGED <<slot, args, at, depth, cur, reply>>

\* The load of an empty slot makes a Put create a node.  The node is private
\* to the thread until it is published, so load and creation are one step.
PutCreate(t) ==
  /\ pc[t] = "load" /\ op[t] = "put" /\ slot[at[t]] = Null
  /\ used[t] < Capacity
  /\ used'  = [used EXCEPT ![t] = @ + 1]
  /\ nkey'  = [nkey  EXCEPT ![<<t, used[t] + 1>>] = key[t]]
  /\ nval'  = [nval  EXCEPT ![<<t, used[t] + 1>>] = val[t]]
  /\ level' = [level EXCEPT ![<<t, used[t] + 1>>] = depth[t]]
  /\ pc'    = [pc EXCEPT ![t] = "cas"]
  /\ UNCHANGED <<slot, args, at, depth, cur, reply>>

PutNoMemory(t) ==
  /\ pc[t] = "load" /\ op[t] = "put" /\ slot[at[t]] = Null
  /\ used[t] = Capacity
  /\ Return(t, "ERR_NO_MEMORY", NoValue)
  /\ UNCHANGED shared

\* Mutant: a plain store instead of the CAS.
PutPublishBlindly(t) ==
  /\ pc[t] = "cas"
  /\ slot' = [slot EXCEPT ![at[t]] = Fresh(t)]
  /\ Return(t, "OK", NoValue)
  /\ UNCHANGED <<nkey, nval, level, used>>

\* rgm_atomic_cas_val_i64(slot, 0, node) that finds 0.
PutPublish(t) ==
  /\ pc[t] = "cas" /\ slot[at[t]] = Null
  /\ slot' = [slot EXCEPT ![at[t]] = Fresh(t)]
  /\ Return(t, "OK", NoValue)
  /\ UNCHANGED <<nkey, nval, level, used>>

\* Mutants of the lost race: give up as if the winner had stored our value;
\* go down without comparing the winner's key; try the same CAS again.
PutLoseRaceGivesUp(t) ==
  /\ pc[t] = "cas" /\ slot[at[t]] # Null
  /\ Return(t, "OK", NoValue)
  /\ UNCHANGED shared

PutLoseRaceSkipsMatch(t) ==
  /\ pc[t] = "cas" /\ slot[at[t]] # Null /\ depth[t] < MaxDepth
  /\ at'    = [at EXCEPT ![t] = <<slot[at[t]], Route[key[t]][depth[t] + 1]>>]
  /\ depth' = [depth EXCEPT ![t] = @ + 1]
  /\ pc'    = [pc EXCEPT ![t] = "load"]
  /\ UNCHANGED <<shared, args, cur, reply>>

PutLoseRaceSpins(t) ==
  /\ pc[t] = "cas" /\ slot[at[t]] # Null
  /\ UNCHANGED vars

\* The CAS that loses: the walk goes on from the node that won, and the fresh
\* node stays in the arena, unreachable.
PutLoseRace(t) ==
  /\ pc[t] = "cas" /\ slot[at[t]] # Null
  /\ cur' = [cur EXCEPT ![t] = slot[at[t]]]
  /\ pc'  = [pc EXCEPT ![t] = "visit"]
  /\ UNCHANGED <<shared, args, at, depth, reply>>

\* The node visited has the key: atomic store of the value.
PutOverwrite(t) ==
  /\ pc[t] = "visit" /\ op[t] = "put" /\ nkey[cur[t]] = key[t]
  /\ nval' = [nval EXCEPT ![cur[t]] = val[t]]
  /\ Return(t, "OK", NoValue)
  /\ UNCHANGED <<slot, nkey, level, used>>

\* The node visited has the key: atomic load of the value.
GetHit(t) ==
  /\ pc[t] = "visit" /\ op[t] = "get" /\ nkey[cur[t]] = key[t]
  /\ Return(t, "OK", nval[cur[t]])
  /\ UNCHANGED shared

\* Mutant: the branch is taken from a register that was not shifted.
DescendUnshifted(t) ==
  /\ pc[t] = "visit" /\ nkey[cur[t]] # key[t]
  /\ depth[t] < MaxDepth
  /\ at'    = [at EXCEPT ![t] = <<cur[t], Route[key[t]][depth[t]]>>]
  /\ depth' = [depth EXCEPT ![t] = @ + 1]
  /\ cur'   = [cur EXCEPT ![t] = Null]
  /\ pc'    = [pc EXCEPT ![t] = "load"]
  /\ UNCHANGED <<shared, args, reply>>

\* slot = &n->m_child[h >> 62]; h <<= 2, reseeded when it becomes 0.
Descend(t) ==
  /\ pc[t] = "visit" /\ nkey[cur[t]] # key[t]
  /\ depth[t] < MaxDepth
  /\ at'    = [at EXCEPT ![t] = <<cur[t], Route[key[t]][depth[t] + 1]>>]
  /\ depth' = [depth EXCEPT ![t] = @ + 1]
  /\ cur'   = [cur EXCEPT ![t] = Null]
  /\ pc'    = [pc EXCEPT ![t] = "load"]
  /\ UNCHANGED <<shared, args, reply>>

\* The steps of a call in progress.
Step(t) ==
  \/ LoadNode(t) \/ GetMiss(t) \/ GetHit(t) \/ Descend(t)
  \/ PutCreate(t) \/ PutNoMemory(t) \/ PutPublish(t) \/ PutLoseRace(t)
  \/ PutOverwrite(t)

Next == \E t \in Threads : PutBegin(t) \/ GetBegin(t) \/ Step(t)

Spec     == Init /\ [][Next]_vars
\* A thread inside a call is scheduled again: the code never blocks.
FairSpec == Spec /\ \A t \in Threads : WF_vars(Step(t))
------------------------------------------------------------------------------
TypeOK ==
  /\ slot  \in [Slots -> Node \cup {Null}]
  /\ nkey  \in [Node -> Keys \cup {Null}]
  /\ nval  \in [Node -> Values \cup {NoValue}]
  /\ level \in [Node -> 0..MaxDepth]
  /\ used  \in [Threads -> 0..Capacity]
  /\ pc    \in [Threads -> {"idle", "load", "visit", "cas"}]
  /\ op    \in [Threads -> {"put", "get", Null}]
  /\ key   \in [Threads -> Keys \cup {Null}]
  /\ val   \in [Threads -> Values \cup {NoValue}]
  /\ at    \in [Threads -> Slots \cup {Null}]
  /\ depth \in [Threads -> 0..MaxDepth]
  /\ cur   \in [Threads -> Node \cup {Null}]
  /\ reply \in [Threads -> Replies \cup {Null}]

------------------------------------------------------------------------------
(***************************************************************************)
(* The map the trie represents.                                            *)
(***************************************************************************)
Holders(k) == {n \in Published : nkey[n] = k}

MapOf == [k \in Keys |-> IF Holders(k) = {} THEN NoValue
                         ELSE nval[CHOOSE n \in Holders(k) : TRUE]]

CallOf == [t \in Threads |->
             IF pc[t] = "idle" THEN Null
             ELSE [op |-> op[t], key |-> key[t], val |-> val[t]]]

Abs == INSTANCE AtomicMap WITH map <- MapOf, call <- CallOf

\* Every Put and Get is linearizable: it takes effect at one instant of the
\* call, lost CAS races and walks through half-built paths included, and
\* NO_MEMORY is answered only for a key that is absent at that instant.
Linearizable == Abs!Spec

\* A key is published at most once, however many Puts of it race: the loser
\* of a CAS must recognise the winner's key before it goes down.
UniqueKeys == \A k \in Keys : Cardinality(Holders(k)) <= 1

\* "A published pointer is never overwritten": the invariant that spares the
\* algorithm tags and generations, and lets a loser go on from the pointer
\* its CAS returned without loading the slot again.
PublishedStays ==
  [][\A s \in Slots : slot[s] # Null => slot'[s] = slot[s]]_vars

\* "Lost CAS races leak the loser's node ... bounded by retry rate": a thread
\* never leaks more nodes than the other threads published.
Created(t)  == {t} \X (1..used[t])
InFlight(t) == IF pc[t] = "cas" THEN {Fresh(t)} ELSE {}
Leaked(t)   == Created(t) \ (Published \cup InFlight(t))
LeakBound == \A t \in Threads :
               Cardinality(Leaked(t)) <= Cardinality(Published \ Created(t))

\* Every call returns: the walk always reaches an empty slot or its key,
\* whatever the other threads publish in its way.
CallsReturn == \A t \in Threads : pc[t] # "idle" ~> pc[t] = "idle"
------------------------------------------------------------------------------
(***************************************************************************)
(* Why the trie is correct: an inductive invariant.                        *)
(***************************************************************************)
\* The routes of k1 and k2 share their first d branches.
Agree(k1, k2, d) == \A i \in 0..(d - 1) : Route[k1][i] = Route[k2][i]

\* Slot s is where key k is looked for at level d: the branch is the route's,
\* and the parent is a published node one level up that k's route leads to.
OnRoute(k, s, d) ==
  /\ s[2] = Route[k][d]
  /\ s[1] = Root => d = 0
  /\ s[1] # Root => /\ s[1] \in Published
                    /\ d = level[s[1]] + 1
                    /\ Agree(k, nkey[s[1]], d)

\* A published node came from an arena, and is in a slot on its key's route.
Placed ==
  \A s \in Slots : slot[s] # Null =>
    LET n == slot[s] IN
    /\ n[2] <= used[n[1]]
    /\ nkey[n] \in Keys /\ nval[n] \in Values
    /\ OnRoute(nkey[n], s, level[n])

\* Each prefix of a route leads to at most one node, ...
OnePerPrefix ==
  \A m, n \in Published :
    level[m] = level[n] /\ Agree(nkey[m], nkey[n], level[n] + 1) => m = n

\* ... and to exactly one when some published node is at or below it.
NoGap ==
  \A n \in Published : \A d \in 0..level[n] :
    \E a \in Published : level[a] = d /\ Agree(nkey[n], nkey[a], d + 1)

\* No two published nodes have the same key.
KeyOnce == \A m, n \in Published : nkey[m] = nkey[n] => m = n

\* A walk is at the slot of its route at the depth it reached, and it left
\* no published node with its key behind.
WalkOnRoute(t) ==
  pc[t] # "idle" =>
    /\ key[t] \in Keys /\ at[t] \in Slots
    /\ \/ op[t] = "put" /\ val[t] \in Values
       \/ op[t] = "get" /\ val[t] = NoValue
    /\ OnRoute(key[t], at[t], depth[t])
    /\ \A n \in Published : nkey[n] = key[t] => level[n] >= depth[t]

\* What a thread knows at each label.
AtLabel(t) ==
  /\ pc[t] = "visit" => cur[t] # Null /\ slot[at[t]] = cur[t]
  /\ pc[t] = "cas"   => /\ op[t] = "put" /\ used[t] > 0
                        /\ Fresh(t) \notin Published
                        /\ nkey[Fresh(t)] = key[t]
                        /\ nval[Fresh(t)] = val[t]
                        /\ level[Fresh(t)] = depth[t]

Shape == Placed /\ OnePerPrefix /\ NoGap /\ KeyOnce
IInv  == TypeOK /\ Shape /\ \A t \in Threads : WalkOnRoute(t) /\ AtLabel(t)
==============================================================================
