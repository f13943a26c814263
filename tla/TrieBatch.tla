------------------------------ MODULE TrieBatch ------------------------------
(***************************************************************************)
(* rgHashTrieGetBatchU64, and rgHashIndexGetBatchH, whose text is the      *)
(* same: Lanes walks at once, one step of one lane at a time in turn, and  *)
(* a lane that has its answer takes the next key.  One action per load of  *)
(* shared memory, while writers publish nodes and overwrite values.        *)
(*                                                                         *)
(* PutBatch runs the same walk without outputs, which changes nothing, and *)
(* then its Puts one by one.                                               *)
(***************************************************************************)
EXTENDS TrieWatch, Sequences

CONSTANTS Lanes,        \* RGM_HASH_TRIE_BATCH_K
          Batches       \* the key sequences asked for

ASSUME BatchAssumption == Lanes \in Nat \ {0} /\ \A b \in Batches : b \in Seq(Keys)

VARIABLES
  batch,        \* _keys
  phase,        \* "idle", "fill" (the lanes for the first time), "walk", "done"
  turn,         \* i, the lane whose turn it is
  next,         \* index of the next key to start
  idx,          \* lane -> index of its key, 0: an idle lane
  lcur, ldepth, \* lane -> cur, and the level (h, rnd) stand for
  answer,       \* index -> what outFound and outValues say of it (NoValue:
                \* not found), Null when they were not written
  hits

lanes == <<idx, lcur, ldepth>>
bvars == <<batch, phase, turn, next, lanes, answer, hits>>
Lane  == 0..(Lanes - 1)
LaneKey(i) == batch[idx[i]]
Live  == {i \in Lane : idx[i] # 0}

\* The next lane in turn after lane i, of those that are live.
After(i, live) ==
  CHOOSE j \in live : \A k \in live : (j - i - 1) % Lanes <= (k - i - 1) % Lanes

BatchInit ==
  /\ batch = << >> /\ phase = "idle" /\ turn = 0 /\ next = 1 /\ hits = 0
  /\ idx = [i \in Lane |-> 0]
  /\ lcur = [i \in Lane |-> Null] /\ ldepth = [i \in Lane |-> 0]
  /\ answer = << >>

BatchBegin(keys) ==
  /\ phase \in {"idle", "done"}
  /\ batch' = keys /\ phase' = "fill" /\ turn' = 0 /\ next' = 1 /\ hits' = 0
  /\ answer' = [j \in DOMAIN keys |-> Null]
  /\ WatchBegin
  /\ UNCHANGED lanes

\* Lane i is without a key.
Rest(i) ==
  /\ next > Len(batch)
  /\ idx' = [idx EXCEPT ![i] = 0] /\ ldepth' = [ldepth EXCEPT ![i] = 0]
  /\ UNCHANGED <<lcur, next, answer>>

\* Mutant: the level of the walk before is kept.
StartKeepsLevel(i) ==
  \/ Rest(i)
  \/ /\ next <= Len(batch)
     /\ idx'    = [idx EXCEPT ![i] = next]
     /\ lcur'   = [lcur EXCEPT ![i] = slot[<<Root, Route[batch[next]][0]>>]]
     /\ answer' = [answer EXCEPT ![next] = NoValue]
     /\ next'   = next + 1
     /\ UNCHANGED ldepth

\* Lane i takes the next key, if there is one: its root slot is loaded and its
\* outFound cleared.
Start(i) ==
  \/ Rest(i)
  \/ /\ next <= Len(batch)
     /\ idx'    = [idx EXCEPT ![i] = next]
     /\ lcur'   = [lcur EXCEPT ![i] = slot[<<Root, Route[batch[next]][0]>>]]
     /\ ldepth' = [ldepth EXCEPT ![i] = 0]
     /\ answer' = [answer EXCEPT ![next] = NoValue]
     /\ next'   = next + 1

\* The first pass over the lanes.
Fill ==
  /\ phase = "fill"
  /\ Start(turn)
  /\ turn'  = (turn + 1) % Lanes
  /\ phase' = IF turn < Lanes - 1 THEN "fill"
              ELSE IF idx'[0] = 0 THEN "done" ELSE "walk"
  /\ UNCHANGED <<batch, hits, during>>

Matches == nkey[lcur[turn]] = LaneKey(turn)

\* The node is another key's: its child slot is loaded.
LaneDescend ==
  /\ phase = "walk" /\ lcur[turn] # Null /\ ~Matches /\ ldepth[turn] < MaxDepth
  /\ lcur'   = [lcur EXCEPT ![turn] = slot[<<@, Route[LaneKey(turn)][ldepth[turn] + 1]>>]]
  /\ ldepth' = [ldepth EXCEPT ![turn] = @ + 1]
  /\ turn'   = After(turn, Live)
  /\ UNCHANGED <<batch, phase, next, idx, answer, hits, during>>

\* The node has the lane's key: its value is loaded, and the lane is finished.
LaneHit ==
  /\ phase = "walk" /\ lcur[turn] # Null /\ Matches
  /\ answer' = [answer EXCEPT ![idx[turn]] = nval[lcur[turn]]]
  /\ lcur'   = [lcur EXCEPT ![turn] = Null]
  /\ hits'   = hits + 1
  /\ UNCHANGED <<batch, phase, turn, next, idx, ldepth, during>>

\* A finished lane, after its hit or at an empty slot, takes the next key; with
\* the last lane the call returns.
Refill ==
  /\ phase = "walk" /\ lcur[turn] = Null
  /\ Start(turn)
  /\ IF Live' = {} THEN phase' = "done" /\ turn' = 0
                   ELSE phase' = "walk" /\ turn' = After(turn, Live')
  /\ UNCHANGED <<batch, hits, during>>

GetBatch ==
  \/ Fill \/ LaneDescend \/ LaneHit \/ Refill
  \/ \E keys \in Batches : BatchBegin(keys)

\* What a batch that has returned answered is forgotten.
BatchForget ==
  /\ phase' = "idle" /\ batch' = << >> /\ answer' = << >> /\ next' = 1 /\ hits' = 0
  /\ UNCHANGED <<turn, lanes>>
------------------------------------------------------------------------------
\* The answer at every index of a batch was right for that index's key at some
\* instant of the call, duplicates of a key and lanes that finish out of order
\* included; no index is left unanswered, and the count returned is the number
\* of indices reported found.
BatchAnswersFit ==
  phase = "done" => /\ \A j \in DOMAIN batch : answer[j] \in during[batch[j]]
                    /\ hits = Cardinality({j \in DOMAIN batch : answer[j] # NoValue})
==============================================================================
