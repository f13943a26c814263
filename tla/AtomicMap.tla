------------------------------ MODULE AtomicMap ------------------------------
(***************************************************************************)
(* What a concurrent key -> value map of rg_memory promises its callers:   *)
(* every call takes effect at one instant between its invocation and its   *)
(* return.  HashTrie (and, with a key that is a hash pair, HashIndex) is   *)
(* shown to implement this module.                                         *)
(***************************************************************************)
CONSTANTS Threads, Keys, Values,
          NoValue,      \* no value stored, or no value returned
          Null,         \* no call in progress, no reply yet
          Miss          \* the status of a Get that finds no key

VARIABLES map,          \* key -> its value, NoValue when absent
          call,         \* thread -> the call it is inside of, or Null
          reply         \* thread -> what its last call returned, or Null

vars == <<map, call, reply>>

Calls   == [op : {"put"}, key : Keys, val : Values]
             \cup [op : {"get"}, key : Keys, val : {NoValue}]
Replies == [status : {"OK", Miss, "ERR_NO_MEMORY"},
            val    : Values \cup {NoValue}]

Init ==
  /\ map   = [k \in Keys |-> NoValue]
  /\ call  = [t \in Threads |-> Null]
  /\ reply = [t \in Threads |-> Null]

Invoke(t, c) ==
  /\ call[t] = Null
  /\ call'  = [call EXCEPT ![t] = c]
  /\ reply' = [reply EXCEPT ![t] = Null]
  /\ UNCHANGED map

Answer(t, s, v) ==
  /\ call'  = [call EXCEPT ![t] = Null]
  /\ reply' = [reply EXCEPT ![t] = [status |-> s, val |-> v]]

\* A Put stores its value, whether or not its key was there.
Put(t) ==
  /\ call[t] # Null /\ call[t].op = "put"
  /\ map' = [map EXCEPT ![call[t].key] = call[t].val]
  /\ Answer(t, "OK", NoValue)

\* A Put may run out of memory, but only while its key is absent:
\* overwriting needs no allocation.
PutFails(t) ==
  /\ call[t] # Null /\ call[t].op = "put"
  /\ map[call[t].key] = NoValue
  /\ Answer(t, "ERR_NO_MEMORY", NoValue)
  /\ UNCHANGED map

\* A Get answers with the value the key has at this instant.
GetHit(t) ==
  /\ call[t] # Null /\ call[t].op = "get"
  /\ map[call[t].key] # NoValue
  /\ Answer(t, "OK", map[call[t].key])
  /\ UNCHANGED map

GetMiss(t) ==
  /\ call[t] # Null /\ call[t].op = "get"
  /\ map[call[t].key] = NoValue
  /\ Answer(t, Miss, NoValue)
  /\ UNCHANGED map

Next ==
  \E t \in Threads :
    \/ \E c \in Calls : Invoke(t, c)
    \/ Put(t) \/ PutFails(t) \/ GetHit(t) \/ GetMiss(t)

Spec == Init /\ [][Next]_vars
==============================================================================
