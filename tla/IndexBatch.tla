------------------------------ MODULE IndexBatch ------------------------------
(***************************************************************************)
(* rgHashIndexPutBatchH over the index, with other threads' Puts, Gets and *)
(* batches under way: windows of items, each put by a call of its own, up  *)
(* to the first that fails.  rgHashTriePutBatchU64 and                     *)
(* rgHashMapPutBatchU64 are the same loop.  The walk that warms each       *)
(* window writes nothing and is left out (its loads are those of           *)
(* TrieBatch).                                                             *)
(***************************************************************************)
EXTENDS HashIndex, Sequences, FiniteSetsExt

CONSTANTS Window,       \* RGM_HASH_INDEX_PUT_WINDOW
          PutBatches    \* the sequences of items asked for: [key, val]

ASSUME PutBatchAssumption ==
  /\ Window \in Nat \ {0}
  /\ \A items \in PutBatches : items \in Seq([key : ByteKeys, val : Values])

VARIABLES
  puts,         \* thread -> its batch: items, i (those put), end (of the window),
                \* status ("none", "running", or what the batch returned)
  others        \* thread -> keys that others put since its batch began (history)

batchVars == <<puts, others>>

NoBatch == [items |-> << >>, i |-> 0, end |-> 0, status |-> "none"]
Running(t) == puts[t].status = "running"

\* The end of the window that starts after `done` items.
WindowEnd(items, done) == done + Min({Len(items) - done, Window})

PutBatchInit == /\ Init
                /\ puts = [t \in Threads |-> NoBatch]
                /\ others = [t \in Threads |-> {}]

PutBatchBegin(t, items) ==
  /\ pc[t] = "idle" /\ ~Running(t)
  /\ puts' = [puts EXCEPT ![t] =
                [items |-> items, i |-> 0, end |-> WindowEnd(items, 0),
                 status |-> IF items = << >> THEN "OK" ELSE "running"]]
  /\ others' = [others EXCEPT ![t] = {}]
  /\ UNCHANGED indexVars

\* The call of Put for the next item.
PutItem(t) ==
  /\ Running(t)
  /\ LET item == puts[t].items[puts[t].i + 1] IN Put(t, item.key, item.val)
  /\ UNCHANGED batchVars

\* Mutant: the error of the last item of a window is not looked at.
ItemPutLeniently(b, status) ==
  LET i    == b.i + 1
      done == [b EXCEPT !.i = i]
  IN  IF i < b.end THEN IF status = "OK" THEN done ELSE [b EXCEPT !.status = status]
      ELSE IF i = Len(b.items) THEN [done EXCEPT !.status = "OK"]
      ELSE [done EXCEPT !.end = WindowEnd(b.items, i)]

\* What the batch does when that Put returns: end, go on in the window, or open
\* the next.
ItemPut(b, status) ==
  LET i    == b.i + 1
      done == [b EXCEPT !.i = i]
  IN  IF status # "OK" THEN [b EXCEPT !.status = status]
      ELSE IF i < b.end THEN done
      ELSE IF i = Len(b.items) THEN [done EXCEPT !.status = "OK"]
      ELSE [done EXCEPT !.end = WindowEnd(b.items, i)]

\* A step of a Put or a Get, one of a batch's or a single one.
CallStep(t) ==
  /\ Step(t)
  /\ puts' = IF Running(t) /\ pc'[t] = "idle"
               THEN [puts EXCEPT ![t] = ItemPut(@, reply'[t].status)] ELSE puts
  /\ others' = IF op[t] = "put" /\ pc'[t] = "idle" /\ reply'[t].status = "OK"
                 THEN [u \in Threads |->
                         IF u # t /\ puts[u].status # "none"
                           THEN others[u] \cup {asked[t]} ELSE others[u]]
                 ELSE others

\* A single Put or Get.  What the thread's last batch returned is forgotten.
SingleCall(t) ==
  /\ ~Running(t)
  /\ \E k \in ByteKeys : Get(t, k) \/ \E v \in Values : Put(t, k, v)
  /\ puts' = [puts EXCEPT ![t] = NoBatch]
  /\ others' = [others EXCEPT ![t] = {}]

PutBatchNext ==
  \E t \in Threads :
    \/ SingleCall(t) \/ PutItem(t) \/ CallStep(t)
    \/ \E items \in PutBatches : PutBatchBegin(t, items)

PutBatchSpec == PutBatchInit /\ [][PutBatchNext]_<<indexVars, batchVars>>
------------------------------------------------------------------------------
LastOf(items, n, k) == items[Max({j \in 1..n : items[j].key = k})].val

\* "Same result as looping over Put (later duplicates win) ... the first error
\* encountered, in which case earlier entries are inserted and later ones are
\* not": whatever the other threads do, the items counted as done are in the map
\* with the last of their values, unless another thread has put the key; OK means
\* all of them; and the item a batch stopped at is not there.
BatchIsItsPuts ==
  \A t \in Threads : puts[t].status # "none" =>
    LET b == puts[t]
        Has(k) == Trie!MapOf[Pair(k)]
    IN /\ b.status = "OK" => b.i = Len(b.items)
       /\ \A j \in 1..b.i : LET k == b.items[j].key IN
            k \notin others[t] => Has(k) = LastOf(b.items, b.i, k)
       /\ b.status = "ERR_NO_MEMORY" =>
            LET k == b.items[b.i + 1].key IN k \notin others[t] => Has(k) = NoValue
==============================================================================
