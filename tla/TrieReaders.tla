------------------------------ MODULE TrieReaders ------------------------------
(***************************************************************************)
(* The trie with its readers of many steps: one thread calls ForEach and   *)
(* GetBatch, one after the other, while the writers of HashTrie publish    *)
(* nodes and overwrite values.  (Gets of other threads change nothing that *)
(* these calls read.)  The outcome of a call is kept until the next step.  *)
(***************************************************************************)
EXTENDS TrieForEach, TrieBatch

InForEach == frames # << >>
InBatch   == phase \in {"fill", "walk"}

\* The reader's steps: the call it is in goes on, or the next one begins.
ReadForEach ==
  /\ ~InBatch /\ Iterate
  /\ IF InForEach THEN UNCHANGED bvars ELSE BatchForget

ReadBatch ==
  /\ ~InForEach /\ GetBatch
  /\ IF InBatch THEN UNCHANGED iter ELSE ForEachForget

\* A step of a writer.
Write ==
  /\ \E t \in Threads : PutBegin(t) \/ Step(t)
  /\ IF InForEach \/ InBatch THEN Watch /\ UNCHANGED <<iter, bvars>>
                             ELSE WatchEnd /\ ForEachForget /\ BatchForget

ReadersInit == Init /\ WatchInit /\ ForEachInit /\ BatchInit
ReadersNext == Write \/ ((ReadForEach \/ ReadBatch) /\ UNCHANGED vars)
ReadersSpec == ReadersInit /\ [][ReadersNext]_<<vars, iter, bvars, during>>
===============================================================================
