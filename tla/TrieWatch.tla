------------------------------ MODULE TrieWatch ------------------------------
(***************************************************************************)
(* What a reader that takes many steps may answer.  While ForEach or a     *)
(* batch walk is under way, writers go on; during[k] collects the values   *)
(* key k had meanwhile (NoValue: it was absent at some instant).  An       *)
(* answer about k is right if it was true at some instant of the call.     *)
(***************************************************************************)
EXTENDS HashTrie

VARIABLE during         \* key -> values it had since the call began (history)

WatchInit  == during = [k \in Keys |-> {}]
WatchBegin == during' = [k \in Keys |-> {MapOf[k]}]
WatchEnd   == during' = [k \in Keys |-> {}]
Watch      == during' = LET m == MapOf' IN [k \in Keys |-> during[k] \cup {m[k]}]

\* Since the call began, key k has always been there.
AlwaysThere(k) == during[k] # {} /\ NoValue \notin during[k]
==============================================================================
