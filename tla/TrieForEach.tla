----------------------------- MODULE TrieForEach -----------------------------
(***************************************************************************)
(* rgHashTrieForEach, and rgHashIndexForEach, whose text is the same: a    *)
(* depth-first walk of the published nodes, one action per load of shared  *)
(* memory, while writers publish nodes and overwrite values.               *)
(*                                                                         *)
(* The top-level index is walked like the children of a root.  The code    *)
(* keeps 64 frames and recurses below them; a frame here is a frame of     *)
(* either kind, for both make the same loads in the same order.            *)
(***************************************************************************)
EXTENDS TrieWatch, Sequences, FiniteSetsExt

ASSUME ForEachAssumption == Branches \subseteq Nat

VARIABLES
  frames,       \* the stack, innermost last; << >> when no walk is under way
  reported,     \* what the callback was given, in order: <<key, value>>
  ended         \* how the last walk ended: "no" (none yet, or under way), "all", "stopped"

iter == <<frames, reported, ended>>

Top      == frames[Len(frames)]
Below    == SubSeq(frames, 1, Len(frames) - 1)
Frame(n, seen) == [node |-> n, visited |-> seen, todo |-> Branches]
Lowest(S) == CHOOSE b \in S : \A c \in S : b <= c

ForEachInit == frames = << >> /\ reported = << >> /\ ended = "no"

ForEachBegin ==
  /\ frames = << >>
  /\ frames' = <<Frame(Root, TRUE)>>
  /\ reported' = << >> /\ ended' = "no"
  /\ WatchBegin

\* Mutant: the value is read through the frame below.
VisitStaleFrame(stop) ==
  /\ frames # << >> /\ ~Top.visited
  /\ LET n == IF Len(frames) > 2 THEN Below[Len(Below)].node ELSE Top.node
     IN  reported' = Append(reported, <<nkey[Top.node], nval[n]>>)
  /\ frames' = IF stop THEN << >> ELSE Append(Below, [Top EXCEPT !.visited = TRUE])
  /\ ended' = IF stop THEN "stopped" ELSE "no"
  /\ IF stop THEN WatchEnd ELSE UNCHANGED during

\* The node's value is loaded and the callback is given the entry; when it
\* asks to stop, the walk ends there.
Visit(stop) ==
  /\ frames # << >> /\ ~Top.visited
  /\ reported' = Append(reported, <<nkey[Top.node], nval[Top.node]>>)
  /\ frames' = IF stop THEN << >> ELSE Append(Below, [Top EXCEPT !.visited = TRUE])
  /\ ended' = IF stop THEN "stopped" ELSE "no"
  /\ IF stop THEN WatchEnd ELSE UNCHANGED during

\* Mutants: a subtree that does not fit the frames is dropped; nextChild is not
\* advanced.
ChildDropsDeep ==
  /\ frames # << >> /\ Top.visited /\ Top.todo # {}
  /\ LET b    == Lowest(Top.todo)
         rest == Append(Below, [Top EXCEPT !.todo = @ \ {b}])
         n    == slot[<<Top.node, b>>]
     IN  frames' = IF n = Null \/ Len(frames) = 3 THEN rest ELSE Append(rest, Frame(n, FALSE))
  /\ UNCHANGED <<reported, ended, during>>

ChildTwice ==
  /\ frames # << >> /\ Top.visited /\ Top.todo # {}
  /\ LET b == Lowest(Top.todo)
         n == slot[<<Top.node, b>>]
     IN  frames' = IF n = Null THEN Append(Below, [Top EXCEPT !.todo = @ \ {b}])
                               ELSE Append(frames, Frame(n, FALSE))
  /\ UNCHANGED <<reported, ended, during>>

\* The next child slot is loaded; a node in it gets a frame of its own.
Child ==
  /\ frames # << >> /\ Top.visited /\ Top.todo # {}
  /\ LET b    == Lowest(Top.todo)
         rest == Append(Below, [Top EXCEPT !.todo = @ \ {b}])
         n    == slot[<<Top.node, b>>]
     IN  frames' = IF n = Null THEN rest ELSE Append(rest, Frame(n, FALSE))
  /\ UNCHANGED <<reported, ended, during>>

\* All children seen: back to the parent, or the end of the walk.
Leave ==
  /\ frames # << >> /\ Top.visited /\ Top.todo = {}
  /\ frames' = Below
  /\ ended' = IF Below = << >> THEN "all" ELSE "no"
  /\ UNCHANGED <<reported, during>>

Iterate == \/ ForEachBegin \/ Child \/ Leave
           \/ \E stop \in BOOLEAN : Visit(stop)

\* What a walk that has ended reported is forgotten.
ForEachForget == reported' = << >> /\ ended' = "no" /\ UNCHANGED frames
------------------------------------------------------------------------------
KeysIn(s) == {s[i][1] : i \in DOMAIN s}

\* "Visit every entry in the trie exactly once": no entry twice, whatever is
\* published in the walk's way, ...
ReportedOnce == Cardinality(KeysIn(reported)) = Len(reported)

\* ... and "entries published before the call started are guaranteed to be
\* visited" by a walk its callback did not stop.
SnapshotReported ==
  ended = "all" => \A k \in Keys : AlwaysThere(k) => k \in KeysIn(reported)

\* "Values overwritten concurrently are seen as old-or-new": every entry is
\* reported with a value its key had while the walk was under way.
OldOrNew ==
  \A i \in DOMAIN reported : frames # << >> => reported[i][2] \in during[reported[i][1]]
==============================================================================
