------------------------------- MODULE FreePool -------------------------------
(***************************************************************************)
(* What a free list promises: a last-in first-out pool of blocks, which    *)
(* hands out fresh blocks in index order once the returned ones are gone.  *)
(***************************************************************************)
EXTENDS Naturals, Sequences

CONSTANTS MaxBlocks,
          Null          \* no block

VARIABLES free,         \* blocks to hand out, next one first
          live,         \* blocks the caller holds
          out           \* what the last Alloc returned

vars  == <<free, live, out>>
Block == 0..(MaxBlocks - 1)

Init ==
  /\ free = [i \in 1..MaxBlocks |-> i - 1]
  /\ live = {}
  /\ out  = Null

Alloc ==
  /\ free # << >>
  /\ out'  = Head(free)
  /\ live' = live \cup {Head(free)}
  /\ free' = Tail(free)

\* The pool says it is empty only when the caller holds every block.
AllocEmpty ==
  /\ free = << >> /\ live = Block
  /\ out' = Null
  /\ UNCHANGED <<free, live>>

Free(b) ==
  /\ b \in live
  /\ free' = <<b>> \o free
  /\ live' = live \ {b}
  /\ UNCHANGED out

Next == Alloc \/ AllocEmpty \/ \E b \in Block : Free(b)

Spec == Init /\ [][Next]_vars
===============================================================================
