------------------------------ MODULE DenseList ------------------------------
(***************************************************************************)
(* The dense pool of src/rg_dense_list.c: live blocks are the prefix       *)
(* [0, count) of the buffer, and Free fills the hole with the last one, so *)
(* that any Free may move one other block.  The client keeps items in the  *)
(* blocks, and sweeps them as the header says to when it frees during an   *)
(* iteration: from the last index down.                                    *)
(***************************************************************************)
EXTENDS Integers, FiniteSets

CONSTANTS MaxBlocks,    \* m_maxBlocks, at least 1: Create refuses 0
          Items         \* what the client keeps; one block each

ASSUME DenseListAssumption == MaxBlocks \in Nat \ {0} /\ Items # {}

VARIABLES
  count,     \* m_count
  buf,       \* slot -> the item last copied there; leftovers above count
  items,     \* the items the client keeps (history)
  i,         \* the sweep's index; it is past slot i, 0 when it is over
  seen,      \* items this sweep has looked at (history)
  kept       \* items there were when it began (history)

vars == <<count, buf, items, i, seen, kept>>
Slot == 0..(MaxBlocks - 1)

\* rgm_denselist_install; the buffer holds what it held.
Init ==
  /\ count = 0 /\ buf \in [Slot -> Items]
  /\ items = {} /\ i = 0 /\ seen = {} /\ kept = {}

\* rgDenseListAlloc; the client puts a new item in the block it gets.
Alloc(x) ==
  /\ count < MaxBlocks
  /\ x \notin items
  /\ count' = count + 1
  /\ buf'   = [buf EXCEPT ![count] = x]
  /\ items' = items \cup {x}

\* Mutant: the block after the last one is copied.
FreeCopiesPast(s) ==
  /\ s < count
  /\ count' = count - 1
  /\ buf'   = IF s = count - 1 THEN buf
              ELSE [buf EXCEPT ![s] = buf[count % MaxBlocks]]
  /\ items' = items \ {buf[s]}

\* rgDenseListFree of the block in slot s, swap-back.
Free(s) ==
  /\ s < count
  /\ count' = count - 1
  /\ buf'   = IF s = count - 1 THEN buf ELSE [buf EXCEPT ![s] = buf[count - 1]]
  /\ items' = items \ {buf[s]}

\* rgDenseListClear: the contents stay.
Clear == count' = 0 /\ items' = {} /\ UNCHANGED buf

\* for (i = rgDenseListCount(&dl); i-- > 0; ): the header's loop.
SweepBegin ==
  /\ i' = count /\ seen' = {} /\ kept' = items
  /\ UNCHANGED <<count, buf, items>>

\* Mutant: the loop runs upwards.
SweepStepForwards ==
  /\ i > 0
  /\ i' = i - 1
  /\ LET s == Cardinality(kept) - i IN
       IF s < count
         THEN /\ seen' = seen \cup {buf[s]}
              /\ Free(s) \/ UNCHANGED <<count, buf, items>>
         ELSE UNCHANGED <<seen, count, buf, items>>
  /\ UNCHANGED kept

\* Its body: look at the block rgDenseListAt gives, and free it or not.
SweepStep ==
  /\ i > 0
  /\ i' = i - 1
  /\ seen' = seen \cup {buf[i - 1]}
  /\ Free(i - 1) \/ UNCHANGED <<count, buf, items>>
  /\ UNCHANGED kept

Use == Clear \/ (\E x \in Items : Alloc(x)) \/ (\E s \in Slot : Free(s))

Next ==
  \/ i = 0 /\ Use /\ UNCHANGED <<i, seen, kept>>
  \/ i = 0 /\ SweepBegin
  \/ SweepStep

Spec == Init /\ [][Next]_vars

-----------------------------------------------------------------------------
(* Properties.                                                             *)

TypeOK ==
  /\ count \in 0..MaxBlocks /\ i \in 0..MaxBlocks
  /\ buf \in [Slot -> Items]
  /\ items \subseteq Items /\ seen \subseteq Items /\ kept \subseteq Items

\* "Live blocks always occupy the prefix [0, count)": after any order of Alloc, Free
\* and Clear the prefix holds every item the client keeps, each in one block.
Dense ==
  /\ items = {buf[s] : s \in 0..(count - 1)}
  /\ \A r, s \in 0..(count - 1) : buf[r] = buf[s] => r = s

\* "Walk backwards so the swapped-in element ends up at an already-visited index":
\* what the sweep has still to look at is what is in the slots below its index.
SweepPrefix ==
  /\ i <= count
  /\ seen \subseteq kept
  /\ {buf[s] : s \in 0..(i - 1)} = kept \ seen

\* A sweep that frees as it goes has looked at every item when it ends.
SweepSeesAll == i = 0 => seen = kept

IInv == TypeOK /\ Dense /\ SweepPrefix
=============================================================================
