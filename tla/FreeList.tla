------------------------------- MODULE FreeList -------------------------------
(***************************************************************************)
(* The free list of src/rg_free_list.c, both creations: rgFreeListCreate   *)
(* links every block up front, rgFreeListCreateLazy links none and hands   *)
(* out fresh blocks by bumping m_initHigh.                                 *)
(*                                                                         *)
(* The chain of free blocks is threaded through the blocks themselves, so  *)
(* the words of a block the caller holds are the caller's to overwrite     *)
(* (action CallerWrites), with anything, block addresses included.         *)
(* Blocks are numbered from 0; number b stands for m_buffer + b * size.    *)
(***************************************************************************)
EXTENDS Integers, Sequences, FiniteSets

CONSTANTS MaxBlocks,    \* m_maxBlocks, at least 1: Create refuses 0
          Null          \* the null pointer, end of the chain

ASSUME FreeListAssumption == MaxBlocks \in Nat \ {0} /\ Null \notin Nat

VARIABLES
  next,                 \* m_next: head of the returned-free chain
  blocksFree,           \* m_blocksFree
  initHigh,             \* m_initHigh: blocks from here on were never handed out
  mem,                  \* block -> its first word, the link of a free block
  live,                 \* blocks the caller holds (history)
  returned,             \* the chain, newest first (history)
  out                   \* what the last Alloc returned

vars  == <<next, blocksFree, initHigh, mem, live, returned, out>>
Block == 0..(MaxBlocks - 1)
Word  == Block \cup {Null}

\* rgm_freelist_install: the chain 0 -> 1 -> ... -> MaxBlocks - 1.
Install ==
  /\ next       = 0
  /\ blocksFree = MaxBlocks
  /\ initHigh   = MaxBlocks
  /\ mem        = [b \in Block |-> IF b + 1 < MaxBlocks THEN b + 1 ELSE Null]
  /\ returned   = [i \in 1..MaxBlocks |-> i - 1]

\* rgm_freelist_install_lazy: the buffer is not touched, its words are leftovers.
InstallLazy ==
  /\ next       = Null
  /\ blocksFree = MaxBlocks
  /\ initHigh   = 0
  /\ mem        \in [Block -> Word]
  /\ returned   = << >>

Init ==
  /\ Install \/ InstallLazy
  /\ live = {}
  /\ out  = Null

HandOut(b) == /\ out'  = b
              /\ live' = live \cup {b}

\* Mutant: the new head is not read from the block handed out.
PopHeadKeepsChain ==
  /\ next # Null
  /\ HandOut(next)
  /\ next'     = IF Len(returned) > 1 THEN next ELSE Null
  /\ returned' = Tail(returned)
  /\ UNCHANGED <<initHigh, mem>>

\* The head of the chain is handed out, and its link becomes the head.
PopHead ==
  /\ next # Null
  /\ HandOut(next)
  /\ next'     = mem[next]
  /\ returned' = Tail(returned)
  /\ UNCHANGED <<initHigh, mem>>

\* rgFreeListAlloc when the chain has a block.
AllocReturned ==
  /\ blocksFree # 0
  /\ blocksFree' = blocksFree - 1
  /\ PopHead

\* rgFreeListAllocFast: the same pop, on the strength of the head alone.
AllocFast ==
  /\ blocksFree' = blocksFree - 1
  /\ PopHead

\* rgFreeListAlloc when the chain is empty: bump the watermark.
AllocFresh ==
  /\ blocksFree # 0 /\ next = Null
  /\ blocksFree' = blocksFree - 1
  /\ HandOut(initHigh)
  /\ initHigh' = initHigh + 1
  /\ UNCHANGED <<next, mem, returned>>

\* rgFreeListAlloc on an exhausted list returns 0.
AllocEmpty ==
  /\ blocksFree = 0
  /\ out' = Null
  /\ UNCHANGED <<next, blocksFree, initHigh, mem, live, returned>>

\* Mutants: Free forgets to link the block to the old head; forgets to count it.
FreeUnlinked(b) ==
  /\ b \in live
  /\ next'       = b
  /\ blocksFree' = blocksFree + 1
  /\ live'       = live \ {b}
  /\ returned'   = <<b>> \o returned
  /\ UNCHANGED <<initHigh, mem, out>>

FreeUncounted(b) ==
  /\ b \in live
  /\ mem'        = [mem EXCEPT ![b] = next]
  /\ next'       = b
  /\ live'       = live \ {b}
  /\ returned'   = <<b>> \o returned
  /\ UNCHANGED <<blocksFree, initHigh, out>>

\* rgFreeListFree and rgFreeListFreeFast of a block the caller holds.
Free(b) ==
  /\ b \in live
  /\ mem'        = [mem EXCEPT ![b] = next]
  /\ next'       = b
  /\ blocksFree' = blocksFree + 1
  /\ live'       = live \ {b}
  /\ returned'   = <<b>> \o returned
  /\ UNCHANGED <<initHigh, out>>

\* The caller writes into a block it holds.
CallerWrites(b, w) ==
  /\ b \in live
  /\ mem' = [mem EXCEPT ![b] = w]
  /\ UNCHANGED <<next, blocksFree, initHigh, live, returned, out>>

Next ==
  \/ AllocReturned \/ AllocFast \/ AllocFresh \/ AllocEmpty
  \/ \E b \in Block : Free(b)
  \/ \E b \in Block, w \in Word : CallerWrites(b, w)

Spec == Init /\ [][Next]_vars
------------------------------------------------------------------------------
TypeOK ==
  /\ next       \in Word
  /\ blocksFree \in 0..MaxBlocks
  /\ initHigh   \in 0..MaxBlocks
  /\ mem        \in [Block -> Word]
  /\ live       \in SUBSET Block
  /\ returned   \in Seq(Block)
  /\ out        \in Word

\* The blocks still to hand out: the returned ones, then the fresh ones.
Fresh   == [i \in 1..(MaxBlocks - initHigh) |-> initHigh + i - 1]
FreeSeq == returned \o Fresh

Pool == INSTANCE FreePool WITH free <- FreeSeq

\* Eager and lazy lists are the same LIFO pool: "observably identical", they
\* hand out the same blocks in the same order, whatever the caller writes
\* into the blocks it holds.
IsPool == Pool!Spec

\* rgFreeListAlloc: "blocksFree was just verified > 0 with an empty chain,
\* which means m_initHigh < m_maxBlocks, so the index is always in range";
\* rgFreeListAllocFast: "a non-null chain head implies blocksFree > 0".
FreeCountTrusted ==
  /\ blocksFree > 0 /\ next = Null => initHigh < MaxBlocks
  /\ next # Null => blocksFree > 0

\* rgFreeListBlocksFree and what the caller holds add up to the capacity.
CountsAddUp == blocksFree + Cardinality(live) = MaxBlocks

\* Why: the links of the returned blocks spell the chain, no block on it is
\* held by the caller, and each block is live, returned or fresh.
ChainInv ==
  /\ \A i, j \in 1..Len(returned) : returned[i] = returned[j] => i = j
  /\ \A i \in 1..Len(returned) : returned[i] \notin live /\ returned[i] < initHigh
  /\ next = IF returned = << >> THEN Null ELSE returned[1]
  /\ \A i \in 1..Len(returned) :
       mem[returned[i]] = IF i = Len(returned) THEN Null ELSE returned[i + 1]
  /\ blocksFree = Len(returned) + (MaxBlocks - initHigh)
  /\ \A b \in live : b < initHigh
  /\ \A b \in 0..(initHigh - 1) :
       b \in live \/ \E i \in 1..Len(returned) : returned[i] = b

IInv == TypeOK /\ ChainInv /\ CountsAddUp
==============================================================================
