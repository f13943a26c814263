------------------------------- MODULE HashMap -------------------------------
(***************************************************************************)
(* The hash map of src/rg_hash_map.c in a file-backed arena: Init, Put,    *)
(* the caller's writes through value pointers, rgHashMapSave,              *)
(* rgHashMapOpen, and the end of the process at any point, between two     *)
(* stores of a Save included, those of the bytes of one root too.  The     *)
(* mapping is shared with the file, so every store to it survives the      *)
(* process; only the HashMap struct (top) and the Arena struct (pos) die   *)
(* with it.                                                                *)
(*                                                                         *)
(* Offsets count allocations: the sentinel line is 0, each node and the    *)
(* index copy take one more.  The order and bounds tests of the code,      *)
(* which are about byte offsets, keep their meaning.                       *)
(*                                                                         *)
(* A root broken off between two bytes may lead into the index copy, where *)
(* Open takes what it finds for a node: a phantom.  broken and phantom     *)
(* remember it, and the properties say what holds nevertheless.            *)
(***************************************************************************)
EXTENDS Integers, FiniteSets, Functions

CONSTANTS Keys, Values, NoValue, Null,
          Roots,        \* entries of the top-level index
          Branches,     \* children of a node
          Capacity,     \* bound: allocations that fit in the file
          Reach,        \* bound: offsets below it fit a child slot (UINT32_MAX)
          Budget,       \* visits Open allows for each allocation of the file
          Line,         \* bytes of a cache line, which nodes are aligned to
          IndexAlign,   \* bytes that the index copy is aligned to
          Route         \* Route[k]: root entry of key k, then its branches

ASSUME MapAssumption ==
  /\ Capacity \in Nat \ {0} /\ Reach \in 1..Capacity
  /\ Roots \subseteq Nat /\ IsFiniteSet(Roots) /\ IsFiniteSet(Branches)
  /\ 0 \in Values /\ NoValue \notin Values
  /\ \A k \in Keys : /\ Route[k][0] \in Roots
                     /\ \A d \in 1..Capacity : Route[k][d] \in Branches

ASSUME SpaceAssumption ==
  Budget \in Nat \ {0} /\ Line \in Nat \ {0} /\ IndexAlign \in Nat \ {0}

MaxDepth == Capacity            \* every level is at a higher offset
Off   == 0..(Capacity - 1)      \* 0 is the empty slot
NoRoots == [r \in Roots |-> 0]
NoChild == [b \in Branches |-> 0]
Gaps    == 0..(Line - 1)
NodeCell  == [kind : {"node"}, key : Keys, val : Values, child : [Branches -> Off]]
\* child: the entries that a node read inside the copy takes for its children.
IndexCell == [kind : {"index"}, roots : [Roots -> Off], child : [Branches -> Off]]
Blank     == [kind |-> "blank"]
NoHeader  == [magic |-> FALSE, highWater |-> 0, index |-> 0]

VARIABLES
  hdr,                  \* file: the persist header in the sentinel line
  mem,                  \* file: offset -> what was stored there
  top, pos,             \* process: the inline index m_top, the arena's m_pos
  gap,                  \* process: bytes from m_pos to the next cache line
  phase,                \* closed, mapped, open, or the step of a Save
  idx, todo,            \* locals of a Save: indexOffset, roots to copy
  dict,                 \* what the caller stored (history)
  ckpt, pending,        \* keys at the last complete Save, at the last begun (history)
  torn, hung,           \* a Save was cut short; a node was linked below an
                        \* older one: since the last complete Save (history)
  broken, phantom       \* the root whose copy broke off between two bytes; a
                        \* map was opened with one (history)

file    == <<hdr, mem>>
save    == <<idx, todo>>
ghosts  == <<dict, ckpt, pending, torn, hung, broken, phantom>>
vars    == <<hdr, mem, top, pos, gap, phase, idx, todo, ghosts>>
Saving  == {"copy", "magic", "highwater", "index"}

\* What follows is about a file's contents m: mem, unless it is a former mem.
IsNode(m, o) == m[o].kind = "node"

\* The slot below o that a walk goes on with; nothing tells a node from a phantom.
Child(m, o, b) == IF o # 0 /\ m[o].kind # "blank" THEN m[o].child[b] ELSE 0

\* The slots key k's walk reads from the given roots, level by level.
Walk(m, roots, k) ==
  LET slot[d \in 0..MaxDepth] == IF d = 0 THEN roots[Route[k][0]]
                                 ELSE Child(m, slot[d - 1], Route[k][d])
  IN slot

\* A walk stops at an empty slot or at the key, which no phantom has.
Stops(m, roots, k, d) == LET o == Walk(m, roots, k)[d]
                         IN o = 0 \/ (IsNode(m, o) /\ m[o].key = k)
StopLevel(m, roots, k) ==
  CHOOSE d \in 0..MaxDepth : /\ Stops(m, roots, k, d)
                             /\ \A e \in 0..(d - 1) : ~Stops(m, roots, k, e)
Find(m, roots, k) == Walk(m, roots, k)[StopLevel(m, roots, k)]
KeysIn(m, roots)  == {k \in Keys : Find(m, roots, k) # 0}

\* rgHashMapGet: the value, or NoValue.
Get(k) == LET o == Find(mem, top, k) IN IF o = 0 THEN NoValue ELSE mem[o].val

\* The visits of a depth-first walk from the given roots: rgHashMapForEach's
\* callbacks, and validate_subtree's budget, which goes on to higher offsets only.
Visits(m, roots) ==
  LET below[o \in Off] ==
        1 + SumFunction([b \in Branches |-> IF Child(m, o, b) > o
                                            THEN below[Child(m, o, b)] ELSE 0])
  IN SumFunction([r \in Roots |-> IF roots[r] = 0 THEN 0 ELSE below[roots[r]]])

\* rgm_hash_map_validate_subtree, from every root of the file's index copy; that what
\* it visits are nodes is nothing it could test.
ValidGraph(m, roots, highWater) ==
  LET valid[o \in Off] ==
        /\ o < highWater
        /\ \A b \in Branches : LET c == Child(m, o, b) IN
             c # 0 => c > o /\ valid[c]
  IN /\ \A r \in Roots : roots[r] # 0 => valid[roots[r]]
     /\ Visits(m, roots) <= Budget * highWater

\* What rgHashMapOpen asks of the header and the graph.
Accepts ==
  /\ hdr.magic
  /\ hdr.index >= 1 /\ hdr.index < Reach
  /\ hdr.highWater <= Capacity
  /\ hdr.index < hdr.highWater
  /\ mem[hdr.index].kind = "index"
  /\ ValidGraph(mem, mem[hdr.index].roots, hdr.highWater)

\* A file just created by rgArenaCreateShared: zeros, mapped, nothing allocated.
Init ==
  /\ hdr = NoHeader /\ mem = [o \in Off |-> Blank]
  /\ top = NoRoots /\ pos = 0 /\ gap = 0 /\ phase = "mapped"
  /\ idx = 0 /\ todo = {}
  /\ dict = [k \in Keys |-> NoValue]
  /\ ckpt = Null /\ pending = Null /\ torn = FALSE /\ hung = FALSE
  /\ broken = {} /\ phantom = FALSE

\* Mutant: the sentinel line of a cleared arena is not zeroed.
MapInitKeepsHeader ==
  /\ phase = "mapped" /\ pos = 0
  /\ phase' = "open" /\ pos' = 1 /\ gap' = 0
  /\ top' = NoRoots
  /\ dict' = [k \in Keys |-> NoValue]
  /\ ckpt' = Null /\ pending' = Null /\ torn' = FALSE /\ hung' = FALSE
  /\ broken' = {} /\ phantom' = FALSE
  /\ UNCHANGED <<hdr, mem, save>>

\* rgHashMapInit on an arena with nothing allocated: reserve the sentinel line
\* and zero it, so that no stale header survives an rgArenaClear.
MapInit ==
  /\ phase = "mapped" /\ pos = 0
  /\ phase' = "open" /\ pos' = 1 /\ gap' = 0
  /\ top' = NoRoots
  /\ hdr' = NoHeader
  /\ dict' = [k \in Keys |-> NoValue]
  /\ ckpt' = Null /\ pending' = Null /\ torn' = FALSE /\ hung' = FALSE
  /\ broken' = {} /\ phantom' = FALSE
  /\ UNCHANGED <<mem, save>>

\* A node past everything allocated so far, with a zero value, and `off` stored in
\* the empty slot the walk ended at.  The node's end is anywhere in its last line.
Insert(k, off) ==
  /\ LET d    == StopLevel(mem, top, k)
         node == [kind |-> "node", key |-> k, val |-> 0, child |-> NoChild]
         up   == Walk(mem, top, k)[d - 1]
     IN IF d = 0
        THEN /\ top' = [top EXCEPT ![Route[k][0]] = off]
             /\ mem' = [mem EXCEPT ![pos] = node]
             /\ UNCHANGED hung
        ELSE /\ mem' = [mem EXCEPT ![pos] = node, ![up].child[Route[k][d]] = off]
             /\ hung' = TRUE
             /\ UNCHANGED top
  /\ pos' = pos + 1 /\ gap' \in Gaps
  /\ dict' = [dict EXCEPT ![k] = 0]
  /\ UNCHANGED <<hdr, phase, save, ckpt, pending, torn, broken, phantom>>

\* Mutant: the offset is cut to the slot's width.
PutInsertTruncates(k) ==
  /\ phase = "open" /\ Find(mem, top, k) = 0 /\ pos < Capacity
  /\ Insert(k, pos % Reach)

\* rgHashMapPut of a key that is absent.  (A Put that finds the key, or no room,
\* changes nothing.)
PutInsert(k) ==
  /\ phase = "open" /\ Find(mem, top, k) = 0 /\ pos < Reach
  /\ Insert(k, pos)

\* Mutant: the allocation is not given back.
PoppedNever(p) == p

\* rgArenaPop of the newest allocation.
Popped(p) == p - 1

\* What is left of the gap once an allocation has been aligned.
Padded(g, align) == g - (g % align)

\* The index region of an earlier Save, if the header names one.
Reusable == hdr.magic /\ hdr.index >= 1 /\ hdr.index < Reach

BeyondReach(align) ==
  /\ phase = "open" /\ pos >= Reach /\ pos < Capacity
  /\ pos' = Popped(pos + 1) /\ gap' = Padded(gap, align)
  /\ UNCHANGED <<file, top, phase, save, ghosts>>

\* There is room, but no slot can hold the offset: the node, or the index copy of
\* a Save, is allocated and rolled back, all but the padding in front of it.
PutBeyondReach(k) == Find(mem, top, k) = 0 /\ BeyondReach(Line)
SaveBeyondReach   == ~Reusable /\ BeyondReach(IndexAlign)

\* The caller writes through the pointer Put or Get returned.
WriteValue(k, v) ==
  /\ phase = "open" /\ Find(mem, top, k) # 0
  /\ mem'  = [mem EXCEPT ![Find(mem, top, k)].val = v]
  /\ dict' = [dict EXCEPT ![k] = v]
  /\ UNCHANGED <<hdr, top, pos, gap, phase, save, ckpt, pending, torn, hung, broken, phantom>>

\* rgHashMapSave up to the index copy: reuse the region or allocate it, with
\* whatever was left there.  (Without room it changes nothing.)
SaveBegin ==
  /\ phase = "open" /\ pos >= 1
  /\ \/ /\ Reusable
        /\ idx' = hdr.index
        /\ UNCHANGED <<mem, pos, gap>>
     \/ /\ ~Reusable /\ pos < Reach
        /\ idx' = pos /\ pos' = pos + 1 /\ gap' = Padded(gap, IndexAlign)
        /\ \E left \in [Roots -> Off \cap {0, 1}] :
             mem' = [mem EXCEPT ![pos] = [kind |-> "index", roots |-> left,
                                          child |-> NoChild]]
  /\ todo' = Roots
  /\ phase' = "copy"
  /\ pending' = KeysIn(mem, top) /\ torn' = TRUE
  /\ UNCHANGED <<hdr, top, dict, ckpt, hung, broken, phantom>>

\* The bytes at offset o as an index copy; those of a node would be overwritten.
RootsAt(o) == IF mem[o].kind = "index" THEN mem[o].roots ELSE NoRoots

\* Mutant: the header is written before the index copy.
SaveCopyAfterHeader(r) ==
  /\ phase = "copy" /\ r \in todo /\ \A s \in todo : r <= s
  /\ hdr'  = [magic |-> TRUE, highWater |-> pos, index |-> idx]
  /\ mem'  = [mem EXCEPT ![idx] = [kind  |-> "index",
                                   roots |-> [RootsAt(idx) EXCEPT ![r] = top[r]],
                                   child |-> NoChild]]
  /\ todo' = todo \ {r}
  /\ phase' = IF todo = {r} THEN "magic" ELSE "copy"
  /\ UNCHANGED <<top, pos, gap, idx, ghosts>>

\* rgm_hash_copy_bytes, all bytes of one root.
SaveCopy(r) ==
  /\ phase = "copy" /\ r \in todo /\ \A s \in todo : r <= s
  /\ mem'  = [mem EXCEPT ![idx] = [kind  |-> "index",
                                   roots |-> [RootsAt(idx) EXCEPT ![r] = top[r]],
                                   child |-> NoChild]]
  /\ todo' = todo \ {r}
  /\ phase' = IF todo = {r} THEN "magic" ELSE "copy"
  /\ UNCHANGED <<hdr, top, pos, gap, idx, ghosts>>

\* The same, when the process dies between two of those bytes (nobody else could
\* tell them apart): the root is a mix of the old one and the new.  If it leads into
\* the copy itself, what lies there are any of its entries.
BreakRoot(r) ==
  /\ phase = "copy" /\ r \in todo /\ \A s \in todo : r <= s
  /\ top[r] # RootsAt(idx)[r]
  /\ \E part   \in Off \ {top[r], RootsAt(idx)[r]},
        around \in [Branches -> {0} \cup Range(RootsAt(idx))] :
       /\ part # idx => around = NoChild
       /\ mem' = [mem EXCEPT ![idx] = [kind  |-> "index",
                                       roots |-> [RootsAt(idx) EXCEPT ![r] = part],
                                       child |-> around]]
  /\ broken' = {r}
  /\ phase' = "closed" /\ top' = NoRoots /\ pos' = 0 /\ gap' = 0
  /\ idx' = 0 /\ todo' = {}
  /\ UNCHANGED <<hdr, dict, ckpt, pending, torn, hung, phantom>>

\* The header stores, in their order; the last one completes the Save.
SaveMagic ==
  /\ phase = "magic"
  /\ hdr' = [hdr EXCEPT !.magic = TRUE]
  /\ phase' = "highwater"
  /\ UNCHANGED <<mem, top, pos, gap, save, ghosts>>

\* Mutant: high-water captured before the index allocation.
SaveHighWaterEarly ==
  /\ phase = "highwater"
  /\ hdr' = [hdr EXCEPT !.highWater = IF idx = pos - 1 THEN idx ELSE pos]
  /\ phase' = "index"
  /\ UNCHANGED <<mem, top, pos, gap, save, ghosts>>

SaveHighWater ==
  /\ phase = "highwater"
  /\ hdr' = [hdr EXCEPT !.highWater = pos]
  /\ phase' = "index"
  /\ UNCHANGED <<mem, top, pos, gap, save, ghosts>>

SaveIndexOffset ==
  /\ phase = "index"
  /\ hdr' = [hdr EXCEPT !.index = idx]
  /\ phase' = "open" /\ idx' = 0
  /\ ckpt' = pending /\ torn' = FALSE /\ hung' = FALSE
  /\ UNCHANGED <<mem, top, pos, gap, todo, dict, pending, broken, phantom>>

\* rgArenaClear, for a new map: the committed pages keep their contents.
Clear ==
  /\ phase \in {"mapped", "open"}
  /\ pos' = 0 /\ gap' = 0 /\ phase' = "mapped" /\ top' = NoRoots
  /\ UNCHANGED <<file, save, ghosts>>

\* The process ends: rgArenaDestroy, or a crash anywhere.
Exit ==
  /\ phase # "closed"
  /\ phase' = "closed" /\ top' = NoRoots /\ pos' = 0 /\ gap' = 0
  /\ idx' = 0 /\ todo' = {}
  /\ UNCHANGED <<file, ghosts>>

\* rgArenaOpenShared: the arena reports itself full.
OpenShared ==
  /\ phase = "closed"
  /\ phase' = "mapped" /\ pos' = Capacity /\ gap' = 0
  /\ UNCHANGED <<file, top, save, ghosts>>

\* rgHashMapOpen of a file it accepts.  (A file it rejects changes nothing.)
OpenMap ==
  /\ phase = "mapped" /\ Accepts
  /\ top' = mem[hdr.index].roots
  /\ pos' = hdr.highWater /\ gap' \in Gaps
  /\ phase' = "open"
  /\ dict' = [k \in Keys |-> IF k \in KeysIn(mem, top') THEN dict[k] ELSE NoValue]
  /\ ckpt' = KeysIn(mem, top') /\ torn' = FALSE /\ hung' = FALSE
  /\ phantom' = (phantom \/ broken # {})
  /\ UNCHANGED <<file, save, pending, broken>>

Next ==
  \/ MapInit \/ SaveBegin \/ SaveMagic \/ SaveHighWater \/ SaveIndexOffset
  \/ Clear \/ Exit \/ OpenShared \/ OpenMap
  \/ SaveBeyondReach
  \/ \E k \in Keys : PutInsert(k) \/ PutBeyondReach(k)
  \/ \E k \in Keys, v \in Values : WriteValue(k, v)
  \/ \E r \in Roots : SaveCopy(r) \/ BreakRoot(r)

Spec == Init /\ [][Next]_vars
------------------------------------------------------------------------------
TypeOK ==
  /\ hdr   \in [magic : BOOLEAN, highWater : 0..Capacity, index : Off]
  /\ mem   \in [Off -> NodeCell \cup IndexCell \cup {Blank}]
  /\ top   \in [Roots -> Off]
  /\ pos   \in 0..Capacity /\ gap \in Gaps
  /\ phase \in {"closed", "mapped", "open"} \cup Saving
  /\ idx   \in Off /\ todo \in SUBSET Roots
  /\ dict  \in [Keys -> Values \cup {NoValue}]
  /\ ckpt  \in (SUBSET Keys) \cup {Null} /\ pending \in (SUBSET Keys) \cup {Null}
  /\ torn  \in BOOLEAN /\ hung \in BOOLEAN
  /\ broken \in SUBSET Roots /\ phantom \in BOOLEAN

Live == phase = "open" \/ phase \in Saving

\* A live map holds exactly what the caller put into it, in this process or
\* before a reopening: no append lands on a node, on the index copy or on the
\* header, and no offset is cut to fit its slot.  ForEach's callback is called once
\* for each key that Get finds.  (Not so once a root broken off between two bytes
\* was opened: ForEach may then meet the phantom, and the next Save overwrites
\* what was put below it.)
HoldsWhatWasStored ==
  Live /\ ~phantom =>
    /\ \A k \in Keys : Get(k) = dict[k]
    /\ Visits(mem, top) = Cardinality(KeysIn(mem, top))

\* Every root, and every child of a node below the watermark, is empty or leads to a
\* node.
LeadsToNodes(m, roots, highWater) ==
  /\ \A r \in Roots : roots[r] # 0 => IsNode(m, roots[r])
  /\ \A o \in 1..(highWater - 1), b \in Branches :
       IsNode(m, o) /\ m[o].child[b] # 0 => IsNode(m, m[o].child[b])

\* The graph of a live map is well-typed, consists of nodes, none of them in the
\* index region of the file's header, and is one that validate_subtree accepts of a
\* file: children at higher offsets than their parents, below the watermark.
GraphIsGenuine ==
  TypeOK /\ (Live /\ ~phantom => /\ ValidGraph(mem, top, pos)
                                 /\ LeadsToNodes(mem, top, pos))

\* Arena space is never spent for nothing: the position of a live map advances only
\* with a key that becomes findable or with the first index copy in the file, if
\* not over the padding in front of the next cache line, which a Put or Save that is
\* refused does not give back: refusals, however often, cost that gap once, and a
\* second Save costs nothing.
AdvancesPay ==
  [][Live /\ Live' /\ ~phantom
       => \/ KeysIn(mem, top)' # KeysIn(mem, top)
          \/ phase = "open" /\ phase' = "copy" /\ ~Reusable
          \/ pos' = pos /\ gap' <= gap]_vars

\* Open never invents a key: what it accepts has the keys of the last Save
\* completed or, cut short, of the last one begun, although the index copy
\* and the header are written over the old ones.  That is so even of a file with
\* a root broken off between two bytes, when no map was yet opened with one: Get
\* finds no key by it, though ForEach may.
OpenIsACheckpoint ==
  [][OpenMap /\ ~phantom => KeysIn(mem, top)' \in {ckpt, pending}]_vars

\* A Save completed, with no node linked below an older one since, reopens to
\* the map saved: entries put into an empty root since then are lost, and
\* nothing else.
UnhungSaveReopens ==
  phase = "closed" /\ ckpt # Null /\ ~torn /\ ~hung /\ ~phantom
    => Accepts /\ KeysIn(mem, mem[hdr.index].roots) = ckpt

\* "Save is an explicit checkpoint (changes after it are not on disk until the
\* next Save)": a Save completed reopens, whatever was put after it.
SaveReopens == phase = "closed" /\ ckpt # Null /\ ~torn => Accepts
==============================================================================
