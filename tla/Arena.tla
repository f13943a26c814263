-------------------------------- MODULE Arena --------------------------------
(***************************************************************************)
(* The arena of src/rg_arena.c: address space is reserved once, pages are  *)
(* committed as the bump pointer advances, and allocations are given back  *)
(* by moving the pointer down (Pop, Restore, Clear).                       *)
(*                                                                         *)
(* A number is an offset or a size in units of eight bytes; arithmetic      *)
(* wraps at Word, as the code's does at 2^64.  The client keeps the        *)
(* contract of rg_memory.h: it pops its newest block with that block's     *)
(* size, restores its newest save point, and after DecommitFront only      *)
(* reads past the offset it gave, until Destroy; so it does in an arena    *)
(* opened read-only.                                                       *)
(***************************************************************************)
EXTENDS FileMapping, Sequences, FiniteSetsExt

CONSTANTS Word,          \* 2^w: one more than the largest uint64_t
          PageSize,      \* rgm_page_size()
          MinChunk,      \* RGM_COMMIT_MIN_CHUNK
          MaxStep,       \* RGM_COMMIT_MAX_STEP
          MinAlign,      \* the least alignment AllocAligned gives (8 bytes)
          DefaultAlign,  \* RGM_ARENA_DEFAULT_ALIGN (16 bytes)
          Bases,         \* page-aligned addresses the OS may map at
          Requests,      \* arena sizes asked for
          FileSizes,     \* sizes of files that others put at the path
          Sizes,         \* allocation and slack sizes asked for
          Aligns,        \* alignments asked for
          MaxBlocks,     \* bound: blocks the client holds at a time
          MaxSaves       \* bound: save points outstanding at a time

ASSUME ArenaAssumption ==
  /\ {Word, PageSize, MinChunk, MaxStep, MinAlign, DefaultAlign} \subseteq Nat \ {0}
  /\ Word % PageSize = 0 /\ MaxStep % PageSize = 0 /\ MinChunk <= MaxStep
  /\ AddrLimit <= Word
  /\ \A a \in 1..MinAlign : (\E n \in 0..a : a = 2^n) => MinAlign % a = 0
  /\ \A b \in Bases : b \in Nat \ {0} /\ b % PageSize = 0
  /\ Requests \cup FileSizes \cup Sizes \cup Aligns \subseteq 0..(Word - 1)
  /\ MaxBlocks \in Nat /\ MaxSaves \in Nat

VARIABLES
  base, reserved, committed, pos,   \* m_base (0: inert), m_reserved, m_committed, m_pos
  file,       \* m_backing = RGM_ARENA_BACKING_FILE
  mapped,     \* pages of the reservation the OS lets the process touch
  readOnly,   \* OpenShared's argument, for a file-backed arena (history)
  blocks,     \* the blocks the client holds, oldest first (history)
  saves,      \* its save points, oldest first: offset and blocks kept (history)
  front,      \* the largest offset given to DecommitFront (history)
  demand      \* the extent asked for since the last decommit (history)

os     == <<mapped, readOnly, fileVars>>
client == <<blocks, saves, front, demand>>
vars   == <<base, reserved, committed, pos, file, os, client>>
arenaVars == <<base, reserved, committed, pos, file, mapped, readOnly, client>>

Live   == base # 0
Usable == Live /\ front = 0 /\ ~readOnly   \* the client may do more than read
Newest(s) == s[Len(s)]

\* rgm_align_up and rgm_align_padding, with their wrap.
AlignUp(v, a)    == LET u == (v + (a - 1)) % Word IN u - (u % a)
Padding(addr, a) == (-addr) % a
IsPow2(a)        == \E n \in 0..a : a = 2^n
Pages(n)         == {p \in 0..(n - 1) : p % PageSize = 0}   \* pages of [0, n)

TypeOK ==
  /\ base \in Bases \cup {0} /\ file \in BOOLEAN
  /\ {pos, committed, reserved, front, demand} \subseteq 0..(Word - 1)
  /\ pos <= committed /\ committed <= reserved
  /\ ~file => committed % PageSize = 0
  /\ FileTypeOK /\ readOnly \in BOOLEAN
  /\ mapped \subseteq Pages(reserved)

ArenaInert ==
  /\ base = 0 /\ reserved = 0 /\ committed = 0 /\ pos = 0
  /\ file = FALSE /\ readOnly = FALSE
  /\ mapped = {} /\ blocks = << >> /\ saves = << >> /\ front = 0 /\ demand = 0

Init == ArenaInert /\ FileInit

Release ==
  /\ base' = 0 /\ reserved' = 0 /\ committed' = 0 /\ pos' = 0
  /\ file' = FALSE /\ readOnly' = FALSE
  /\ mapped' = {} /\ blocks' = << >> /\ saves' = << >> /\ front' = 0 /\ demand' = 0

-----------------------------------------------------------------------------
(* Creation.  A call the OS refuses leaves the arena as it was.            *)

Map(b, size, backed, isFile) ==
  /\ ~Live
  /\ base' = b /\ reserved' = size /\ committed' = backed /\ file' = isFile
  /\ mapped' = Pages(backed)
  /\ demand' = backed
  /\ UNCHANGED <<saves, front>>

\* rgArenaCreateEx; eager is the large-page reservation, committed at once.
\* The OS refuses a request that wraps to nothing, and grants none that comes within
\* a commit step of 2^64: address spaces are far smaller.  (Bound: tried with no
\* file at the path, which it does not look at.)
CreateEx(b, request, eager) ==
  LET size == AlignUp(request, PageSize) IN
  /\ call = Idle /\ dir = Absent
  /\ request # 0 /\ size # 0 /\ size + MaxStep + PageSize <= Word
  /\ Map(b, size, IF eager THEN size ELSE 0, FALSE)
  /\ pos' = 0
  /\ UNCHANGED <<readOnly, fileVars, blocks>>

\* rgArenaCreateShared and rgArenaCreateSharedTemp, up to their one call.
CreateShared(request, mode) ==
  /\ ~Live /\ request # 0
  /\ MapFile(mode, AlignUp(request, PageSize), FALSE)
  /\ UNCHANGED arenaVars

OpenShared(asReadOnly) ==
  /\ ~Live
  /\ MapFile("existing", 0, asReadOnly)
  /\ UNCHANGED arenaVars

FileStep == ~Live /\ MapFileStep /\ UNCHANGED arenaVars

\* The return of a call that mapped the file: all of an existing file is in use,
\* as one block.
Adopt(b) ==
  LET size == call.size IN
  /\ call.at = "mapped"
  /\ Map(b, size, size, TRUE)
  /\ IF call.mode = "existing"
       THEN pos' = size /\ blocks' = <<[off |-> 0, size |-> size, align |-> PageSize]>>
       ELSE pos' = 0 /\ blocks' = << >>
  /\ readOnly' = call.readOnly
  /\ call' = Idle
  /\ UNCHANGED <<windows, dir, open, handle>>

Destroy ==
  /\ Live
  /\ Release
  /\ IF file THEN ReleaseFile ELSE UNCHANGED fileVars

\* The process ends, in a call or between two.
Exit == Release /\ CloseAll

\* (Bound: others use the path while there is no arena.)
Elsewhere ==
  /\ Restart \/ (~Live /\ \E size \in FileSizes : OthersWrite(size))
  /\ UNCHANGED arenaVars

-----------------------------------------------------------------------------
(* Allocation.                                                             *)

UserOff(a)   == pos + Padding(base + pos, a)
NewPos(s, a) == (UserOff(a) + s) % Word

\* Mutant: no cap on the doubling.
CommitTargetUncapped(required) ==
  Min({AlignUp(Max({2 * committed, required, MinChunk}), PageSize), reserved})

\* The doubling of rgm_arena_ensure_committed, capped, rounded and clamped.
CommitTarget(required) ==
  Min({AlignUp(Max({Min({2 * committed, committed + MaxStep}), required, MinChunk}),
               PageSize),
       reserved})

\* rgm_arena_ensure_committed, when the OS commits the pages.
EnsureCommitted(required) ==
  \/ required <= committed /\ UNCHANGED <<committed, mapped>>
  \/ /\ required > committed /\ required <= reserved
     /\ committed' = CommitTarget(required)
     /\ mapped' = mapped \cup (Pages(CommitTarget(required)) \ Pages(committed))

\* Mutant: no guard against the wrap.
BumpWraps(s, a, asked) ==
  /\ s # 0 /\ Len(blocks) < MaxBlocks
  /\ NewPos(s, a) <= reserved
  /\ EnsureCommitted(NewPos(s, a))
  /\ pos' = NewPos(s, a)
  /\ blocks' = Append(blocks, [off |-> UserOff(a), size |-> s, align |-> asked])
  /\ demand' = Max({demand, pos'})
  /\ UNCHANGED <<base, reserved, file, readOnly, fileVars, saves, front>>

\* Mutant: the fast path takes what is reserved for committed.
BumpUncommitted(s, a, asked) ==
  /\ s # 0 /\ Len(blocks) < MaxBlocks
  /\ NewPos(s, a) >= UserOff(a) /\ NewPos(s, a) <= reserved
  /\ pos' = NewPos(s, a)
  /\ blocks' = Append(blocks, [off |-> UserOff(a), size |-> s, align |-> asked])
  /\ demand' = Max({demand, pos'})
  /\ UNCHANGED <<base, reserved, committed, file, os, saves, front>>

\* The body rgArenaAlloc, rgArenaAllocFast and rgArenaAllocAligned share: the fast
\* path inside the committed pages and rgm_arena_alloc_internal beyond them.  A
\* request that wraps, does not fit or cannot be committed changes nothing.
Bump(s, a, asked) ==
  /\ s # 0 /\ Len(blocks) < MaxBlocks
  /\ NewPos(s, a) >= UserOff(a) /\ NewPos(s, a) <= reserved
  /\ EnsureCommitted(NewPos(s, a))
  /\ pos' = NewPos(s, a)
  /\ blocks' = Append(blocks, [off |-> UserOff(a), size |-> s, align |-> asked])
  /\ demand' = Max({demand, pos'})
  /\ UNCHANGED <<base, reserved, file, readOnly, fileVars, saves, front>>

Alloc(s) == Usable /\ Bump(s, DefaultAlign, DefaultAlign)

\* Powers of two only, and 0; small ones are raised.
AllocAligned(s, asked) ==
  /\ Usable
  /\ asked = 0 \/ IsPow2(asked)
  /\ Bump(s, Max({asked, MinAlign}), asked)

-----------------------------------------------------------------------------
(* Giving back.                                                            *)

\* The client forgets all but its n oldest blocks.
Keep(n) == blocks' = SubSeq(blocks, 1, n)
Capped(n) == [i \in DOMAIN saves |-> [saves[i] EXCEPT !.kept = Min({@, n})]]

\* rgArenaPop and rgArenaPopAligned, of the newest block.
Pop ==
  /\ Usable /\ blocks # << >>
  /\ pos' = pos - Newest(blocks).size
  /\ Keep(Len(blocks) - 1)
  /\ saves' = Capped(Len(blocks) - 1)
  /\ UNCHANGED <<base, reserved, committed, file, os, front, demand>>

\* rgArenaSave.
Save ==
  /\ Usable /\ Len(saves) < MaxSaves
  /\ saves' = Append(saves, [at |-> pos, kept |-> Len(blocks)])
  /\ UNCHANGED <<base, reserved, committed, pos, file, os, blocks, front, demand>>

\* rgArenaRestore of the newest save point; one that a Pop or a Clear has left
\* ahead of the position changes nothing.
Restore ==
  /\ Usable /\ saves # << >>
  /\ IF Newest(saves).at <= pos
       THEN pos' = Newest(saves).at /\ Keep(Newest(saves).kept)
       ELSE UNCHANGED <<pos, blocks>>
  /\ saves' = SubSeq(saves, 1, Len(saves) - 1)
  /\ UNCHANGED <<base, reserved, committed, file, os, front, demand>>

\* rgArenaClear: the committed pages stay.
Clear ==
  /\ Usable
  /\ pos' = 0
  /\ Keep(0)
  /\ saves' = Capped(0)
  /\ UNCHANGED <<base, reserved, committed, file, os, front, demand>>

-----------------------------------------------------------------------------
(* Decommit.  Refused by the OS, or of nothing, it changes nothing.        *)

\* rgArenaShrinkKeep; rgArenaShrink is slack = 0.
ShrinkKeep(slack) ==
  LET kept == AlignUp(pos + slack, PageSize) IN
  /\ Usable /\ ~file
  /\ slack <= Word - 1 - pos /\ kept >= pos
  /\ kept < committed
  /\ committed' = kept
  /\ mapped' = mapped \cap Pages(kept)
  /\ demand' = pos + slack
  /\ UNCHANGED <<base, reserved, pos, file, readOnly, fileVars, blocks, saves, front>>

\* Mutant: the page the offset is in goes too.
FrontEndUp(upTo) == Min({AlignUp(upTo, PageSize), committed})

\* The end of the pages wholly below the offset, within what is committed.
FrontEnd(upTo) == Min({upTo - (upTo % PageSize), committed})

DecommitFront(upTo) ==
  /\ Live /\ ~file
  /\ FrontEnd(upTo) # 0
  /\ mapped' = mapped \ Pages(FrontEnd(upTo))
  /\ front' = Max({front, upTo})
  /\ UNCHANGED <<base, reserved, committed, pos, file, readOnly, fileVars, blocks,
                 saves, demand>>

Next ==
  \/ \E r \in Requests :
       \/ \E b \in Bases, eager \in BOOLEAN : CreateEx(b, r, eager)
       \/ \E mode \in {"keep", "temp"} : CreateShared(r, mode)
  \/ \E asReadOnly \in BOOLEAN : OpenShared(asReadOnly)
  \/ FileStep \/ (\E b \in Bases : Adopt(b)) \/ Exit \/ Elsewhere
  \/ \E s \in Sizes : Alloc(s) \/ ShrinkKeep(s) \/ \E a \in Aligns : AllocAligned(s, a)
  \/ Pop \/ Save \/ Restore \/ Clear \/ Destroy
  \/ \E u \in {blocks[i].off : i \in DOMAIN blocks} \cup {Word - 1} : DecommitFront(u)

Spec == Init /\ [][Next]_vars

-----------------------------------------------------------------------------
(* Properties.                                                             *)

\* Between calls the process holds of the file exactly what the arena will let go
\* of: the view and, for a writable view on Windows, the handle without which a
\* Flush returns with nothing durable.  No failed step leaks a handle.
HandlesHeld ==
  call.at \in {"idle", "dead"} =>
    /\ open = IF file THEN {"view"} \cup (IF handle THEN {"file"} ELSE {}) ELSE {}
    /\ handle <=> windows /\ file /\ ~readOnly

EndOf(b) == b.off + b.size

\* Whatever the order of allocations, pops (which leave alignment padding
\* behind), restores and clears, the blocks the client still holds are where they
\* were asked to be, do not overlap, and lie below the position, so the next
\* allocation touches none of them.
BlocksDisjoint ==
  \A i \in DOMAIN blocks :
    /\ EndOf(blocks[i]) <= pos
    /\ blocks[i].align # 0 => (base + blocks[i].off) % blocks[i].align = 0
    /\ \A j \in DOMAIN blocks : i < j => EndOf(blocks[i]) <= blocks[j].off

\* Every byte of a held block that the client may still read is on a page the OS
\* lets it touch: m_committed never runs ahead of the commits that succeeded, a
\* shrink never takes a page in use, and DecommitFront takes none past its offset.
BlocksReadable ==
  \A i \in DOMAIN blocks : \A u \in blocks[i].off..(EndOf(blocks[i]) - 1) :
    u >= front => u - (u % PageSize) \in mapped

\* "Bounding wasted commit": committed memory stays within one step of the extent
\* the client has asked for since the last decommit.
WasteBounded == committed < demand + MaxStep \/ committed = demand


\* "If the platform / filesystem cannot honour auto-delete the call fails with -5
\* rather than silently leaving a permanent file behind": an rgArenaCreateSharedTemp
\* that succeeded has made an arena whose file is gone once it is destroyed.
TempNeverOutlives == [][Destroy => ~dir'.temp]_vars
==============================================================================
