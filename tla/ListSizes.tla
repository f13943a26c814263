------------------------------- MODULE ListSizes -------------------------------
(***************************************************************************)
(* The block and buffer sizes of the free list and the dense list, for any *)
(* width of the words: the rounding and the overflow checks of             *)
(* src/rg_free_list.c and src/rg_dense_list.c.  Unsigned arithmetic wraps  *)
(* at U64, as uint64_t does.  A state is one request.                      *)
(***************************************************************************)
EXTENDS Integers

CONSTANTS U32,          \* 2^32 in the code: how many values a uint32_t has
          Align,        \* 16
          Pointer       \* sizeof(void*)

VARIABLES size,         \* _blockSize, or any uint64_t
          blocks        \* _maxBlocks, or any uint32_t

U64 == U32 * U32

ASSUME ListSizesAssumption ==
  /\ {U32, Align, Pointer} \subseteq Nat \ {0}
  /\ U32 % Align = 0
  /\ Pointer < U32

\* (s + 15) & ~15, which may wrap.
RoundUp(s) == LET u == (s + Align - 1) % U64 IN u - (u % Align)

\* Mutant: no check that the rounded size fits m_blockSize.
RoundSizeTruncated(s) == RoundUp(s) % U32

\* The rounded size, 0 when it wrapped or does not fit m_blockSize.
RoundSize(s) == IF RoundUp(s) > U32 - 1 THEN 0 ELSE RoundUp(s)

\* The effective block sizes: a free block holds a link, a dense one at least a byte.
FreeListBlock(s)  == RoundSize(IF s < Pointer THEN Pointer ELSE s)
DenseListBlock(s) == RoundSize(IF s = 0 THEN 1 ELSE s)

\* rgFreeListBufferSize and rgDenseListBufferSize, with the SIZE_MAX of the build.
BufferSize(block, sizeMax) ==
  IF blocks = 0 \/ block = 0 THEN 0
  ELSE IF block > sizeMax \div blocks THEN 0
  ELSE (block * blocks) % U64

\* Any request may be the next one.
Request     == size \in 0..(U64 - 1) /\ blocks \in 0..(U32 - 1)
NextRequest == size' = (size + 1) % U64 /\ UNCHANGED blocks
Requests    == Request /\ [][NextRequest]_<<size, blocks>>
------------------------------------------------------------------------------
\* The size asked for, and the padding up to the next multiple of Align.
Padded(least) == LET asked == IF size < least THEN least ELSE size
                 IN  asked + ((-asked) % Align)

\* A block that holds what was asked for, is aligned and wastes less than Align, and
\* a buffer that holds all blocks; 0 where it cannot be represented.
ListFits(least, block) ==
  /\ block = IF Padded(least) > U32 - 1 THEN 0 ELSE Padded(least)
  /\ \A sizeMax \in {U32 - 1, U64 - 1} :
       BufferSize(block, sizeMax) =
         IF block = 0 \/ block * blocks > sizeMax THEN 0 ELSE block * blocks

\* Whatever is asked for, in a 32-bit or a 64-bit build: a list is refused exactly
\* when its size cannot be represented, and never given a buffer smaller than its
\* blocks.
ListsSized == ListFits(Pointer, FreeListBlock(size)) /\ ListFits(1, DenseListBlock(size))
==============================================================================
