----------------------------- MODULE MmFirstFit -----------------------------
(***************************************************************************)
(* The allocator of src/malloclab/mm-firstfit.c: an implicit list of       *)
(* blocks with boundary tags, first fit, coalescing on free and on heap    *)
(* extension; and its caller, which may do any sequence of legal calls and *)
(* writes its payloads.                                                    *)
(*                                                                         *)
(* A heap h is a record of the memory and the break, the address after the *)
(* last word (mem_brk in memlib.c).                                        *)
(***************************************************************************)
EXTENDS BoundaryTags, Sequences

VARIABLES
  heap,
  sizes,    \* the caller's allocated payloads: block pointer to size in bytes
  stopped   \* mm_realloc has exited

vars == <<heap, sizes, stopped>>

\* heap_listp, after the four words of padding, prologue and epilogue.
heap_listp == 2

----------------------------------------------------------------------------
(* mem_sbrk, extend_heap and coalesce.                                     *)

CanGrow(h, words) == h.brk + words <= MAX_HEAP

\* Mutant: the merged block's footer is not written (a copy of case 3).
JoinHeaderOnly(m, from, size) == [m EXCEPT ![from - 1] = PACK(size, 0)]

Join(m, from, size) == PutFree(m, from, size)

\* Mutant: only the previous block is merged.
coalescePrev(m, bp) ==
  LET prev == PREV_BLKP(m, bp) IN
  IF GET_ALLOC(m[FTRP(m, prev)]) = 1 THEN m
  ELSE Join(m, prev, Size(m, prev) + Size(m, bp))

(* Merges the free block bp with its free neighbours.  The four cases of   *)
(* the code write the header of the first block and the footer of the last *)
(* one with the sum of the sizes.                                          *)
coalesce(m, bp) ==
  LET prev == PREV_BLKP(m, bp)
      next == NEXT_BLKP(m, bp)
      prev_alloc == GET_ALLOC(m[FTRP(m, prev)]) = 1
      next_alloc == Allocated(m, next)
  IN  CASE prev_alloc /\ next_alloc   -> m
        [] prev_alloc /\ ~ next_alloc -> Join(m, bp, Size(m, bp) + Size(m, next))
        [] ~ prev_alloc /\ next_alloc -> Join(m, prev, Size(m, prev) + Size(m, bp))
        [] OTHER -> Join(m, prev, Size(m, prev) + Size(m, bp)
                                    + GET_SIZE(m[FTRP(m, next)]))

\* The block that coalesce returns.
Coalesced(m, bp) ==
  LET prev == PREV_BLKP(m, bp)
  IN  IF GET_ALLOC(m[FTRP(m, prev)]) = 1 THEN bp ELSE prev

\* A free block in place of the epilogue header, and a new epilogue.
NewBlock(h, size) ==
  [PutFree(h.mem, h.brk, size) EXCEPT ![h.brk + size - 1] = PACK(0, 1)]

extend_heap(h, words) ==
  LET size == words + (words % 2)
      m == NewBlock(h, size)
  IN  [heap |-> [mem |-> coalesce(m, h.brk), brk |-> h.brk + size],
       bp |-> Coalesced(m, h.brk)]

(* mem_reset_brk and mm_init, on memory of any content.                    *)
mm_init(m) ==
  extend_heap([mem |-> FirstWords(m), brk |-> 4], CHUNKSIZE).heap

----------------------------------------------------------------------------
(* find_fit, place and mm_malloc.                                          *)

(* The block pointers that the list visits, up to the epilogue's: each is  *)
(* the one before plus the size in its header.                             *)
ListFrom(h) ==
  LET reach[bp \in heap_listp .. h.brk] ==
        IF Size(h.mem, bp) = 0 \/ NEXT_BLKP(h.mem, bp) > h.brk THEN {bp}
        ELSE {bp} \cup reach[NEXT_BLKP(h.mem, bp)]
  IN  reach[heap_listp]

FirstOf(S) == CHOOSE p \in S : \A q \in S : p <= q

\* Mutant: blocks are not checked to be free.
fitsAny(h, asize) == {bp \in ListFrom(h) : asize <= Size(h.mem, bp)}

fits(h, asize) == {bp \in ListFrom(h) : ~ Allocated(h.mem, bp)
                                         /\ asize <= Size(h.mem, bp)}

checkblock(m, bp) == bp % 2 = 0 /\ m[HDRP(bp)] = m[FTRP(m, bp)]

\* No complaint about the prologue, a block or the epilogue.
mm_checkheap(h) ==
  /\ h.mem[HDRP(heap_listp)] = PACK(2, 1)
  /\ \A bp \in ListFrom(h) : IF Size(h.mem, bp) > 0 THEN checkblock(h.mem, bp)
                             ELSE Allocated(h.mem, bp)

(* Splits when the remainder is a block of at least four words.            *)
place(h, bp, asize) ==
  LET csize == Size(h.mem, bp)
      rest == csize - asize
  IN  IF rest >= 4
      THEN [h EXCEPT !.mem = PutFree(PutTags(@, bp, asize, 1), bp + asize, rest)]
      ELSE [h EXCEPT !.mem = PutTags(@, bp, csize, 1)]

larger(a, b) == IF a > b THEN a ELSE b

(* The heap after mm_malloc(size), with the pointer that it returns.       *)
mm_malloc(h, size) ==
  LET asize == adjusted(size)
      found == fits(h, asize)
      extendsize == larger(asize, CHUNKSIZE)
      grown == extend_heap(h, extendsize)
  IN  IF ~ Spurious(size) /\ found # {}
      THEN [heap |-> place(h, FirstOf(found), asize), bp |-> FirstOf(found)]
      ELSE IF ~ Spurious(size) /\ CanGrow(h, extendsize)
      THEN [heap |-> place(grown.heap, grown.bp, asize), bp |-> grown.bp]
      ELSE [heap |-> h, bp |-> NULL]

mm_free(h, bp) ==
  [h EXCEPT !.mem = coalesce(PutFree(@, bp, Size(@, bp)), bp)]

(* The data is copied up to the smaller of the new size and the size in    *)
(* the old header, and the old block is freed.  NULL stands for the exit   *)
(* of the program, when mm_malloc fails.                                   *)
mm_realloc(h, bp, size) ==
  LET r == mm_malloc(h, size)
      csize == Size(r.heap.mem, bp)
      copySize == IF PayloadWords(size) < csize THEN PayloadWords(size) ELSE csize
      copied == [r.heap EXCEPT !.mem = Copied(@, r.bp, bp, copySize)]
  IN  IF r.bp = NULL THEN r ELSE [r EXCEPT !.heap = mm_free(copied, bp)]

----------------------------------------------------------------------------
(* The caller: it writes all of each payload it gets and frees or          *)
(* reallocates what it holds.                                              *)

Init ==
  /\ heap = mm_init([a \in Addresses |-> 0])
  /\ sizes = <<>> /\ stopped = FALSE

Malloc(size, d) ==
  /\ ~ stopped
  /\ LET r == mm_malloc(heap, size) IN
     IF r.bp = NULL THEN UNCHANGED <<heap, sizes>>
     ELSE /\ heap' = [r.heap EXCEPT !.mem = Filled(@, Payload(r.bp, size), d)]
          /\ sizes' = Sized(sizes, r.bp, size)
  /\ UNCHANGED stopped

Free(p) ==
  /\ ~ stopped
  /\ heap' = mm_free(heap, p)
  /\ sizes' = Unsized(sizes, p)
  /\ UNCHANGED stopped

(* The caller writes the words that are new.                               *)
Realloc(p, size, d) ==
  /\ ~ stopped
  /\ LET r == mm_realloc(heap, p, size)
         new == r.bp + PayloadWords(sizes[p]) .. r.bp + PayloadWords(size) - 1
     IN  IF r.bp = NULL THEN stopped' = TRUE /\ UNCHANGED <<heap, sizes>>
         ELSE /\ heap' = [r.heap EXCEPT !.mem = Filled(@, new, d)]
              /\ sizes' = Sized(Unsized(sizes, p), r.bp, size)
              /\ UNCHANGED stopped

Stopped == stopped /\ UNCHANGED vars

Next == \/ \E size \in Requests, d \in Fills : Malloc(size, d)
        \/ \E p \in DOMAIN sizes : Free(p)
        \/ \E p \in DOMAIN sizes, size \in Requests, d \in Fills : Realloc(p, size, d)
        \/ Stopped

Spec == Init /\ [][Next]_vars

----------------------------------------------------------------------------
(* Safety.                                                                 *)

TypeOK ==
  /\ heap \in [mem : [Addresses -> Nat], brk : 4 .. MAX_HEAP]
  /\ DOMAIN sizes \subseteq Addresses
  /\ \A p \in DOMAIN sizes : sizes[p] \in Requests \ {0}
  /\ stopped \in BOOLEAN

Blocks == ListFrom(heap) \ {heap.brk}

(* mm_checkheap finds nothing to print, and what it does not look at: the  *)
(* list ends at the break, and the caller's payloads are in allocated      *)
(* blocks, each in its own.                                                *)
BlocksTile ==
  /\ mm_checkheap(heap)
  /\ heap.brk \in ListFrom(heap) /\ Size(heap.mem, heap.brk) = 0
  /\ DOMAIN sizes = {bp \in Blocks \ {heap_listp} : Allocated(heap.mem, bp)}
  /\ \A p \in DOMAIN sizes : Payload(p, sizes[p]) \subseteq p .. FTRP(heap.mem, p) - 1

(* Coalescing is complete: no two free blocks are neighbours, so that a    *)
(* heap with nothing allocated is one block, for requests of any size.     *)
FreeBlocksApart ==
  /\ \A bp \in Blocks : ~ Allocated(heap.mem, bp) => Allocated(heap.mem, NEXT_BLKP(heap.mem, bp))
  /\ sizes = <<>> => Blocks = {heap_listp, 4}

(* The heap is well formed for any caller: see the two parts.              *)
HeapTiles == BlocksTile /\ FreeBlocksApart

A == INSTANCE Allocator
       WITH HeapWords <- Addresses, content <- contentOf(heap.mem, sizes)

(* Payloads never overlap, and no tag overwrites what the caller has       *)
(* written: the data of a payload changes only as the caller writes it,    *)
(* and mm_realloc moves it.                                                *)
ImplementsAllocator == A!Spec

----------------------------------------------------------------------------
(* The inductive invariant.                                                *)

(* B are the blocks of memory m up to the break: each ends where another   *)
(* one or the epilogue begins, none begins inside another, and the tags at *)
(* both ends agree.                                                        *)
Tiled(m, brk, B) ==
  /\ m \in [Addresses -> Nat]
  /\ brk \in 4 .. MAX_HEAP /\ brk % 2 = 0 /\ m[HDRP(brk)] = PACK(0, 1)
  /\ B \subseteq heap_listp .. brk - 1
  /\ heap_listp \in B /\ m[HDRP(heap_listp)] = PACK(2, 1)
  /\ \A b \in B : /\ b % 2 = 0 /\ Size(m, b) >= 2
                  /\ NEXT_BLKP(m, b) \in B \cup {brk}
                  /\ m[FTRP(m, b)] = m[HDRP(b)]
                  /\ \A c \in B : b < c => NEXT_BLKP(m, b) <= c

IInv == /\ TypeOK /\ 4 \in Blocks
        /\ Tiled(heap.mem, heap.brk, Blocks)
        /\ HeapTiles
============================================================================
