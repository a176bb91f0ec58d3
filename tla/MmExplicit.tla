----------------------------- MODULE MmExplicit -----------------------------
(***************************************************************************)
(* The allocator of src/malloclab/mm.c without mm_realloc (MmRealloc adds  *)
(* it): free blocks in a doubly linked list sorted by size, with the links *)
(* in the first two words of the payload, and no merging of free blocks.   *)
(* A heap h is a record of the memory, the break and both ends of the      *)
(* list; what a free block held stays in its words, links that were never  *)
(* set included.  The routines are operators from a heap to the heap after *)
(* the call; MmCaller and Mdriver call them.                               *)
(***************************************************************************)
EXTENDS BoundaryTags

SizeIn(h, bp) == Size(h.mem, bp)

NEXT_PTR(h, bp) == h.mem[bp]

PREV_PTR(h, bp) == h.mem[bp + 1]

----------------------------------------------------------------------------
(* The free list.                                                          *)

\* Where k steps along the next pointers lead to from bp.
Walk(h, bp) ==
  LET node[k \in 0 .. MAX_HEAP] == IF k = 0 THEN bp ELSE NEXT_PTR(h, node[k - 1])
  IN  node

(* The first block on the list from bp that is large enough, or NULL.      *)
find_fit(h, size, bp) ==
  LET node == Walk(h, bp)
      Ends(k) == node[k] = NULL \/ size <= SizeIn(h, node[k])
      last == CHOOSE k \in 0 .. MAX_HEAP : Ends(k) /\ \A j \in 0 .. k - 1 : ~ Ends(j)
  IN  node[last]

\* The blocks from root to end, in this order.
FreeList(h) ==
  LET node == Walk(h, h.root)
      Ends(k) == (k > 0 /\ node[k - 1] = h.end) \/ node[k] = NULL
      count == CHOOSE k \in 0 .. MAX_HEAP : Ends(k) /\ \A j \in 0 .. k - 1 : ~ Ends(j)
  IN  [k \in 1 .. count |-> node[k - 1]]

Alone(h, bp) == [h EXCEPT !.root = bp, !.end = bp]

AsRoot(h, bp) == [h EXCEPT !.mem[bp] = h.root, !.mem[h.root + 1] = bp, !.root = bp]

AsEnd(h, bp) == [h EXCEPT !.mem[bp + 1] = h.end, !.mem[h.end] = bp, !.end = bp]

\* Mutant: the block before is not linked to the new one.
BeforeUnlinked(h, place, bp) ==
  [h EXCEPT !.mem[bp] = place, !.mem[bp + 1] = PREV_PTR(h, place),
            !.mem[place + 1] = bp]

Before(h, place, bp) ==
  [h EXCEPT !.mem[bp] = place,
            !.mem[bp + 1] = PREV_PTR(h, place),
            !.mem[PREV_PTR(h, place)] = bp,
            !.mem[place + 1] = bp]

\* Mutant: the list is in the order of freeing.
add_free_blockLast(h, bp) == IF h.root = NULL THEN Alone(h, bp) ELSE AsEnd(h, bp)

(* Puts a free block where its size belongs, before its equals except at   *)
(* the end of the list.                                                    *)
add_free_block(h, bp) ==
  LET size == SizeIn(h, bp)
  IN  IF h.root = NULL /\ h.end = NULL THEN Alone(h, bp)
      ELSE IF size <= SizeIn(h, h.root) THEN AsRoot(h, bp)
      ELSE IF size >= SizeIn(h, h.end) THEN AsEnd(h, bp)
      ELSE Before(h, find_fit(h, size, h.root), bp)

remove_free_block(h, bp) ==
  IF bp = NULL THEN h
  ELSE IF h.root = h.end THEN [h EXCEPT !.root = NULL, !.end = NULL]
  ELSE IF h.root = bp
    THEN [h EXCEPT !.root = NEXT_PTR(h, bp), !.mem[NEXT_PTR(h, bp) + 1] = NULL]
  ELSE IF h.end = bp
    THEN [h EXCEPT !.end = PREV_PTR(h, bp), !.mem[PREV_PTR(h, bp)] = NULL]
  ELSE [h EXCEPT !.mem[PREV_PTR(h, bp)] = NEXT_PTR(h, bp),
                 !.mem[NEXT_PTR(h, bp) + 1] = PREV_PTR(h, bp)]

----------------------------------------------------------------------------
(* mm_init, mm_malloc and mm_free.                                         *)

\* Mutant: the list is not reset.
mm_initKeepsList(h) ==
  [mem |-> FirstWords(h.mem), brk |-> 4, root |-> h.root, end |-> h.end]

(* mem_reset_brk and mm_init, on what an earlier use of the allocator has  *)
(* left.                                                                   *)
mm_init(h) == [mem |-> FirstWords(h.mem), brk |-> 4, root |-> NULL, end |-> NULL]

\* Mutant: ">" for ">=".
SearchesAbove(h, asize) ==
  /\ h.root # NULL /\ asize > SizeIn(h, h.root)
  /\ h.end # NULL /\ asize <= SizeIn(h, h.end)

(* The list is searched only for sizes between those of its ends.          *)
Searches(h, asize) ==
  /\ h.root # NULL /\ asize >= SizeIn(h, h.root)
  /\ h.end # NULL /\ asize <= SizeIn(h, h.end)

\* Mutant: the largest block is taken.
ChosenLargest(h, asize) == h.end

Chosen(h, asize) ==
  IF asize = SizeIn(h, h.root) THEN h.root
  ELSE IF asize = SizeIn(h, h.end) THEN h.end
  ELSE find_fit(h, asize, h.root)

\* Mutant: remainders without room for the links are split off.
SplitsAll(csize, asize) == csize - asize >= 2

Splits(csize, asize) == csize - asize >= 4

(* Allocates asize words of the free block bp of the list.  A remainder    *)
(* smaller than a block is in no block from then on.                       *)
Taken(h, bp, asize) ==
  LET csize == SizeIn(h, bp)
      rest == bp + asize
      removed == remove_free_block(h, bp)
      tagged == [removed EXCEPT !.mem = PutTags(@, bp, asize, 1)]
  IN  IF Splits(csize, asize)
      THEN add_free_block([tagged EXCEPT !.mem = PutTags(@, rest, csize - asize, 0)], rest)
      ELSE tagged

\* An allocated block in place of the epilogue header, and a new epilogue.
Extended(h, asize) ==
  [h EXCEPT !.mem = [PutTags(@, h.brk, asize, 1) EXCEPT ![h.brk + asize - 1] = PACK(0, 1)],
            !.brk = h.brk + asize]

(* The heap after mm_malloc(size), and the pointer that it returns.        *)
mm_malloc(h, size) ==
  LET asize == adjusted(size)
  IN  IF Spurious(size) THEN [heap |-> h, bp |-> NULL]
      ELSE IF Searches(h, asize)
      THEN [heap |-> Taken(h, Chosen(h, asize), asize), bp |-> Chosen(h, asize)]
      ELSE IF h.brk + asize <= MAX_HEAP
      THEN [heap |-> Extended(h, asize), bp |-> h.brk]
      ELSE [heap |-> h, bp |-> NULL]

(* coalesce asks whether the block is above the last byte of the heap and  *)
(* below its first one, which no pointer is, and returns the block.        *)
coalesce(h, bp) == bp

mm_free(h, bp) ==
  LET freed == [h EXCEPT !.mem = PutTags(@, bp, SizeIn(h, bp), 0)]
  IN  add_free_block(freed, coalesce(freed, bp))
============================================================================
