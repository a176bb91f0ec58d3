----------------------------- MODULE MmRealloc ------------------------------
(***************************************************************************)
(* mm.c with its mm_realloc, which takes the requested size, rounded up,   *)
(* for the size of a block although a block also has its header and        *)
(* footer.  A caller that fills a payload larger than its block destroys   *)
(* tags, and what the program does from there on is not modelled: every    *)
(* action needs all payloads to be inside their blocks.                    *)
(***************************************************************************)
EXTENDS MmCaller

ALIGN(size) == 2 * ((size + 7) \div 8)

MIN_BLOCK_SIZE == 4

Intact ==
  \A p \in DOMAIN mm_sizes : Payload(p, mm_sizes[p]) \subseteq p .. FTRP(mm_heap.mem, p) - 1

(* The block is cut to new_size; a remainder large enough becomes a block  *)
(* of the free list.                                                       *)
Shrunk(h, bp, new_size) ==
  LET rest_size == Mm!SizeIn(h, bp) - new_size
      rest == bp + new_size
      cut == [h EXCEPT !.mem = PutTags(@, bp, new_size, 1)]
  IN  IF rest_size >= MIN_BLOCK_SIZE
      THEN Mm!add_free_block([cut EXCEPT !.mem = PutTags(@, rest, rest_size, 0)], rest)
      ELSE cut

ReallocSame(p, size) ==
  /\ ALIGN(size) = Mm!SizeIn(mm_heap, p)
  /\ mm_sizes' = Sized(mm_sizes, p, size)
  /\ UNCHANGED <<mm_heap, mm_stopped>>

ReallocSmaller(p, size) ==
  /\ ALIGN(size) < Mm!SizeIn(mm_heap, p)
  /\ mm_heap' = Shrunk(mm_heap, p, ALIGN(size))
  /\ mm_sizes' = Sized(mm_sizes, p, size)
  /\ UNCHANGED mm_stopped

(* coalesce has not enlarged the block, so there always is a new one, for  *)
(* the difference of the sizes, and the old payload is copied to it.  The      *)
(* result of mm_malloc is not looked at.                                   *)
ReallocLarger(p, size) ==
  LET old_size == Mm!SizeIn(mm_heap, p)
      r == Mm!mm_malloc(mm_heap, 4 * (ALIGN(size) - old_size))
      copied == [r.heap EXCEPT !.mem = Copied(@, r.bp, p, old_size - 2)]
  IN  /\ ALIGN(size) > old_size
      /\ IF r.bp = NULL THEN mm_stopped' = TRUE /\ UNCHANGED <<mm_heap, mm_sizes>>
         ELSE /\ mm_heap' = Mm!mm_free(copied, p)
              /\ mm_sizes' = Sized(Unsized(mm_sizes, p), r.bp, size)
              /\ UNCHANGED mm_stopped

Realloc(p, size) ==
  IF size = 0 THEN MmFree(p)
  ELSE ReallocSame(p, size) \/ ReallocSmaller(p, size) \/ ReallocLarger(p, size)

NextRealloc ==
  /\ ~ mm_stopped /\ Intact
  /\ MmNext \/ \E p \in DOMAIN mm_sizes, size \in Requests : Realloc(p, size)

SpecRealloc == MmInit /\ [][NextRealloc]_mmVars

(* No two payloads share a word (mdriver.c: "The payload must not overlap  *)
(* any other payloads").                                                   *)
PayloadsApart ==
  \A p, q \in DOMAIN mm_sizes :
    p # q => Payload(p, mm_sizes[p]) \cap Payload(q, mm_sizes[q]) = {}
=============================================================================
