------------------------------ MODULE MmCaller ------------------------------
(***************************************************************************)
(* The allocator of src/malloclab/mm.c (MmExplicit) under any caller: it   *)
(* writes all of each payload it gets and frees what it holds.             *)
(***************************************************************************)
EXTENDS BoundaryTags, Sequences

VARIABLES
  mm_heap,
  mm_sizes,     \* the caller's allocated payloads: block pointer to size in bytes
  mm_stopped    \* mm_realloc has copied to NULL

mmVars == <<mm_heap, mm_sizes, mm_stopped>>

Mm == INSTANCE MmExplicit

MmInit ==
  /\ mm_heap = Mm!mm_init([mem |-> [a \in Addresses |-> 0], root |-> NULL, end |-> NULL])
  /\ mm_sizes = <<>> /\ mm_stopped = FALSE

MmMalloc(size, d) ==
  /\ LET r == Mm!mm_malloc(mm_heap, size) IN
     IF r.bp = NULL THEN UNCHANGED <<mm_heap, mm_sizes>>
     ELSE /\ mm_heap' = [r.heap EXCEPT !.mem = Filled(@, Payload(r.bp, size), d)]
          /\ mm_sizes' = Sized(mm_sizes, r.bp, size)
  /\ UNCHANGED mm_stopped

MmFree(p) ==
  /\ mm_heap' = Mm!mm_free(mm_heap, p)
  /\ mm_sizes' = Unsized(mm_sizes, p)
  /\ UNCHANGED mm_stopped

MmNext == \/ \E size \in Requests, d \in Fills : MmMalloc(size, d)
          \/ \E p \in DOMAIN mm_sizes : MmFree(p)

MmSpec == MmInit /\ [][MmNext]_mmVars

----------------------------------------------------------------------------
(* Safety: invariants, then what a step may not do.                        *)

MmTypeOK ==
  /\ mm_heap \in [mem : [Addresses -> Nat], brk : 4 .. MAX_HEAP,
                  root : Addresses, end : Addresses]
  /\ DOMAIN mm_sizes \subseteq Addresses
  /\ \A p \in DOMAIN mm_sizes : mm_sizes[p] \in Requests \ {0}
  /\ mm_stopped \in BOOLEAN

MmList == Mm!FreeList(mm_heap)

Elements(f) == {f[i] : i \in 1 .. Len(f)}

FreeBlocks == Elements(MmList)

MmBlocks == FreeBlocks \cup DOMAIN mm_sizes

(* What mm_check looks at: the list leads from root to end over free       *)
(* blocks, its links agree in both directions, sizes do not decrease.      *)
ListSorted ==
  \E f \in {MmList} :
    /\ IF f = <<>> THEN mm_heap.root = NULL /\ mm_heap.end = NULL
       ELSE f[Len(f)] = mm_heap.end
    /\ \A b \in Elements(f) : ~ Allocated(mm_heap.mem, b)
    /\ \A i \in 1 .. Len(f) - 1 :
         /\ Mm!PREV_PTR(mm_heap, f[i + 1]) = f[i]
         /\ Mm!SizeIn(mm_heap, f[i]) <= Mm!SizeIn(mm_heap, f[i + 1])

Extent(b) == HDRP(b) .. FTRP(mm_heap.mem, b)

(* Free blocks and allocated ones with their payloads are apart, below the *)
(* epilogue and tagged at both ends.                                       *)
BlocksApart ==
  /\ FreeBlocks \cap DOMAIN mm_sizes = {}
  /\ \A b, c \in MmBlocks : b # c => Extent(b) \cap Extent(c) = {}
  /\ \A b \in MmBlocks :
       /\ b % 2 = 0 /\ Extent(b) \subseteq 3 .. mm_heap.brk - 2
       /\ mm_heap.mem[HDRP(b)] = mm_heap.mem[FTRP(mm_heap.mem, b)]
  /\ \A p \in DOMAIN mm_sizes :
       Payload(p, mm_sizes[p]) \subseteq p .. FTRP(mm_heap.mem, p) - 1

(* mm.c: the free list is sorted and doubly linked, and its blocks are     *)
(* apart from the allocated ones.                                          *)
FreeListSorted == ListSorted /\ BlocksApart

(* A block from the list is the smallest one that is large enough, and the *)
(* heap does not grow for a block of a size that is on the list.           *)
BestFit ==
  LET free == FreeBlocks IN
  /\ \A p \in free \cap (DOMAIN mm_sizes' \ DOMAIN mm_sizes), b \in free :
       Mm!SizeIn(mm_heap, b) < Mm!SizeIn(mm_heap, p)
         => Mm!SizeIn(mm_heap, b) < adjusted(mm_sizes'[p])
  /\ \A b \in free : Mm!SizeIn(mm_heap, b) # mm_heap'.brk - mm_heap.brk

(* A block is on the list or the caller holds it, whatever is inserted and *)
(* removed: the list never drops one.                                      *)
NothingLeaks ==
  \E h \in {mm_heap'} :
    MmBlocks \subseteq Elements(Mm!FreeList(h)) \cup DOMAIN mm_sizes'

(* mm.c: the smallest block that fits is taken, one of the right size is   *)
(* used again, and no block drops out of the list.                         *)
FreeListServes == [][BestFit /\ NothingLeaks]_mmVars

MmA == INSTANCE Allocator
         WITH HeapWords <- Addresses, content <- contentOf(mm_heap.mem, mm_sizes),
              stopped <- mm_stopped

(* mm.c: payloads never overlap, and neither tags nor links overwrite what *)
(* the caller has written: the data of a payload changes only as the       *)
(* caller writes it.                                                       *)
ExplicitImplementsAllocator == MmA!Spec

----------------------------------------------------------------------------
(* What every step preserves.                                              *)

(* f is the free list of h: root, links and end agree with it in both      *)
(* directions, and so does the order of the sizes.                         *)
Linked(h, f) ==
  /\ IF f = <<>> THEN h.root = NULL /\ h.end = NULL
     ELSE h.root = f[1] /\ h.end = f[Len(f)]
  /\ \A i \in 1 .. Len(f) - 1 :
       Mm!NEXT_PTR(h, f[i]) = f[i + 1] /\ Mm!PREV_PTR(h, f[i + 1]) = f[i]
  /\ \A i, j \in 1 .. Len(f) :
       i < j => f[i] # f[j] /\ Mm!SizeIn(h, f[i]) <= Mm!SizeIn(h, f[j])

(* B are blocks of the memory m below the break, one after the other with  *)
(* equal tags and room for the links; between them words may be lost.      *)
BlocksOf(m, brk, B) ==
  /\ B \subseteq 4 .. brk - 1
  /\ \A b \in B :
       /\ b % 2 = 0 /\ Size(m, b) >= 4 /\ NEXT_BLKP(m, b) <= brk
       /\ m[FTRP(m, b)] = m[HDRP(b)]
       /\ \A c \in B : b < c => NEXT_BLKP(m, b) <= c

MmIInv ==
  /\ MmTypeOK /\ ~ mm_stopped
  /\ mm_heap.brk % 2 = 0
  /\ \E f \in {MmList} : f \in Seq(Addresses \ {NULL}) /\ Linked(mm_heap, f)
  /\ BlocksOf(mm_heap.mem, mm_heap.brk, MmBlocks)
  /\ FreeBlocks \cap DOMAIN mm_sizes = {}
  /\ \A b \in FreeBlocks : ~ Allocated(mm_heap.mem, b)
  /\ \A p \in DOMAIN mm_sizes :
       PayloadWords(mm_sizes[p]) + 2 <= Mm!SizeIn(mm_heap, p)
=============================================================================
