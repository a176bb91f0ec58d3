---------------------------- MODULE BoundaryTags ----------------------------
(***************************************************************************)
(* The macros of mm-firstfit.c and mm.c on the words of the heap.          *)
(* Addresses and sizes are counted in words of 4 bytes, so WSIZE is 1 and  *)
(* DSIZE is 2; sizes and block pointers are even, which leaves the lowest  *)
(* bit of a header for the allocated flag as it is in bytes.  A block      *)
(* pointer is the address of the payload, one word after the header; the   *)
(* footer is the last word of the block.  m is the memory, a function from *)
(* addresses to words.  Requests are in bytes, as the caller gives them.   *)
(***************************************************************************)
EXTENDS Integers

CONSTANTS MAX_HEAP,     \* words of the largest heap
          CHUNKSIZE,    \* words by which mm-firstfit.c grows at least (1024)
          Requests,     \* request sizes of the caller, in bytes
          Fills         \* data of the caller, no sizes and no addresses

ASSUME MmAssumption ==
  /\ CHUNKSIZE \in Nat /\ CHUNKSIZE % 2 = 0 /\ CHUNKSIZE >= 4
  /\ MAX_HEAP \in Nat /\ MAX_HEAP >= 4 + CHUNKSIZE
  /\ Requests \subseteq Nat /\ Fills \subseteq Nat

Addresses == 0 .. MAX_HEAP - 1

NULL == 0

PACK(size, alloc) == size + alloc

GET_SIZE(word) == word - (word % 2)

GET_ALLOC(word) == word % 2

HDRP(bp) == bp - 1

Size(m, bp) == GET_SIZE(m[HDRP(bp)])

Allocated(m, bp) == GET_ALLOC(m[HDRP(bp)]) = 1

FTRP(m, bp) == bp + Size(m, bp) - 2

NEXT_BLKP(m, bp) == bp + Size(m, bp)

PREV_BLKP(m, bp) == bp - GET_SIZE(m[bp - 2])

\* Header and footer of a block of the given size at bp.
PutTags(m, bp, size, alloc) ==
  [m EXCEPT ![bp - 1] = PACK(size, alloc), ![bp + size - 2] = PACK(size, alloc)]

(* The tags of a free block.  The model forgets what is between them: the  *)
(* words become 0, which is no size that a walk could go on with.          *)
PutFree(m, bp, size) ==
  [a \in DOMAIN m |-> CASE a \in {bp - 1, bp + size - 2} -> PACK(size, 0)
                       [] a \in bp .. bp + size - 3     -> 0
                       [] OTHER                         -> m[a]]

(* The words that both mm_init write: padding, prologue and epilogue.       *)
FirstWords(m) == [a \in DOMAIN m |-> CASE a \in {1, 2} -> PACK(2, 1)
                                       [] a = 3 -> PACK(0, 1)
                                       [] a = 0 -> 0
                                       [] OTHER -> m[a]]

\* Mutant: off by one.
SpuriousNegative(size) == size < 0

Spurious(size) == size <= 0

(* The block size for a request: header and footer added, rounded up to    *)
(* double words, at least two of them.                                     *)
adjusted(size) == IF size <= 8 THEN 4 ELSE 2 * ((size + 8 + 7) \div 8)

\* Words of a payload of so many bytes.
PayloadWords(size) == (size + 3) \div 4

Payload(bp, size) == bp .. bp + PayloadWords(size) - 1

\* The caller's data d in the words W.
Filled(m, W, d) == [a \in DOMAIN m |-> IF a \in W THEN d ELSE m[a]]

\* memcpy of n words.
Copied(m, to, from, n) ==
  [a \in DOMAIN m |-> IF a \in to .. to + n - 1 THEN m[from + (a - to)] ELSE m[a]]

----------------------------------------------------------------------------
(* s has the caller's allocated payloads: block pointer to size in bytes.  *)

Sized(s, p, size) == [q \in DOMAIN s \cup {p} |-> IF q = p THEN size ELSE s[q]]

Unsized(s, p) == [q \in DOMAIN s \ {p} |-> s[q]]

(* What the caller finds in its payloads s in memory m.                    *)
contentOf(m, s) ==
  [p \in DOMAIN s |-> [i \in 1 .. PayloadWords(s[p]) |-> m[p + i - 1]]]
============================================================================
