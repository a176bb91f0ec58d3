----------------------------- MODULE Allocator -----------------------------
(***************************************************************************)
(* What a dynamic memory allocator promises: mm_malloc returns a double    *)
(* word aligned region of the heap that overlaps no other allocated one,   *)
(* or fails; regions keep the caller's data until they are freed; a        *)
(* reallocated region keeps its data up to the smaller of both sizes.      *)
(* The region that is new is named by its address after the step.          *)
(* This is what eval_mm_valid and add_range check on a trace               *)
(* (mdriver.c:389-437, 585-693).                                           *)
(***************************************************************************)
EXTENDS Integers, Sequences

CONSTANTS HeapWords,    \* addresses that can be allocated
          Requests,     \* sizes asked for, in bytes
          Fills         \* data the caller writes

VARIABLES content,      \* the data of each allocated region, by address
          stopped       \* the program has given up

vars == <<content, stopped>>

Words(size) == (size + 3) \div 4

Region(p, n) == p .. p + n - 1

\* A region of n words at p, next to the allocated ones of c.
Fits(c, p, n) ==
  /\ p % 2 = 0 /\ n > 0 /\ Region(p, n) \subseteq HeapWords
  /\ \A q \in DOMAIN c : Region(q, Len(c[q])) \cap Region(p, n) = {}

Without(c, p) == [q \in DOMAIN c \ {p} |-> c[q]]

With(c, p, data) == [q \in DOMAIN c \cup {p} |-> IF q = p THEN data ELSE c[q]]

Init == content = <<>> /\ stopped = FALSE

Malloc ==
  /\ \E p \in DOMAIN content' \ DOMAIN content, size \in Requests, d \in Fills :
       /\ Fits(content, p, Words(size))
       /\ content' = With(content, p, [i \in 1 .. Words(size) |-> d])
  /\ UNCHANGED stopped

Free ==
  /\ \E p \in DOMAIN content : content' = Without(content, p)
  /\ UNCHANGED stopped

(* The caller fills the words that are new.                                *)
Realloc ==
  /\ \E p \in DOMAIN content, q \in DOMAIN content', size \in Requests, d \in Fills :
       /\ Fits(Without(content, p), q, Words(size))
       /\ content' = With(Without(content, p), q,
                          [i \in 1 .. Words(size) |->
                             IF i <= Len(content[p]) THEN content[p][i] ELSE d])
  /\ UNCHANGED stopped

Stop == stopped' = TRUE /\ UNCHANGED content

Next == ~ stopped /\ (Malloc \/ Free \/ Realloc \/ Stop)

Spec == Init /\ [][Next]_vars
============================================================================
