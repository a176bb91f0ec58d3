-------------------------- MODULE MalloclabProofs ---------------------------
(***************************************************************************)
(* Proofs about two parts of src/malloclab.                                *)
(*                                                                         *)
(* The allocator of mm-firstfit.c (module MmFirstFit), for every heap      *)
(* size, every set of requests and every data of the caller: first the     *)
(* tags and the walk along them, then what each routine does to a heap     *)
(* that its blocks tile, then the theorems.                                *)
(*                                                                         *)
(* The measurement of fcyc.c (module Fcyc), for every word of the counter, *)
(* every cost of the function and every setting: first the arithmetic of   *)
(* words, then what a sample is worth, then which samples are kept.        *)
(***************************************************************************)
EXTENDS MmFirstFit, Fcyc, NatLemmas

----------------------------------------------------------------------------
(* Words.                                                                  *)

(* Sizes and block pointers stay even.                                     *)
LEMMA EvenSums ==
  ASSUME NEW a \in Int, NEW b \in Int, a % 2 = 0, b % 2 = 0
  PROVE  (a + b) % 2 = 0 /\ (a - b) % 2 = 0
OBVIOUS

\* A word that can be a header holds an even size and a flag.
LEMMA WordParts ==
  ASSUME NEW w \in Nat
  PROVE  /\ GET_SIZE(w) \in Nat /\ GET_SIZE(w) % 2 = 0
         /\ GET_ALLOC(w) \in {0, 1} /\ w = GET_SIZE(w) + GET_ALLOC(w)
BY DEF GET_SIZE, GET_ALLOC

(* PACK keeps the size and the flag apart: sizes are even.                 *)
LEMMA PackParts ==
  ASSUME NEW size \in Nat, size % 2 = 0, NEW alloc \in {0, 1}
  PROVE  /\ PACK(size, alloc) \in Nat
         /\ GET_SIZE(PACK(size, alloc)) = size /\ GET_ALLOC(PACK(size, alloc)) = alloc
<1>1. CASE alloc = 0
  BY <1>1 DEF PACK, GET_SIZE, GET_ALLOC
<1>2. CASE alloc = 1
  BY <1>2 DEF PACK, GET_SIZE, GET_ALLOC
<1> QED BY <1>1, <1>2

(* The block of a request has room for the payload and both tags.          *)
LEMMA AdjustedFits ==
  ASSUME NEW size \in Nat, ~ Spurious(size)
  PROVE  /\ adjusted(size) \in Nat /\ adjusted(size) % 2 = 0 /\ adjusted(size) >= 4
         /\ PayloadWords(size) \in Nat /\ PayloadWords(size) > 0
         /\ PayloadWords(size) + 2 <= adjusted(size)
BY DEF adjusted, PayloadWords, Spurious

(* What the constants are assumed to be.                                   *)
LEMMA Constants ==
  /\ CHUNKSIZE \in Nat /\ CHUNKSIZE % 2 = 0 /\ CHUNKSIZE >= 4
  /\ MAX_HEAP \in Nat /\ MAX_HEAP >= 4 + CHUNKSIZE
  /\ Requests \subseteq Nat /\ Fills \subseteq Nat
BY MmAssumption

----------------------------------------------------------------------------
(* The walk along the list.  A recursive function that only refers upwards *)
(* exists, and it visits the blocks.                                       *)

WalksUp(f, lo, hi, next, last) ==
  \A x \in lo .. hi :
    f[x] = IF x \in last \/ next[x] > hi THEN {x} ELSE {x} \cup f[next[x]]

(* By induction on how far below the end the function begins.              *)
LEMMA UpwardRecursion ==
  ASSUME NEW lo \in Nat, NEW hi \in Nat, NEW next \in [lo .. hi -> Nat],
         \A x \in lo .. hi : x < next[x],
         NEW last \in SUBSET (lo .. hi)
  PROVE  \E f : WalksUp(f, lo, hi, next, last)
<1> DEFINE Sol(n, f) == \A x \in n .. hi :
                          f[x] = IF x \in last \/ next[x] > hi THEN {x}
                                 ELSE {x} \cup f[next[x]]
           Has(n) == \E f : Sol(n, f)
           Bad == {d \in Nat : d <= hi + 1 - lo /\ ~ Has(hi + 1 - d)}
<1>1. Bad = {}
  <2> SUFFICES ASSUME Bad # {} PROVE FALSE
    OBVIOUS
  <2>1. PICK d \in Bad : \A e \in Bad : d <= e
    <3>1. Bad \in SUBSET Nat OBVIOUS
    <3> HIDE DEF Bad
    <3> QED BY <3>1, LeastNat
  <2>2. d # 0
    <3>1. \A n \in {hi + 1} : Sol(n, [x \in n .. hi |-> {}])
      OBVIOUS
    <3>2. Has(hi + 1)
      BY <3>1
    <3> HIDE DEF Has
    <3>3. hi + 1 - 0 = hi + 1 OBVIOUS
    <3> QED BY <2>1, <3>2, <3>3
  <2> DEFINE n == hi + 1 - d
  <2>3. d \in Nat /\ d - 1 \in Nat /\ n \in lo .. hi /\ hi + 1 - (d - 1) = n + 1
    <3> HIDE DEF Has
    <3> QED BY <2>1, <2>2
  <2>4. Has(n + 1)
    <3>1. d - 1 \notin Bad
      <4> HIDE DEF Bad
      <4> QED BY <2>1, <2>3
    <3>2. d - 1 <= hi + 1 - lo
      <4> HIDE DEF Has
      <4> QED BY <2>1, <2>3
    <3> HIDE DEF Has, n
    <3> QED BY <2>1, <2>3, <3>1, <3>2
  <2> HIDE DEF Sol
  <2>5. PICK f : Sol(n + 1, f)
    BY <2>4
  <2> HIDE DEF n
  <2> DEFINE v == IF n \in last \/ next[n] > hi THEN {n} ELSE {n} \cup f[next[n]]
             g == [x \in n .. hi |-> IF x = n THEN v ELSE f[x]]
  <2>6. Sol(n, g)
    <3>1. ASSUME NEW x \in n .. hi
          PROVE  g[x] = IF x \in last \/ next[x] > hi THEN {x} ELSE {x} \cup g[next[x]]
      <4>1. next[x] \in Nat /\ x < next[x]
        BY <2>3
      <4>2. CASE x = n
        <5>1. ~ (next[n] > hi) => g[next[n]] = f[next[n]]
          BY <2>3, <4>1, <4>2
        <5> QED BY <2>3, <4>2, <5>1
      <4>3. CASE x # n
        <5>1. x \in n + 1 .. hi
          BY <2>3, <4>3
        <5>2. f[x] = IF x \in last \/ next[x] > hi THEN {x} ELSE {x} \cup f[next[x]]
          BY <2>5, <5>1 DEF Sol
        <5>3. ~ (next[x] > hi) => g[next[x]] = f[next[x]]
          BY <2>3, <4>1, <5>1
        <5> QED BY <4>3, <5>2, <5>3
      <4> QED BY <4>2, <4>3
    <3> HIDE DEF g
    <3> QED BY <3>1 DEF Sol
  <2>7. Has(n)
    BY <2>6
  <2> HIDE DEF Has
  <2> QED BY <2>1, <2>7 DEF n
<1>2. CASE lo > hi
  BY <1>2 DEF WalksUp
<1>3. CASE lo <= hi
  <2>1. hi + 1 - lo \in Nat /\ hi + 1 - (hi + 1 - lo) = lo
    BY <1>3
  <2>2. Has(lo)
    <3> DEFINE d == hi + 1 - lo
    <3>1. d \in Nat /\ d <= hi + 1 - lo /\ hi + 1 - d = lo
      BY <2>1
    <3> HIDE DEF Has, d
    <3>2. d \notin Bad
      BY <1>1
    <3>3. Has(hi + 1 - d)
      BY <3>1, <3>2
    <3> QED BY <3>1, <3>3
  <2>3. PICK f : Sol(lo, f)
    BY <2>2
  <2>4. WalksUp(f, lo, hi, next, last)
    BY <2>3 DEF WalksUp
  <2> QED BY <2>4
<1> QED BY <1>2, <1>3

\* Sizes below the break, and what a block of a tiled heap looks like.
LEMMA SizeType ==
  ASSUME NEW m \in [Addresses -> Nat], NEW bp \in Int, bp >= 1, bp <= MAX_HEAP
  PROVE  /\ HDRP(bp) \in Addresses /\ m[HDRP(bp)] \in Nat
         /\ Size(m, bp) \in Nat /\ Size(m, bp) % 2 = 0
<1>1. HDRP(bp) \in Addresses
  BY Constants DEF HDRP, Addresses
<1>2. m[HDRP(bp)] \in Nat
  BY <1>1
<1> QED BY <1>1, <1>2, WordParts DEF Size

(* Blocks are between the prologue and the break.                          *)
LEMMA BlockRange ==
  ASSUME NEW m, NEW brk, NEW B, Tiled(m, brk, B)
  PROVE  /\ brk \in Nat /\ brk <= MAX_HEAP /\ brk >= 4 /\ MAX_HEAP \in Nat
         /\ \A b \in B : b \in Nat /\ b >= 2 /\ b < brk
         /\ \A b \in B \cup {brk} : b \in Nat /\ b >= 2 /\ b <= brk
<1>1. brk \in Nat /\ brk <= MAX_HEAP /\ brk >= 4 /\ MAX_HEAP \in Nat
  BY Constants DEF Tiled
<1>2. \A b \in B : b \in 2 .. brk - 1
  BY DEF Tiled, heap_listp
<1>3. \A b \in B : b \in Nat /\ b >= 2 /\ b < brk
  BY <1>1, <1>2
<1> QED BY <1>1, <1>3

(* Each ends where another one or the epilogue begins.                     *)
LEMMA BlockFacts ==
  ASSUME NEW m, NEW brk, NEW B, Tiled(m, brk, B), NEW b \in B
  PROVE  /\ brk \in Nat /\ brk <= MAX_HEAP /\ brk >= 4 /\ MAX_HEAP \in Nat
         /\ b \in Nat /\ b >= 2 /\ b < brk /\ b % 2 = 0
         /\ Size(m, b) \in Nat /\ Size(m, b) >= 2 /\ Size(m, b) % 2 = 0
         /\ NEXT_BLKP(m, b) = b + Size(m, b) /\ NEXT_BLKP(m, b) <= brk
         /\ NEXT_BLKP(m, b) \in B \cup {brk}
         /\ HDRP(b) = b - 1 /\ FTRP(m, b) = b + Size(m, b) - 2
<1>1. /\ brk \in Nat /\ brk <= MAX_HEAP /\ brk >= 4 /\ MAX_HEAP \in Nat
      /\ \A c \in B \cup {brk} : c <= brk
  BY BlockRange
<1>2. b \in Nat /\ b >= 2 /\ b < brk
  BY BlockRange
<1>3. b % 2 = 0 /\ Size(m, b) >= 2 /\ NEXT_BLKP(m, b) \in B \cup {brk}
  BY DEF Tiled
<1>4. Size(m, b) \in Nat /\ Size(m, b) % 2 = 0
  BY <1>1, <1>2, SizeType DEF Tiled
<1>5. NEXT_BLKP(m, b) <= brk
  BY <1>1, <1>3
<1> QED BY <1>1, <1>2, <1>3, <1>4, <1>5 DEF NEXT_BLKP, HDRP, FTRP

(* The epilogue is an allocated block of size 0, and no other block is.    *)
LEMMA EpilogueFacts ==
  ASSUME NEW m, NEW brk, NEW B, Tiled(m, brk, B)
  PROVE  Size(m, brk) = 0 /\ Allocated(m, brk) /\ brk \notin B
<1>1. m[HDRP(brk)] = PACK(0, 1) /\ brk \in Nat
  BY Constants DEF Tiled
<1>2. brk \notin B
  BY <1>1 DEF Tiled, heap_listp
<1>3. GET_SIZE(PACK(0, 1)) = 0 /\ GET_ALLOC(PACK(0, 1)) = 1
  BY PackParts
<1> QED BY <1>1, <1>2, <1>3 DEF Size, Allocated

(* The list visits exactly the blocks, and the epilogue.                   *)
LEMMA ListVisitsBlocks ==
  ASSUME NEW h, NEW B, Tiled(h.mem, h.brk, B)
  PROVE  ListFrom(h) = B \cup {h.brk}
<1> DEFINE m == h.mem
           brk == h.brk
<1>1. /\ m \in [Addresses -> Nat] /\ brk \in Nat /\ brk <= MAX_HEAP /\ brk >= 4
      /\ heap_listp = 2 /\ 2 \in B
  BY Constants DEF Tiled, heap_listp
<1>2. Tiled(m, brk, B)
  OBVIOUS
<1> HIDE DEF m, brk
<1> DEFINE next == [x \in 2 .. brk |-> IF Size(m, x) = 0 THEN x + 1 ELSE NEXT_BLKP(m, x)]
           last == {x \in 2 .. brk : Size(m, x) = 0}
           Eq(f) == f = [bp \in 2 .. brk |->
                           IF Size(m, bp) = 0 \/ NEXT_BLKP(m, bp) > brk THEN {bp}
                           ELSE {bp} \cup f[NEXT_BLKP(m, bp)]]
<1>3. \A x \in 2 .. brk : Size(m, x) \in Nat
  BY <1>1, SizeType, Constants
<1>4. next \in [2 .. brk -> Nat] /\ \A x \in 2 .. brk : x < next[x]
  BY <1>1, <1>3 DEF NEXT_BLKP
<1>5. PICK f : Eq(f)
  <2>1. last \in SUBSET (2 .. brk)
    OBVIOUS
  <2>2. \E f : WalksUp(f, 2, brk, next, last)
    <3> HIDE DEF next, last
    <3> QED BY <1>1, <1>4, <2>1, UpwardRecursion
  <2>3. PICK f : \A x \in 2 .. brk :
          f[x] = IF x \in last \/ next[x] > brk THEN {x} ELSE {x} \cup f[next[x]]
    BY <2>2 DEF WalksUp
  <2> DEFINE g == [x \in 2 .. brk |-> f[x]]
  <2>4. ASSUME NEW x \in 2 .. brk
        PROVE  g[x] = IF Size(m, x) = 0 \/ NEXT_BLKP(m, x) > brk THEN {x}
                      ELSE {x} \cup g[NEXT_BLKP(m, x)]
    <3>1. CASE Size(m, x) = 0
      BY <2>3, <3>1
    <3>2. CASE Size(m, x) # 0
      <4>1. next[x] = NEXT_BLKP(m, x) /\ x < next[x] /\ next[x] \in Nat
        BY <1>4, <3>2
      <4>2. f[x] = IF next[x] > brk THEN {x} ELSE {x} \cup f[next[x]]
        BY <2>3, <3>2
      <4>3. ~ (next[x] > brk) => g[next[x]] = f[next[x]]
        BY <1>1, <4>1
      <4> QED BY <3>2, <4>1, <4>2, <4>3
    <3> QED BY <3>1, <3>2
  <2>5. g = [x \in 2 .. brk |-> g[x]]
    OBVIOUS
  <2>6. Eq(g)
    <3> HIDE DEF g
    <3> QED BY <2>4, <2>5
  <2> QED BY <2>6
<1> HIDE DEF Eq
<1>6. ASSUME NEW g, Eq(g), NEW b \in B \cup {brk}
      PROVE  g[b] = {c \in B \cup {brk} : c >= b}
  <2> DEFINE Visits(c) == g[c] = {e \in B \cup {brk} : e >= c}
             Bad == {d \in Nat : \E c \in B \cup {brk} : brk - c = d /\ ~ Visits(c)}
  <2> HIDE DEF Visits
  <2>1. Bad = {}
    <3> SUFFICES ASSUME Bad # {} PROVE FALSE
      OBVIOUS
    <3>1. PICK d \in Bad : \A e \in Bad : d <= e
      <4>1. Bad \in SUBSET Nat OBVIOUS
      <4> HIDE DEF Bad
      <4> QED BY <4>1, LeastNat
    <3>2. PICK c \in B \cup {brk} : brk - c = d /\ ~ Visits(c) /\ d \in Nat
      OBVIOUS
    <3>3. \A e \in B \cup {brk} : e \in Nat /\ e <= brk /\ e >= 2
      BY <1>2, BlockRange
    <3>4. g[c] = IF Size(m, c) = 0 \/ NEXT_BLKP(m, c) > brk THEN {c}
                 ELSE {c} \cup g[NEXT_BLKP(m, c)]
      <4>1. c \in 2 .. brk
        BY <1>1, <3>3
      <4> QED BY <1>6, <4>1 DEF Eq
    <3>5. CASE c = brk
      <4>1. g[c] = {brk}
        BY <1>2, <3>4, <3>5, EpilogueFacts
      <4>2. \A e \in B : ~ (e >= brk)
        BY <1>1, <1>2, BlockRange
      <4>3. {e \in B \cup {brk} : e >= brk} = {brk}
        BY <1>1, <4>2
      <4> QED BY <3>2, <3>5, <4>1, <4>3 DEF Visits
    <3>6. CASE c \in B
      <4> DEFINE n == NEXT_BLKP(m, c)
      <4>1. /\ n \in B \cup {brk} /\ n <= brk /\ c < n /\ n \in Nat /\ c \in Nat
            /\ Size(m, c) # 0
        BY <1>2, <3>6, BlockFacts
      <4>2. g[c] = {c} \cup g[n]
        BY <1>1, <3>4, <4>1
      <4>3. \A e \in B : c < e => n <= e
        BY <1>2, <3>6 DEF Tiled
      <4> HIDE DEF n
      <4>4. Visits(n)
        <5>1. brk - n \in Nat /\ brk - n < d
          BY <1>1, <3>2, <4>1
        <5>2. brk - n \notin Bad
          <6> HIDE DEF Bad
          <6> QED BY <3>1, <3>2, <5>1
        <5> QED BY <4>1, <5>1, <5>2
      <4>5. g[n] = {e \in B \cup {brk} : e >= n}
        BY <4>4 DEF Visits
      <4>6. {c} \cup {e \in B \cup {brk} : e >= n} = {e \in B \cup {brk} : e >= c}
        <5>1. \A e \in B \cup {brk} : e >= n => e >= c
          BY <3>3, <4>1
        <5>2. \A e \in B \cup {brk} : e >= c => e = c \/ e >= n
          BY <3>3, <4>1, <4>3
        <5>3. c \in B \cup {brk} /\ c >= c
          BY <3>6, <4>1
        <5> DEFINE S == B \cup {brk}
        <5> HIDE DEF Bad, S
        <5>4. {c} \cup {e \in S : e >= n} = {e \in S : e >= c}
          BY <5>1, <5>2, <5>3 DEF S
        <5> QED BY <5>4 DEF S
      <4> QED BY <3>2, <4>2, <4>5, <4>6 DEF Visits
    <3> QED BY <3>5, <3>6
  <2>2. brk - b \in Nat
    BY <1>1, <1>2, BlockRange
  <2>3. Visits(b)
    BY <2>1, <2>2
  <2> QED BY <2>3 DEF Visits
<1>7. \A g : Eq(g) => g[2] = B \cup {brk}
  <2>1. \A c \in B \cup {brk} : c >= 2
    BY <1>2, BlockRange
  <2> QED BY <1>1, <1>6, <2>1
<1>8. Eq(CHOOSE g : Eq(g))
  BY <1>5
<1>9. ListFrom(h) = (CHOOSE g : Eq(g))[2]
  BY DEF ListFrom, Eq, m, brk, heap_listp
<1>10. (CHOOSE g : Eq(g))[2] = B \cup {brk}
  BY <1>7, <1>8
<1> QED BY <1>9, <1>10 DEF brk

(* Every block but the first one, and the epilogue, is the next of one.    *)
LEMMA Predecessor ==
  ASSUME NEW m, NEW brk, NEW B, Tiled(m, brk, B), NEW bp \in B \cup {brk}, bp # heap_listp
  PROVE  \E p \in B : NEXT_BLKP(m, p) = bp
<1> DEFINE Gaps == {d \in Nat : d > 0 /\ bp - d \in B}
<1>1. /\ heap_listp = 2 /\ 2 \in B /\ brk \in Nat
      /\ \A b \in B : b \in Nat /\ b >= 2 /\ b < brk
      /\ bp \in Nat /\ bp > 2 /\ bp <= brk
  BY BlockRange DEF Tiled, heap_listp
<1>2. bp - 2 \in Gaps
  <2>1. bp - 2 \in Nat /\ bp - 2 > 0 /\ bp - (bp - 2) = 2
    BY <1>1
  <2> QED BY <1>1, <2>1
<1>3. PICK d \in Gaps : \A e \in Gaps : d <= e
  <2>1. Gaps \in SUBSET Nat OBVIOUS
  <2> HIDE DEF Gaps
  <2> QED BY <1>2, <2>1, LeastNat
<1> DEFINE p == bp - d
<1>4. p \in B /\ d \in Nat /\ p \in Nat /\ p < bp
  BY <1>1
<1> HIDE DEF p
<1>5. /\ NEXT_BLKP(m, p) \in B \cup {brk} /\ NEXT_BLKP(m, p) \in Nat /\ p < NEXT_BLKP(m, p)
      /\ NEXT_BLKP(m, p) <= brk
  BY <1>1, <1>4, BlockFacts
<1>6. NEXT_BLKP(m, p) <= bp
  <2>1. CASE bp = brk
    BY <1>5, <2>1
  <2>2. CASE bp \in B
    BY <1>4, <2>2 DEF Tiled
  <2> QED BY <2>1, <2>2
<1>7. ASSUME NEXT_BLKP(m, p) # bp PROVE FALSE
  <2> DEFINE q == NEXT_BLKP(m, p)
  <2>1. q \in B /\ q < bp /\ p < q /\ q \in Nat
    BY <1>1, <1>5, <1>6, <1>7
  <2> HIDE DEF q
  <2>2. bp - q \in Nat /\ bp - q > 0 /\ bp - (bp - q) = q /\ bp - q < d
    BY <1>1, <1>4, <2>1 DEF p
  <2>3. bp - q \in Gaps
    BY <2>1, <2>2
  <2> HIDE DEF Gaps
  <2> QED BY <1>3, <1>4, <2>2, <2>3
<1> QED BY <1>4, <1>7

(* A part of the heap from one block to another is tiled anew: C are the    *)
(* blocks there, and the memory outside is the same.                       *)
Tiles(n, from, to, C) ==
  /\ C \subseteq from .. to - 1 /\ from \in C
  /\ \A c \in C : /\ c % 2 = 0 /\ Size(n, c) >= 2
                  /\ NEXT_BLKP(n, c) \in C \cup {to} /\ NEXT_BLKP(n, c) <= to
                  /\ n[FTRP(n, c)] = n[HDRP(c)]
                  /\ \A d \in C : c < d => NEXT_BLKP(n, c) <= d

SameOutside(m, n, from, to) ==
  \A a \in Addresses : a < from - 1 \/ a > to - 2 => n[a] = m[a]

Replaced(B, from, to, C) == {b \in B : b < from \/ b >= to} \cup C

\* The blocks outside keep their tags.
TagsKept(m, n, brk, B, from, to) ==
  /\ \A b \in B \cup {brk} : b < from \/ b >= to => Allocated(n, b) = Allocated(m, b)
  /\ \A b \in B : b < from \/ b >= to =>
       Size(n, b) = Size(m, b) /\ NEXT_BLKP(n, b) = NEXT_BLKP(m, b)

(* New blocks in place of those from one block to another leave a tiled    *)
(* heap, if no word outside has changed.                                   *)
LEMMA Retiled ==
  ASSUME NEW m, NEW brk, NEW B, Tiled(m, brk, B), NEW n \in [Addresses -> Nat],
         NEW from \in B, from # heap_listp, NEW to \in B \cup {brk}, from < to,
         SameOutside(m, n, from, to), NEW C, Tiles(n, from, to, C)
  PROVE  Tiled(n, brk, Replaced(B, from, to, C)) /\ TagsKept(m, n, brk, B, from, to)
<1> DEFINE Out == {b \in B : b < from \/ b >= to}
           D == Out \cup C
<1>1. /\ brk \in Nat /\ brk >= 4 /\ brk <= MAX_HEAP /\ MAX_HEAP \in Nat
      /\ \A b \in B \cup {brk} : b \in Nat /\ b >= 2 /\ b <= brk
      /\ \A b \in B : b < brk
      /\ heap_listp = 2 /\ 2 \in B
  <2>1. heap_listp = 2 /\ 2 \in B
    BY DEF Tiled, heap_listp
  <2> QED BY <2>1, BlockRange
<1>2. from \in Nat /\ to \in Nat /\ from > 2 /\ to <= brk /\ from \in B
  BY <1>1
<1>3. \A a \in Nat : a < brk /\ (a < from - 1 \/ a > to - 2) => n[a] = m[a]
  BY <1>1, <1>2 DEF Addresses, SameOutside
<1>4. ASSUME NEW b \in Out
      PROVE  /\ b \in B /\ b \in Nat /\ b >= 2 /\ b < brk
             /\ n[HDRP(b)] = m[HDRP(b)] /\ n[FTRP(m, b)] = m[FTRP(m, b)]
             /\ Size(n, b) = Size(m, b) /\ NEXT_BLKP(n, b) = NEXT_BLKP(m, b)
             /\ FTRP(n, b) = FTRP(m, b)
             /\ b < NEXT_BLKP(m, b) /\ NEXT_BLKP(m, b) \in Nat
             /\ NEXT_BLKP(m, b) \in B \cup {brk}
             /\ b < from => NEXT_BLKP(m, b) <= from
  <2>1. /\ b \in B /\ b \in Nat /\ b >= 2 /\ b < brk /\ HDRP(b) = b - 1
        /\ Size(m, b) \in Nat /\ Size(m, b) >= 2 /\ FTRP(m, b) = b + Size(m, b) - 2
        /\ NEXT_BLKP(m, b) = b + Size(m, b) /\ NEXT_BLKP(m, b) <= brk
        /\ NEXT_BLKP(m, b) \in B \cup {brk}
    BY BlockFacts
  <2>2. b < from => NEXT_BLKP(m, b) <= from
    BY <1>2, <2>1 DEF Tiled
  <2>3. b < from \/ b >= to
    OBVIOUS
  <2>4. /\ HDRP(b) \in Nat /\ HDRP(b) < brk /\ (HDRP(b) < from - 1 \/ HDRP(b) > to - 2)
    BY <1>1, <1>2, <2>1, <2>3
  <2>5. /\ FTRP(m, b) \in Nat /\ FTRP(m, b) < brk
        /\ (FTRP(m, b) < from - 1 \/ FTRP(m, b) > to - 2)
    BY <1>1, <1>2, <2>1, <2>2, <2>3
  <2>6. n[HDRP(b)] = m[HDRP(b)] /\ n[FTRP(m, b)] = m[FTRP(m, b)]
    BY <1>3, <2>4, <2>5
  <2>7. Size(n, b) = Size(m, b)
    BY <2>6 DEF Size
  <2> QED BY <2>1, <2>2, <2>6, <2>7 DEF NEXT_BLKP, FTRP
<1>5. n[HDRP(brk)] = m[HDRP(brk)]
  BY <1>1, <1>2, <1>3 DEF HDRP
<1>6. ASSUME NEW c \in C
      PROVE  c \in Nat /\ from <= c /\ c < to /\ c >= 2 /\ c < brk
  <2>1. c \in from .. to - 1
    BY DEF Tiles
  <2> QED BY <1>1, <1>2, <2>1
<1>0. /\ from \in C
      /\ \A c \in C : /\ c % 2 = 0 /\ Size(n, c) >= 2
                      /\ NEXT_BLKP(n, c) \in C \cup {to} /\ NEXT_BLKP(n, c) <= to
                      /\ n[FTRP(n, c)] = n[HDRP(c)]
                      /\ \A d \in C : c < d => NEXT_BLKP(n, c) <= d
  BY DEF Tiles
<1>7. D \subseteq heap_listp .. brk - 1
  <2>1. \A b \in Out : b \in 2 .. brk - 1
    BY <1>1, <1>4
  <2>2. \A b \in C : b \in 2 .. brk - 1
    BY <1>1, <1>6
  <2> QED BY <2>1, <2>2 DEF heap_listp
<1>8. heap_listp \in D /\ n[HDRP(heap_listp)] = PACK(2, 1)
  <2>1. heap_listp \in Out
    BY <1>1, <1>2
  <2> QED BY <1>4, <2>1 DEF Tiled
<1>9. ASSUME NEW b \in D
      PROVE  /\ b % 2 = 0 /\ Size(n, b) >= 2 /\ NEXT_BLKP(n, b) \in D \cup {brk}
             /\ n[FTRP(n, b)] = n[HDRP(b)]
             /\ \A c \in D : b < c => NEXT_BLKP(n, b) <= c
  <2>1. CASE b \in C
    <3>1. NEXT_BLKP(n, b) \in D \cup {brk}
      <4>1. to \in Out \cup {brk}
        BY <1>2
      <4> QED BY <1>0, <2>1, <4>1
    <3>2. ASSUME NEW c \in D, b < c PROVE NEXT_BLKP(n, b) <= c
      <4>1. CASE c \in C
        BY <1>0, <2>1, <3>2, <4>1
      <4>2. CASE c \in Out
        <5>1. c >= to /\ c \in Nat
          BY <1>2, <1>4, <1>6, <2>1, <3>2, <4>2
        <5>2. NEXT_BLKP(n, b) <= to /\ NEXT_BLKP(n, b) \in C \cup {to}
          BY <1>0, <2>1
        <5>3. NEXT_BLKP(n, b) \in Nat
          BY <1>2, <1>6, <5>2
        <5> QED BY <1>2, <5>1, <5>2, <5>3
      <4> QED BY <3>2, <4>1, <4>2
    <3> QED BY <1>0, <2>1, <3>1, <3>2
  <2>2. CASE b \in Out
    <3>1. /\ b \in B /\ b \in Nat /\ Size(n, b) = Size(m, b)
          /\ NEXT_BLKP(n, b) = NEXT_BLKP(m, b) /\ FTRP(n, b) = FTRP(m, b)
          /\ n[HDRP(b)] = m[HDRP(b)] /\ n[FTRP(m, b)] = m[FTRP(m, b)]
          /\ b < NEXT_BLKP(m, b) /\ NEXT_BLKP(m, b) \in Nat
          /\ NEXT_BLKP(m, b) \in B \cup {brk}
          /\ b < from => NEXT_BLKP(m, b) <= from
      BY <1>4, <2>2
    <3>2. /\ b % 2 = 0 /\ Size(m, b) >= 2 /\ m[FTRP(m, b)] = m[HDRP(b)]
          /\ \A c \in B : b < c => NEXT_BLKP(m, b) <= c
      BY <3>1 DEF Tiled
    <3>3. NEXT_BLKP(m, b) \in D \cup {brk}
      <4>1. CASE b < from
        BY <1>0, <1>1, <1>2, <3>1, <4>1
      <4>2. CASE b >= to
        BY <1>1, <1>2, <3>1, <4>2
      <4> QED BY <2>2, <4>1, <4>2
    <3>4. ASSUME NEW c \in D, b < c PROVE NEXT_BLKP(m, b) <= c
      <4>1. CASE c \in Out
        BY <3>2, <3>4, <4>1
      <4>2. CASE c \in C
        <5>1. from <= c /\ c < to /\ c \in Nat
          BY <1>6, <4>2
        <5>2. b < from
          BY <1>2, <2>2, <3>1, <3>4, <5>1
        <5> QED BY <1>2, <3>1, <5>1, <5>2
      <4> QED BY <3>4, <4>1, <4>2
    <3> QED BY <3>1, <3>2, <3>3, <3>4
  <2> QED BY <2>1, <2>2
<1>10. /\ brk \in 4 .. MAX_HEAP /\ brk % 2 = 0 /\ n[HDRP(brk)] = PACK(0, 1)
  BY <1>5 DEF Tiled
<1>11. TagsKept(m, n, brk, B, from, to)
  <2>1. \A b \in B : b < from \/ b >= to => Allocated(n, b) = Allocated(m, b)
    BY <1>4 DEF Allocated
  <2>2. Allocated(n, brk) = Allocated(m, brk)
    BY <1>5 DEF Allocated
  <2>3. \A b \in B : b < from \/ b >= to =>
          Size(n, b) = Size(m, b) /\ NEXT_BLKP(n, b) = NEXT_BLKP(m, b)
    BY <1>4
  <2> QED BY <2>1, <2>2, <2>3 DEF TagsKept
<1> HIDE DEF D
<1>12. Tiled(n, brk, D)
  BY <1>7, <1>8, <1>9, <1>10 DEF Tiled
<1> QED BY <1>11, <1>12 DEF D, Replaced

(* No block begins inside another one.                                     *)
LEMMA NoneBetween ==
  ASSUME NEW m, NEW brk, NEW B, Tiled(m, brk, B), NEW b \in B, NEW c \in B,
         b <= c, c < NEXT_BLKP(m, b)
  PROVE  b = c
<1>1. b \in Nat /\ NEXT_BLKP(m, b) \in Nat
  BY BlockFacts
<1>2. c \in Nat
  BY BlockFacts
<1>3. b < c => NEXT_BLKP(m, b) <= c
  BY DEF Tiled
<1> QED BY <1>1, <1>2, <1>3

(* The blocks from one to another become a single free block.              *)
LEMMA Merged ==
  ASSUME NEW m, NEW brk, NEW B, Tiled(m, brk, B),
         NEW from \in B, from # heap_listp, NEW to \in B \cup {brk}, from < to,
         NEW n, n = PutFree(m, from, to - from)
  PROVE  /\ Tiled(n, brk, Replaced(B, from, to, {from}))
         /\ TagsKept(m, n, brk, B, from, to) /\ SameOutside(m, n, from, to)
         /\ Size(n, from) = to - from /\ NEXT_BLKP(n, from) = to
         /\ ~ Allocated(n, from)
<1> DEFINE size == to - from
<1>1. /\ brk \in Nat /\ brk >= 4 /\ brk <= MAX_HEAP /\ MAX_HEAP \in Nat
      /\ from \in Nat /\ from >= 2 /\ from < brk /\ from % 2 = 0
      /\ Size(m, from) >= 2 /\ Size(m, from) \in Nat
      /\ NEXT_BLKP(m, from) = from + Size(m, from) /\ NEXT_BLKP(m, from) <= brk
  BY BlockFacts
<1>2. to \in Nat /\ to <= brk /\ to % 2 = 0
  <2>1. to \in Nat /\ to <= brk
    BY BlockRange
  <2>2. to % 2 = 0
    BY DEF Tiled
  <2> QED BY <2>1, <2>2
<1>3. size \in Nat /\ size % 2 = 0 /\ size >= 2
  <2>1. size \in Nat /\ size > 0
    BY <1>1, <1>2
  <2>2. size % 2 = 0
    BY <1>1, <1>2, EvenSums
  <2> QED BY <2>1, <2>2
<1>4. m \in [Addresses -> Nat] /\ DOMAIN m = Addresses
  BY DEF Tiled
<1>5. /\ PACK(size, 0) \in Nat
      /\ GET_SIZE(PACK(size, 0)) = size /\ GET_ALLOC(PACK(size, 0)) = 0
  BY <1>3, PackParts
<1> HIDE DEF size
<1>6. n = [a \in Addresses |-> CASE a \in {from - 1, from + size - 2} -> PACK(size, 0)
                       [] a \in from .. from + size - 3     -> 0
                       [] OTHER                             -> m[a]]
  BY <1>4 DEF PutFree, size
<1>7. n \in [Addresses -> Nat]
  BY <1>4, <1>5, <1>6
<1>8. from - 1 \in Addresses /\ from + size - 2 \in Addresses /\ from + size = to
  BY <1>1, <1>2, <1>3 DEF Addresses, size
<1>9. n[from - 1] = PACK(size, 0) /\ n[from + size - 2] = PACK(size, 0)
  <2>1. \A a \in Addresses : a \in {from - 1, from + size - 2} => n[a] = PACK(size, 0)
    <3> SUFFICES ASSUME NEW a \in Addresses, a = from - 1 \/ a = from + size - 2
                 PROVE  n[a] = PACK(size, 0)
      OBVIOUS
    <3>1. a \notin from .. from + size - 3
      BY <1>1, <1>3
    <3> QED BY <1>6, <3>1
  <2> QED BY <1>8, <2>1
<1>10. SameOutside(m, n, from, to)
  <2> SUFFICES ASSUME NEW a \in Addresses, a < from - 1 \/ a > to - 2
               PROVE  n[a] = m[a]
    BY DEF SameOutside
  <2>1. a \in Nat /\ a # from - 1 /\ a # from + size - 2 /\ a \notin from .. from + size - 3
    BY <1>1, <1>2, <1>3, <1>8 DEF Addresses
  <2> QED BY <1>6, <2>1
<1>11. /\ Size(n, from) = size /\ NEXT_BLKP(n, from) = to /\ ~ Allocated(n, from)
       /\ n[FTRP(n, from)] = n[HDRP(from)]
  <2>1. Size(n, from) = size
    BY <1>5, <1>9 DEF Size, HDRP
  <2>2. ~ Allocated(n, from)
    BY <1>5, <1>9 DEF Allocated, HDRP
  <2> QED BY <1>8, <1>9, <2>1, <2>2 DEF NEXT_BLKP, FTRP, HDRP
<1>12. Tiles(n, from, to, {from})
  BY <1>1, <1>2, <1>3, <1>11 DEF Tiles
<1> QED BY <1>7, <1>10, <1>11, <1>12, Retiled DEF size

----------------------------------------------------------------------------
(* coalesce.                                                               *)

\* Free blocks have allocated ones behind them, at bp perhaps not.
ApartBut(m, B, bp) ==
  \A b \in B : ~ Allocated(m, b) /\ b # bp /\ NEXT_BLKP(m, b) # bp
                 => Allocated(m, NEXT_BLKP(m, b))

Apart(m, B) ==
  \A b \in B : ~ Allocated(m, b) => Allocated(m, NEXT_BLKP(m, b))

AllocatedOf(m, B) == {b \in B : Allocated(m, b)}

\* The blocks S of memory m have the same words in n.
Kept(m, n, S) == \A b \in S : \A a \in HDRP(b) .. FTRP(m, b) : n[a] = m[a]

(* What is outside a part that begins and ends with blocks is kept.        *)
LEMMA OutsideKept ==
  ASSUME NEW m, NEW brk, NEW B, Tiled(m, brk, B), NEW n,
         NEW from \in B, NEW to \in B \cup {brk}, SameOutside(m, n, from, to),
         NEW S, \A b \in S : b \in B /\ (b < from \/ b >= to)
  PROVE  Kept(m, n, S)
<1> SUFFICES ASSUME NEW b \in S, NEW a \in HDRP(b) .. FTRP(m, b)
             PROVE  n[a] = m[a]
  BY DEF Kept
<1>1. b \in B /\ (b < from \/ b >= to)
  OBVIOUS
<1>2. /\ brk \in Nat /\ brk <= MAX_HEAP /\ MAX_HEAP \in Nat
      /\ b \in Nat /\ b >= 2 /\ b < brk /\ HDRP(b) = b - 1
      /\ Size(m, b) \in Nat /\ FTRP(m, b) = b + Size(m, b) - 2
      /\ NEXT_BLKP(m, b) = b + Size(m, b) /\ NEXT_BLKP(m, b) <= brk
  BY <1>1, BlockFacts
<1>3. from \in Nat /\ to \in Nat
  BY BlockRange
<1>4. b < from => NEXT_BLKP(m, b) <= from
  BY <1>1 DEF Tiled
<1>5. a \in Nat /\ a < MAX_HEAP /\ (a < from - 1 \/ a > to - 2)
  BY <1>1, <1>2, <1>3, <1>4
<1>6. a \in Addresses
  BY <1>2, <1>5 DEF Addresses
<1> QED BY <1>5, <1>6 DEF SameOutside

(* A free block and its free neighbours become one free block, which       *)
(* coalesce returns; nothing else of the memory changes.                   *)
LEMMA Coalescing ==
  ASSUME NEW m, NEW brk, NEW B, Tiled(m, brk, B),
         NEW bp \in B, bp # heap_listp, ~ Allocated(m, bp), ApartBut(m, B, bp),
         NEW n, n = coalesce(m, bp), NEW q, q = Coalesced(m, bp)
  PROVE  \E D : /\ Tiled(n, brk, D) /\ Apart(n, D)
                /\ AllocatedOf(n, D) = AllocatedOf(m, B) /\ Kept(m, n, AllocatedOf(m, B))
                /\ q \in D /\ q # heap_listp
                /\ ~ Allocated(n, q) /\ Size(n, q) >= Size(m, bp)
<1>1. PICK p \in B : NEXT_BLKP(m, p) = bp
  BY Predecessor
<1>2. /\ brk \in Nat /\ brk >= 4 /\ p \in Nat /\ p >= 2 /\ bp \in Nat
      /\ Size(m, p) \in Nat /\ Size(m, p) >= 2 /\ bp = p + Size(m, p)
      /\ FTRP(m, p) = p + Size(m, p) - 2
  BY <1>1, BlockFacts
<1>3. /\ Size(m, bp) \in Nat /\ Size(m, bp) >= 2
      /\ NEXT_BLKP(m, bp) = bp + Size(m, bp) /\ NEXT_BLKP(m, bp) \in B \cup {brk}
      /\ bp < brk
  BY BlockFacts
<1>4. FTRP(m, p) = bp - 2 /\ m[bp - 2] = m[HDRP(p)]
  <2>1. FTRP(m, p) = bp - 2
    BY <1>2
  <2> QED BY <2>1 DEF Tiled
<1>5. PREV_BLKP(m, bp) = p
  BY <1>2, <1>4 DEF PREV_BLKP, Size
<1>6. (GET_ALLOC(m[FTRP(m, p)]) = 1) <=> Allocated(m, p)
  BY <1>4 DEF Allocated
<1>7. Allocated(m, heap_listp)
  <2>1. m[HDRP(heap_listp)] = PACK(2, 1)
    BY DEF Tiled
  <2> QED BY <2>1, PackParts DEF Allocated
<1> DEFINE next == NEXT_BLKP(m, bp)
<1>8. next \in Nat /\ bp < next
  BY <1>2, <1>3
<1>9. ~ Allocated(m, next) =>
        /\ next \in B /\ next # heap_listp /\ GET_SIZE(m[FTRP(m, next)]) = Size(m, next)
        /\ NEXT_BLKP(m, next) = next + Size(m, next) /\ Size(m, next) \in Nat
        /\ Size(m, next) >= 2 /\ NEXT_BLKP(m, next) \in B \cup {brk}
  <2> SUFFICES ASSUME ~ Allocated(m, next)
               PROVE  /\ next \in B /\ next # heap_listp
                      /\ GET_SIZE(m[FTRP(m, next)]) = Size(m, next)
                      /\ NEXT_BLKP(m, next) = next + Size(m, next) /\ Size(m, next) \in Nat
                      /\ Size(m, next) >= 2 /\ NEXT_BLKP(m, next) \in B \cup {brk}
    OBVIOUS
  <2> HIDE DEF next
  <2>1. next \in B
    BY <1>3, EpilogueFacts DEF next
  <2>2. m[FTRP(m, next)] = m[HDRP(next)]
    BY <2>1 DEF Tiled
  <2>3. /\ NEXT_BLKP(m, next) = next + Size(m, next) /\ Size(m, next) \in Nat
        /\ Size(m, next) >= 2 /\ NEXT_BLKP(m, next) \in B \cup {brk}
    BY <2>1, BlockFacts
  <2> QED BY <1>7, <2>1, <2>2, <2>3 DEF Size
<1> DEFINE from == IF Allocated(m, p) THEN bp ELSE p
           to == IF Allocated(m, next) THEN next ELSE NEXT_BLKP(m, next)
<1> HIDE DEF next
<1>10. /\ from \in B /\ from # heap_listp /\ from <= bp /\ from \in Nat
       /\ to \in B \cup {brk} /\ next <= to /\ to \in Nat /\ from < to
  <2>1. from \in B /\ from # heap_listp /\ from <= bp /\ from \in Nat
    BY <1>2, <1>7
  <2>2. to \in B \cup {brk} /\ next <= to /\ to \in Nat
    BY <1>3, <1>8, <1>9 DEF next
  <2> QED BY <1>2, <1>8, <2>1, <2>2
<1>11. q = from
  BY <1>5, <1>6 DEF Coalesced
<1>12. (n = m /\ from = bp /\ to = next) \/ n = PutFree(m, from, to - from)
  <2>1. next - bp = Size(m, bp) /\ bp - p = Size(m, p)
    BY <1>2, <1>3 DEF next
  <2>2. CASE Allocated(m, p) /\ Allocated(m, next)
    BY <1>5, <1>6, <2>2 DEF coalesce, next
  <2>3. CASE Allocated(m, p) /\ ~ Allocated(m, next)
    <3>1. n = PutFree(m, bp, Size(m, bp) + Size(m, next))
      BY <1>5, <1>6, <2>3 DEF coalesce, next, Join
    <3>2. to - from = Size(m, bp) + Size(m, next) /\ from = bp
      BY <1>2, <1>3, <1>8, <1>9, <2>1, <2>3
    <3> HIDE DEF from, to
    <3> QED BY <3>1, <3>2
  <2>4. CASE ~ Allocated(m, p) /\ Allocated(m, next)
    <3>1. n = PutFree(m, p, Size(m, p) + Size(m, bp))
      BY <1>5, <1>6, <2>4 DEF coalesce, next, Join
    <3>2. to - from = Size(m, p) + Size(m, bp) /\ from = p
      BY <1>2, <1>3, <1>8, <2>1, <2>4
    <3> HIDE DEF from, to
    <3> QED BY <3>1, <3>2
  <2>5. CASE ~ Allocated(m, p) /\ ~ Allocated(m, next)
    <3>1. n = PutFree(m, p, Size(m, p) + Size(m, bp) + GET_SIZE(m[FTRP(m, next)]))
      BY <1>5, <1>6, <2>5 DEF coalesce, next, Join
    <3>2. to - from = Size(m, p) + Size(m, bp) + GET_SIZE(m[FTRP(m, next)]) /\ from = p
      BY <1>2, <1>3, <1>8, <1>9, <2>1, <2>5
    <3> HIDE DEF from, to
    <3> QED BY <3>1, <3>2
  <2> QED BY <2>2, <2>3, <2>4, <2>5
<1>13. ASSUME NEW b \in B, from <= b, b < to PROVE ~ Allocated(m, b) /\ (b = from \/ b >= bp)
  <2>1. b \in Nat
    BY BlockRange
  <2>2. CASE b < bp
    <3>1. from = p /\ ~ Allocated(m, p)
      BY <1>2, <1>13, <2>1, <2>2
    <3>2. p = b
      BY <1>1, <1>13, <2>2, <3>1, NoneBetween
    <3> QED BY <3>1, <3>2
  <2>3. CASE bp <= b /\ b < next
    <3>1. bp = b
      BY <2>3, NoneBetween DEF next
    <3> QED BY <1>2, <3>1
  <2>4. CASE next <= b
    <3>1. ~ Allocated(m, next) /\ to = NEXT_BLKP(m, next)
      BY <1>8, <1>13, <2>1, <2>4
    <3>2. next = b
      BY <1>9, <1>13, <2>4, <3>1, NoneBetween
    <3> QED BY <1>2, <1>8, <3>1, <3>2
  <2> QED BY <1>2, <1>8, <2>1, <2>2, <2>3, <2>4
<1>14. Allocated(m, to)
  <2>1. CASE Allocated(m, next)
    BY <2>1
  <2>2. CASE ~ Allocated(m, next)
    <3>1. next \in B /\ next # bp /\ NEXT_BLKP(m, next) # bp /\ to = NEXT_BLKP(m, next)
      BY <1>2, <1>8, <1>9, <2>2
    <3> QED BY <2>2, <3>1 DEF ApartBut
  <2> QED BY <2>1, <2>2
<1> DEFINE D == Replaced(B, from, to, {from})
<1> HIDE DEF from, to
<1>15. /\ Tiled(n, brk, D) /\ TagsKept(m, n, brk, B, from, to)
       /\ SameOutside(m, n, from, to)
       /\ Size(n, from) = to - from /\ NEXT_BLKP(n, from) = to /\ ~ Allocated(n, from)
  <2>1. CASE n = PutFree(m, from, to - from)
    BY <1>10, <2>1, Merged
  <2>2. CASE n = m /\ from = bp /\ to = next
    <3>1. ASSUME NEW b \in B PROVE b \in D
      <4>1. b \in Nat
        BY BlockRange
      <4>2. CASE bp <= b /\ b < next
        BY <2>2, <4>2, NoneBetween DEF next, Replaced
      <4> QED BY <1>2, <1>8, <2>2, <4>1, <4>2 DEF Replaced
    <3>2. D \subseteq B
      BY <1>10 DEF Replaced
    <3>3. D = B
      BY <3>1, <3>2
    <3>4. TagsKept(m, n, brk, B, from, to) /\ SameOutside(m, n, from, to)
      BY <2>2 DEF TagsKept, SameOutside
    <3>5. Size(m, bp) = next - bp
      BY <1>2, <1>3 DEF next
    <3> QED BY <2>2, <3>3, <3>4, <3>5 DEF next
  <2> QED BY <1>12, <2>1, <2>2
<1>16. ASSUME NEW b \in B, Allocated(m, b) PROVE b < from \/ b >= to
  <2>1. b \in Nat
    BY BlockRange
  <2> QED BY <1>10, <1>13, <1>16, <2>1
<1>17. AllocatedOf(n, D) = AllocatedOf(m, B)
  <2>1. ASSUME NEW b \in D, Allocated(n, b) PROVE b \in B /\ Allocated(m, b)
    BY <1>15, <2>1 DEF Replaced, TagsKept
  <2>2. ASSUME NEW b \in B, Allocated(m, b) PROVE b \in D /\ Allocated(n, b)
    BY <1>15, <1>16, <2>2 DEF Replaced, TagsKept
  <2> QED BY <2>1, <2>2 DEF AllocatedOf
<1>18. Kept(m, n, AllocatedOf(m, B))
  <2>1. \A b \in AllocatedOf(m, B) : b \in B /\ (b < from \/ b >= to)
    BY <1>16 DEF AllocatedOf
  <2> QED BY <1>10, <1>15, <2>1, OutsideKept
<1>19. Apart(n, D)
  <2> SUFFICES ASSUME NEW b \in D, ~ Allocated(n, b)
               PROVE  Allocated(n, NEXT_BLKP(n, b))
    BY DEF Apart
  <2>1. CASE b = from
    <3>1. Allocated(n, to) = Allocated(m, to)
      BY <1>10, <1>15 DEF TagsKept
    <3> QED BY <1>14, <1>15, <2>1, <3>1
  <2>2. CASE b # from
    <3>1. /\ b \in B /\ (b < from \/ b >= to) /\ ~ Allocated(m, b)
          /\ NEXT_BLKP(n, b) = NEXT_BLKP(m, b)
      BY <1>15, <2>2 DEF Replaced, TagsKept
    <3>2. b \in Nat /\ NEXT_BLKP(m, b) \in Nat /\ b < NEXT_BLKP(m, b)
      BY <3>1, BlockFacts
    <3>3. NEXT_BLKP(m, b) # bp
      <4> SUFFICES ASSUME NEXT_BLKP(m, b) = bp PROVE FALSE
        OBVIOUS
      <4>1. b <= p
        BY <1>1, <1>2, <3>1, <3>2 DEF Tiled
      <4>2. b = p
        BY <1>1, <1>2, <3>1, <3>2, <4>1, NoneBetween
      <4> QED BY <2>2, <3>1, <4>2 DEF from
    <3>4. b # bp
      BY <1>8, <1>10, <3>1, <3>2
    <3>5. Allocated(m, NEXT_BLKP(m, b))
      BY <3>1, <3>3, <3>4 DEF ApartBut
    <3>6. NEXT_BLKP(m, b) \in B \cup {brk}
      BY <3>1, BlockFacts
    <3>7. NEXT_BLKP(m, b) < from \/ NEXT_BLKP(m, b) >= to
      <4>1. CASE NEXT_BLKP(m, b) = brk
        <5>1. to <= brk
          BY <1>10, BlockRange
        <5> QED BY <4>1, <5>1
      <4>2. CASE NEXT_BLKP(m, b) \in B
        BY <1>16, <3>5, <4>2
      <4> QED BY <3>6, <4>1, <4>2
    <3> QED BY <1>15, <3>1, <3>5, <3>6, <3>7 DEF TagsKept
  <2> QED BY <2>1, <2>2
<1>20. q \in D /\ q # heap_listp /\ ~ Allocated(n, q) /\ Size(n, q) >= Size(m, bp)
  <2>1. to - from >= Size(m, bp)
    BY <1>2, <1>3, <1>8, <1>10 DEF next
  <2> QED BY <1>10, <1>11, <1>15, <2>1 DEF Replaced
<1> HIDE DEF D
<1> QED BY <1>15, <1>17, <1>18, <1>19, <1>20

----------------------------------------------------------------------------
(* What each routine makes of a well formed heap: B are its blocks and S   *)
(* the allocated ones, besides the prologue.                               *)

WellFormed(h, B, S) ==
  /\ h \in [mem : [Addresses -> Nat], brk : 4 .. MAX_HEAP]
  /\ Tiled(h.mem, h.brk, B) /\ Apart(h.mem, B)
  /\ AllocatedOf(h.mem, B) = S \cup {heap_listp} /\ heap_listp \notin S

\* What a well formed heap says of an allocated block.
LEMMA HeldFacts ==
  ASSUME NEW h, NEW B, NEW S, WellFormed(h, B, S), NEW p \in S
  PROVE  /\ p \in B /\ p # heap_listp /\ Allocated(h.mem, p)
         /\ h.mem \in [Addresses -> Nat] /\ Tiled(h.mem, h.brk, B)
         /\ p \in Nat /\ p >= 2 /\ p % 2 = 0 /\ Size(h.mem, p) \in Nat /\ Size(h.mem, p) >= 2
         /\ FTRP(h.mem, p) = p + Size(h.mem, p) - 2 /\ HDRP(p) = p - 1
         /\ p + Size(h.mem, p) <= h.brk /\ h.brk \in Nat /\ h.brk <= MAX_HEAP
         /\ MAX_HEAP \in Nat
<1>1. p \in B /\ p # heap_listp /\ Allocated(h.mem, p)
  BY DEF WellFormed, AllocatedOf
<1>2. h.mem \in [Addresses -> Nat] /\ Tiled(h.mem, h.brk, B)
  BY DEF WellFormed, Tiled
<1> QED BY <1>1, <1>2, BlockFacts

\* Kept blocks keep their sizes, and stay kept.
LEMMA KeptSizes ==
  ASSUME NEW h, NEW B, NEW S, WellFormed(h, B, S), NEW n, NEW T \in SUBSET S,
         Kept(h.mem, n, T)
  PROVE  /\ \A p \in T : Size(n, p) = Size(h.mem, p) /\ FTRP(n, p) = FTRP(h.mem, p)
         /\ \A k, U : U \subseteq T /\ Kept(n, k, U) => Kept(h.mem, k, U)
<1>1. ASSUME NEW p \in T
      PROVE  Size(n, p) = Size(h.mem, p) /\ FTRP(n, p) = FTRP(h.mem, p)
  <2>1. /\ p \in Nat /\ Size(h.mem, p) \in Nat /\ Size(h.mem, p) >= 2
        /\ FTRP(h.mem, p) = p + Size(h.mem, p) - 2 /\ HDRP(p) = p - 1
    BY HeldFacts
  <2>2. HDRP(p) \in HDRP(p) .. FTRP(h.mem, p)
    BY <2>1
  <2>3. n[HDRP(p)] = h.mem[HDRP(p)]
    BY <2>2 DEF Kept
  <2> QED BY <2>3 DEF Size, FTRP
<1>2. ASSUME NEW k, NEW U, U \subseteq T, Kept(n, k, U) PROVE Kept(h.mem, k, U)
  <2> SUFFICES ASSUME NEW b \in U, NEW a \in HDRP(b) .. FTRP(h.mem, b)
               PROVE  k[a] = h.mem[a]
    BY DEF Kept
  <2>1. b \in T /\ FTRP(n, b) = FTRP(h.mem, b)
    BY <1>1, <1>2
  <2>2. k[a] = n[a]
    BY <1>2, <2>1 DEF Kept
  <2>3. n[a] = h.mem[a]
    BY <2>1 DEF Kept
  <2> QED BY <2>2, <2>3
<1> QED BY <1>1, <1>2

(* Writing between the tags of an allocated block keeps the heap well      *)
(* formed.                                                                 *)
WritesWithin(m, n, p) ==
  /\ n \in [Addresses -> Nat]
  /\ \A a \in Addresses : a \notin p .. FTRP(m, p) - 1 => n[a] = m[a]

SameSizes(m, n, S) == \A b \in S : Size(n, b) = Size(m, b)

(* Such writing keeps the blocks, their sizes and the words of the others. *)
LEMMA Written ==
  ASSUME NEW h, NEW B, NEW S, WellFormed(h, B, S), NEW p \in S, NEW n,
         WritesWithin(h.mem, n, p)
  PROVE  /\ WellFormed([h EXCEPT !.mem = n], B, S) /\ Kept(h.mem, n, S \ {p})
         /\ SameSizes(h.mem, n, S)
<1> DEFINE m == h.mem
           brk == h.brk
           to == NEXT_BLKP(m, p)
<1>0. /\ n \in [Addresses -> Nat]
      /\ \A a \in Addresses : a \notin p .. FTRP(m, p) - 1 => n[a] = m[a]
  BY DEF WritesWithin
<1>1. /\ p \in B /\ p # heap_listp /\ Tiled(m, brk, B) /\ m \in [Addresses -> Nat]
      /\ p \in Nat /\ p >= 2 /\ p % 2 = 0 /\ Size(m, p) \in Nat /\ Size(m, p) >= 2
      /\ FTRP(m, p) = p + Size(m, p) - 2 /\ HDRP(p) = p - 1
      /\ p + Size(m, p) <= brk /\ brk \in Nat /\ brk <= MAX_HEAP /\ MAX_HEAP \in Nat
  BY HeldFacts
<1>2. to \in B \cup {brk} /\ to = p + Size(m, p) /\ m[FTRP(m, p)] = m[HDRP(p)]
  <2>1. to \in B \cup {brk} /\ to = p + Size(m, p)
    BY <1>1, BlockFacts
  <2>2. m[FTRP(m, p)] = m[HDRP(p)]
    BY <1>1 DEF Tiled
  <2> QED BY <2>1, <2>2
<1> HIDE DEF to
<1>3. SameOutside(m, n, p, to)
  <2> SUFFICES ASSUME NEW a \in Addresses, a < p - 1 \/ a > to - 2 PROVE n[a] = m[a]
    BY DEF SameOutside
  <2>1. a \in Nat
    BY <1>1 DEF Addresses
  <2>2. a \notin p .. FTRP(m, p) - 1
    BY <1>1, <1>2, <2>1
  <2> QED BY <1>0, <2>2
<1>4. n[HDRP(p)] = m[HDRP(p)] /\ n[FTRP(m, p)] = m[FTRP(m, p)]
  <2>1. HDRP(p) \in Addresses /\ HDRP(p) \notin p .. FTRP(m, p) - 1
    BY <1>1 DEF Addresses
  <2>2. FTRP(m, p) \in Addresses /\ FTRP(m, p) \notin p .. FTRP(m, p) - 1
    <3>1. FTRP(m, p) \in Nat /\ FTRP(m, p) < MAX_HEAP
      BY <1>1
    <3>2. FTRP(m, p) \in Addresses
      BY <1>1, <3>1 DEF Addresses
    <3>3. \A f \in Nat : f \notin p .. f - 1
      BY <1>1
    <3> QED BY <3>1, <3>2, <3>3
  <2> QED BY <1>0, <2>1, <2>2
<1>5. /\ Size(n, p) = Size(m, p) /\ FTRP(n, p) = FTRP(m, p)
      /\ NEXT_BLKP(n, p) = to /\ Allocated(n, p) = Allocated(m, p)
  BY <1>4 DEF Size, FTRP, NEXT_BLKP, Allocated, to
<1>6. p < to /\ to \in Nat
  BY <1>1, <1>2
<1>7. Tiles(n, p, to, {p})
  BY <1>1, <1>2, <1>4, <1>5, <1>6 DEF Tiles
<1>8. Tiled(n, brk, Replaced(B, p, to, {p})) /\ TagsKept(m, n, brk, B, p, to)
  <2> HIDE DEF m, brk
  <2> QED BY <1>0, <1>1, <1>2, <1>3, <1>6, <1>7, Retiled
<1>9. ASSUME NEW b \in B PROVE b = p \/ (b < p \/ b >= to)
  <2>1. b \in Nat
    BY <1>1, BlockRange
  <2> QED BY <1>1, <1>6, <2>1, NoneBetween DEF to
<1>10. Replaced(B, p, to, {p}) = B
  <2>1. \A b \in B : b = p \/ b \in Replaced(B, p, to, {p})
    BY <1>9 DEF Replaced
  <2> QED BY <1>1, <2>1 DEF Replaced
<1>11. \A b \in B : /\ Allocated(n, b) = Allocated(m, b) /\ Size(n, b) = Size(m, b)
                    /\ NEXT_BLKP(n, b) = NEXT_BLKP(m, b)
  <2> SUFFICES ASSUME NEW b \in B
               PROVE  /\ Allocated(n, b) = Allocated(m, b) /\ Size(n, b) = Size(m, b)
                      /\ NEXT_BLKP(n, b) = NEXT_BLKP(m, b)
    OBVIOUS
  <2>1. CASE b = p
    BY <1>5, <2>1 DEF to
  <2>2. CASE b # p
    BY <1>8, <1>9, <2>2 DEF TagsKept
  <2> QED BY <2>1, <2>2
<1>12. AllocatedOf(n, B) = AllocatedOf(m, B)
  BY <1>11 DEF AllocatedOf
<1>13. Allocated(n, brk) = Allocated(m, brk)
  <2>1. brk >= to
    BY <1>1, <1>2
  <2> QED BY <1>8, <2>1 DEF TagsKept
<1>14. Apart(n, B)
  <2>1. \A b \in B : ~ Allocated(m, b) => Allocated(m, NEXT_BLKP(m, b))
    BY DEF WellFormed, Apart
  <2>2. \A b \in B : NEXT_BLKP(m, b) \in B \cup {brk}
    BY <1>1 DEF Tiled
  <2> HIDE DEF m, brk
  <2> QED BY <1>11, <1>13, <2>1, <2>2 DEF Apart
<1>15. Kept(m, n, S \ {p})
  <2>1. ASSUME NEW b \in S \ {p} PROVE b \in B /\ (b < p \/ b >= to)
    <3>1. b \in B
      BY HeldFacts
    <3> QED BY <1>9, <3>1
  <2> HIDE DEF m, brk
  <2> QED BY <1>1, <1>2, <1>3, <2>1, OutsideKept
<1>16. SameSizes(m, n, S)
  <2>1. \A q \in S : q \in B
    BY HeldFacts
  <2> QED BY <1>11, <2>1 DEF SameSizes
<1>17. /\ [h EXCEPT !.mem = n] \in [mem : [Addresses -> Nat], brk : 4 .. MAX_HEAP]
       /\ [h EXCEPT !.mem = n].mem = n /\ [h EXCEPT !.mem = n].brk = brk
  BY <1>0 DEF WellFormed
<1>18. WellFormed([h EXCEPT !.mem = n], B, S)
  <2>1. AllocatedOf(m, B) = S \cup {heap_listp} /\ heap_listp \notin S
    BY DEF WellFormed
  <2>2. Tiled(n, brk, B)
    BY <1>8, <1>10
  <2> HIDE DEF m, brk
  <2> QED BY <1>12, <1>14, <1>17, <2>1, <2>2 DEF WellFormed
<1> QED BY <1>15, <1>16, <1>18

(* mm_free gives up one block and keeps the others.                        *)
LEMMA Freed ==
  ASSUME NEW h, NEW B, NEW S, WellFormed(h, B, S), NEW p \in S
  PROVE  /\ mm_free(h, p).brk = h.brk /\ Kept(h.mem, mm_free(h, p).mem, S \ {p})
         /\ \E D : WellFormed(mm_free(h, p), D, S \ {p})
<1> DEFINE m == h.mem
           brk == h.brk
           to == NEXT_BLKP(m, p)
           n == PutFree(m, p, Size(m, p))
           k == coalesce(n, p)
<1>1. /\ p \in B /\ p # heap_listp /\ Tiled(m, brk, B) /\ Allocated(m, p)
      /\ p \in Nat /\ Size(m, p) \in Nat /\ Size(m, p) >= 2
  BY HeldFacts
<1>2. to \in B \cup {brk} /\ to = p + Size(m, p) /\ to \in Nat /\ p < to
      /\ Size(m, p) = to - p /\ to <= brk
  <2>1. to \in B \cup {brk} /\ to = p + Size(m, p) /\ to <= brk
    BY <1>1, BlockFacts
  <2> QED BY <1>1, <2>1
<1>3. mm_free(h, p) = [h EXCEPT !.mem = k]
  BY DEF mm_free, WellFormed
<1>4. /\ mm_free(h, p).brk = brk /\ mm_free(h, p).mem = k
      /\ k \in [Addresses -> Nat] =>
           mm_free(h, p) \in [mem : [Addresses -> Nat], brk : 4 .. MAX_HEAP]
  <2> HIDE DEF k
  <2> QED BY <1>3 DEF WellFormed
<1>5. /\ Apart(m, B) /\ AllocatedOf(m, B) = S \cup {heap_listp} /\ heap_listp \notin S
  BY DEF WellFormed
<1> HIDE DEF m, brk, to
<1>6. /\ Tiled(n, brk, Replaced(B, p, to, {p}))
      /\ TagsKept(m, n, brk, B, p, to) /\ SameOutside(m, n, p, to)
      /\ NEXT_BLKP(n, p) = to /\ ~ Allocated(n, p)
  BY <1>1, <1>2, Merged
<1> HIDE DEF n
<1>7. ASSUME NEW b \in B PROVE b = p \/ (b < p \/ b >= to)
  <2>1. b \in Nat
    BY <1>1, BlockRange
  <2> QED BY <1>1, <1>2, <2>1, NoneBetween DEF to
<1>8. Replaced(B, p, to, {p}) = B
  <2>1. \A b \in B : b = p \/ b \in Replaced(B, p, to, {p})
    BY <1>7 DEF Replaced
  <2> QED BY <1>1, <2>1 DEF Replaced
<1>9. \A b \in B \ {p} : /\ Allocated(n, b) = Allocated(m, b)
                         /\ NEXT_BLKP(n, b) = NEXT_BLKP(m, b)
  BY <1>6, <1>7 DEF TagsKept
<1>10. Allocated(n, brk) = Allocated(m, brk)
  <2>1. brk >= to
    BY <1>2
  <2> QED BY <1>6, <2>1 DEF TagsKept
<1>11. ApartBut(n, B, p)
  <2> SUFFICES ASSUME NEW b \in B, ~ Allocated(n, b), b # p, NEXT_BLKP(n, b) # p
               PROVE  Allocated(n, NEXT_BLKP(n, b))
    BY DEF ApartBut
  <2>1. ~ Allocated(m, b) /\ NEXT_BLKP(n, b) = NEXT_BLKP(m, b)
    BY <1>9
  <2>2. Allocated(m, NEXT_BLKP(m, b)) /\ NEXT_BLKP(m, b) \in B \cup {brk}
    BY <1>1, <1>5, <2>1 DEF Apart, Tiled
  <2> QED BY <1>9, <1>10, <2>1, <2>2
<1>12. AllocatedOf(n, B) = AllocatedOf(m, B) \ {p}
  BY <1>6, <1>9 DEF AllocatedOf
<1>13. PICK D : /\ Tiled(k, brk, D) /\ Apart(k, D)
                /\ AllocatedOf(k, D) = AllocatedOf(n, B)
                /\ Kept(n, k, AllocatedOf(n, B))
  BY <1>1, <1>6, <1>8, <1>11, Coalescing
<1> HIDE DEF k
<1>14. Kept(m, n, AllocatedOf(n, B))
  <2>1. \A b \in AllocatedOf(n, B) : b \in B /\ (b < p \/ b >= to)
    BY <1>7, <1>12 DEF AllocatedOf
  <2> QED BY <1>1, <1>2, <1>6, <2>1, OutsideKept
<1>15. AllocatedOf(n, B) = (S \ {p}) \cup {heap_listp}
  BY <1>1, <1>5, <1>12
<1>16. Kept(m, k, S \ {p})
  <2>1. S \ {p} \subseteq AllocatedOf(n, B) /\ S \ {p} \in SUBSET S
    BY <1>15
  <2>2. Kept(m, n, S \ {p}) /\ Kept(n, k, S \ {p})
    BY <1>13, <1>14, <2>1 DEF Kept
  <2> QED BY <2>1, <2>2, KeptSizes DEF m
<1>17. WellFormed(mm_free(h, p), D, S \ {p})
  <2>1. k \in [Addresses -> Nat]
    BY <1>13 DEF Tiled
  <2> QED BY <1>4, <1>5, <1>13, <1>15, <2>1 DEF WellFormed
<1> QED BY <1>4, <1>16, <1>17 DEF m, brk

(* The new block and the epilogue tile a larger heap.                      *)
AppendsTo(h, B, S, words, n) ==
  /\ Tiled(n, h.brk + words, B \cup {h.brk}) /\ h.brk \notin B /\ h.brk # heap_listp
  /\ ApartBut(n, B \cup {h.brk}, h.brk)
  /\ AllocatedOf(n, B \cup {h.brk}) = AllocatedOf(h.mem, B) /\ Kept(h.mem, n, S)
  /\ Size(n, h.brk) = words /\ ~ Allocated(n, h.brk)

LEMMA Appends ==
  ASSUME NEW h, NEW B, NEW S, WellFormed(h, B, S),
         NEW words \in Nat, words % 2 = 0, words >= 4, h.brk + words <= MAX_HEAP,
         NEW n, n = NewBlock(h, words)
  PROVE  AppendsTo(h, B, S, words, n)
<1> DEFINE m == h.mem
           brk == h.brk
           end == brk + words
           C == B \cup {brk}
<1>1. /\ Tiled(m, brk, B) /\ m \in [Addresses -> Nat]
      /\ brk \in Nat /\ brk >= 4 /\ brk <= MAX_HEAP /\ MAX_HEAP \in Nat /\ brk % 2 = 0
      /\ brk \notin B /\ brk # heap_listp
  <2>1. Tiled(m, brk, B)
    BY DEF WellFormed
  <2>2. /\ brk \in Nat /\ brk >= 4 /\ brk <= MAX_HEAP /\ MAX_HEAP \in Nat
    BY <2>1, BlockRange
  <2> QED BY <2>1, <2>2, EpilogueFacts DEF Tiled, heap_listp
<1>2. /\ Apart(m, B) /\ AllocatedOf(m, B) = S \cup {heap_listp} /\ heap_listp \notin S
      /\ \A p \in S : p \in B
  BY DEF WellFormed, AllocatedOf
<1>3. end \in Nat /\ end <= MAX_HEAP /\ end % 2 = 0 /\ end = brk + words /\ end >= 4
  <2>1. end \in Nat /\ end <= MAX_HEAP /\ end = brk + words /\ end >= 4
    BY <1>1
  <2>2. (brk + words) % 2 = 0
    <3> HIDE DEF brk
    <3> QED BY <1>1, EvenSums
  <2> QED BY <2>1, <2>2
<1>4. n = [[a \in Addresses |-> CASE a \in {brk - 1, brk + words - 2} -> PACK(words, 0)
                       [] a \in brk .. brk + words - 3     -> 0
                       [] OTHER                            -> m[a]]
             EXCEPT ![end - 1] = PACK(0, 1)]
  <2>1. DOMAIN m = Addresses
    BY <1>1
  <2>2. PutFree(m, brk, words) =
          [a \in Addresses |-> CASE a \in {brk - 1, brk + words - 2} -> PACK(words, 0)
                       [] a \in brk .. brk + words - 3     -> 0
                       [] OTHER                            -> m[a]]
    <3> HIDE DEF m, brk
    <3> QED BY <2>1 DEF PutFree
  <2>3. n = [PutFree(m, brk, words) EXCEPT ![end - 1] = PACK(0, 1)]
    <3>1. n = [PutFree(m, brk, words) EXCEPT ![brk + words - 1] = PACK(0, 1)]
      BY DEF NewBlock
    <3>2. brk + words - 1 = end - 1
      BY <1>1
    <3> HIDE DEF m, brk, end
    <3> QED BY <3>1, <3>2
  <2> HIDE DEF m, brk, end
  <2> QED BY <2>2, <2>3
<1> HIDE DEF end, m, brk
<1>5. /\ PACK(words, 0) \in Nat /\ PACK(0, 1) \in Nat
      /\ GET_SIZE(PACK(words, 0)) = words /\ GET_ALLOC(PACK(words, 0)) = 0
      /\ GET_SIZE(PACK(0, 1)) = 0 /\ GET_ALLOC(PACK(0, 1)) = 1
  BY PackParts
<1>6. /\ n \in [Addresses -> Nat]
      /\ n[end - 1] = PACK(0, 1)
      /\ n[brk - 1] = PACK(words, 0) /\ n[end - 2] = PACK(words, 0)
      /\ \A a \in Addresses : a < brk - 1 => n[a] = m[a]
  <2>1. brk - 1 \in Addresses /\ end - 2 \in Addresses /\ end - 1 \in Addresses
    BY <1>1, <1>3 DEF Addresses
  <2>2. n \in [Addresses -> Nat]
    <3> DEFINE u == [a \in Addresses |-> CASE a \in {brk - 1, brk + words - 2} -> PACK(words, 0)
                                         [] a \in brk .. brk + words - 3     -> 0
                                         [] OTHER                            -> m[a]]
    <3>1. u \in [Addresses -> Nat]
      BY <1>1, <1>5
    <3>2. n = [u EXCEPT ![end - 1] = PACK(0, 1)]
      BY <1>4
    <3> HIDE DEF u
    <3> QED BY <1>5, <3>1, <3>2
  <2>3. n[end - 1] = PACK(0, 1)
    BY <1>4, <2>1
  <2>4. ASSUME NEW a \in Addresses, a = brk - 1 \/ a = end - 2
        PROVE  n[a] = PACK(words, 0)
    <3>1. a \notin brk .. brk + words - 3 /\ a # end - 1 /\ end - 2 = brk + words - 2
      BY <1>1, <1>3, <2>4
    <3> QED BY <1>4, <2>4, <3>1
  <2>5. ASSUME NEW a \in Addresses, a < brk - 1 PROVE n[a] = m[a]
    <3>1. /\ a \notin brk .. brk + words - 3 /\ a # end - 1
          /\ a # brk - 1 /\ a # brk + words - 2 /\ a \in Nat
      BY <1>1, <1>3, <2>5 DEF Addresses
    <3> QED BY <1>4, <3>1
  <2> QED BY <2>1, <2>2, <2>3, <2>4, <2>5
<1>7. ASSUME NEW b \in B
      PROVE  /\ b \in Nat /\ b >= 2 /\ b < brk
             /\ b % 2 = 0 /\ Size(m, b) >= 2 /\ Size(m, b) \in Nat
             /\ n[HDRP(b)] = m[HDRP(b)] /\ n[FTRP(m, b)] = m[FTRP(m, b)]
             /\ m[FTRP(m, b)] = m[HDRP(b)]
             /\ Size(n, b) = Size(m, b) /\ FTRP(n, b) = FTRP(m, b)
             /\ NEXT_BLKP(n, b) = NEXT_BLKP(m, b) /\ Allocated(n, b) = Allocated(m, b)
             /\ NEXT_BLKP(m, b) \in B \cup {brk} /\ NEXT_BLKP(m, b) <= brk
             /\ NEXT_BLKP(m, b) \in Nat
             /\ \A c \in B : b < c => NEXT_BLKP(m, b) <= c
  <2>1. /\ b \in Nat /\ b >= 2 /\ b < brk /\ b % 2 = 0
        /\ Size(m, b) >= 2 /\ Size(m, b) \in Nat
        /\ NEXT_BLKP(m, b) = b + Size(m, b) /\ NEXT_BLKP(m, b) <= brk
        /\ NEXT_BLKP(m, b) \in B \cup {brk}
        /\ HDRP(b) = b - 1 /\ FTRP(m, b) = b + Size(m, b) - 2
    BY <1>1, BlockFacts
  <2>2. m[FTRP(m, b)] = m[HDRP(b)] /\ \A c \in B : b < c => NEXT_BLKP(m, b) <= c
    BY <1>1 DEF Tiled
  <2>3. HDRP(b) \in Addresses /\ HDRP(b) < brk - 1
    BY <1>1, <2>1 DEF Addresses
  <2>4. FTRP(m, b) \in Nat /\ FTRP(m, b) < brk - 1
    BY <1>1, <2>1
  <2>5. FTRP(m, b) \in Addresses
    BY <1>1, <2>4 DEF Addresses
  <2>6. n[HDRP(b)] = m[HDRP(b)] /\ n[FTRP(m, b)] = m[FTRP(m, b)]
    BY <1>6, <2>3, <2>4, <2>5
  <2>7. /\ Size(n, b) = Size(m, b) /\ FTRP(n, b) = FTRP(m, b)
        /\ NEXT_BLKP(n, b) = NEXT_BLKP(m, b) /\ Allocated(n, b) = Allocated(m, b)
    BY <2>6 DEF Size, FTRP, NEXT_BLKP, Allocated
  <2> QED BY <2>1, <2>2, <2>6, <2>7
<1>8. /\ Size(n, brk) = words /\ ~ Allocated(n, brk)
       /\ NEXT_BLKP(n, brk) = end /\ n[FTRP(n, brk)] = n[HDRP(brk)]
  <2>1. Size(n, brk) = words /\ ~ Allocated(n, brk)
    BY <1>5, <1>6 DEF Size, Allocated, HDRP
  <2>2. FTRP(n, brk) = end - 2
    BY <1>1, <1>3, <2>1 DEF FTRP
  <2> QED BY <1>3, <1>6, <2>1, <2>2 DEF NEXT_BLKP, HDRP
<1>9. Tiled(n, end, C)
  <2>1. end \in 4 .. MAX_HEAP /\ end % 2 = 0 /\ n[HDRP(end)] = PACK(0, 1)
    BY <1>1, <1>3, <1>6 DEF HDRP
  <2>2. C \subseteq heap_listp .. end - 1
    <3>1. \A b \in C : b \in Nat /\ b >= 2 /\ b < end
      BY <1>1, <1>3, <1>7
    <3>2. \A b \in C : b \in 2 .. end - 1
      BY <1>3, <3>1
    <3> QED BY <3>2 DEF heap_listp
  <2>3. heap_listp \in C /\ n[HDRP(heap_listp)] = PACK(2, 1)
    <3>1. heap_listp \in B /\ m[HDRP(heap_listp)] = PACK(2, 1)
      BY <1>1 DEF Tiled
    <3> QED BY <1>7, <3>1
  <2>4. ASSUME NEW b \in C
        PROVE  /\ b % 2 = 0 /\ Size(n, b) >= 2 /\ NEXT_BLKP(n, b) \in C \cup {end}
               /\ n[FTRP(n, b)] = n[HDRP(b)]
               /\ \A c \in C : b < c => NEXT_BLKP(n, b) <= c
    <3>1. CASE b = brk
      <4>1. \A c \in C : ~ (b < c)
        BY <1>1, <1>7, <3>1
      <4> QED BY <1>1, <1>8, <3>1, <4>1
    <3>2. CASE b \in B
      BY <1>7, <3>2
    <3> QED BY <3>1, <3>2
  <2> HIDE DEF C
  <2> QED BY <1>6, <2>1, <2>2, <2>3, <2>4 DEF Tiled
<1>10. AllocatedOf(n, C) = AllocatedOf(m, B)
  BY <1>7, <1>8 DEF AllocatedOf
<1>11. ApartBut(n, C, brk)
  <2> SUFFICES ASSUME NEW b \in C, ~ Allocated(n, b), b # brk, NEXT_BLKP(n, b) # brk
               PROVE  Allocated(n, NEXT_BLKP(n, b))
    BY DEF ApartBut
  <2>1. /\ b \in B /\ NEXT_BLKP(n, b) = NEXT_BLKP(m, b) /\ ~ Allocated(m, b)
        /\ NEXT_BLKP(m, b) \in B
    BY <1>7
  <2>2. Allocated(m, NEXT_BLKP(m, b))
    BY <1>2, <2>1 DEF Apart
  <2> QED BY <1>7, <2>1, <2>2
<1>12. Kept(m, n, S)
  <2> SUFFICES ASSUME NEW b \in S, NEW a \in HDRP(b) .. FTRP(m, b) PROVE n[a] = m[a]
    BY DEF Kept
  <2>1. /\ b \in Nat /\ b >= 2 /\ Size(m, b) \in Nat /\ HDRP(b) = b - 1
        /\ FTRP(m, b) = b + Size(m, b) - 2 /\ b + Size(m, b) <= brk
    BY HeldFacts DEF m, brk
  <2>2. a \in Nat /\ a < brk - 1
    BY <1>1, <2>1
  <2>3. a \in Addresses
    BY <1>1, <2>2 DEF Addresses
  <2> QED BY <1>6, <2>2, <2>3
<1> QED BY <1>1, <1>8, <1>9, <1>10, <1>11, <1>12 DEF m, end, brk, AppendsTo

(* extend_heap adds at the end of the heap and keeps the blocks; what it   *)
(* returns is free and at least as large as asked for.                     *)
LEMMA Extends ==
  ASSUME NEW h, NEW B, NEW S, WellFormed(h, B, S),
         NEW words \in Nat, words % 2 = 0, words >= 4, h.brk + words <= MAX_HEAP,
         NEW r, r = extend_heap(h, words)
  PROVE  /\ r.heap.brk = h.brk + words /\ Kept(h.mem, r.heap.mem, S)
         /\ \E D : /\ WellFormed(r.heap, D, S)
                   /\ r.bp \in D /\ r.bp # heap_listp
                   /\ ~ Allocated(r.heap.mem, r.bp) /\ Size(r.heap.mem, r.bp) >= words
<1> DEFINE m == h.mem
           brk == h.brk
           end == brk + words
           n == NewBlock(h, words)
           k == coalesce(n, brk)
           C == B \cup {brk}
<1>1. words + (words % 2) = words
  OBVIOUS
<1>2. r = [heap |-> [mem |-> k, brk |-> end], bp |-> Coalesced(n, brk)]
  BY <1>1 DEF extend_heap
<1>3. /\ AllocatedOf(m, B) = S \cup {heap_listp} /\ heap_listp \notin S
  BY DEF WellFormed, AllocatedOf
<1>4. end \in 4 .. MAX_HEAP
  <2>1. Tiled(m, brk, B)
    BY DEF WellFormed
  <2>2. brk \in Nat /\ brk >= 4 /\ MAX_HEAP \in Nat
    BY <2>1, BlockRange
  <2> QED BY <2>2
<1> HIDE DEF k, n
<1>5. AppendsTo(h, B, S, words, n)
  BY Appends DEF n
<1>6. /\ Tiled(n, end, C) /\ ApartBut(n, C, brk) /\ AllocatedOf(n, C) = AllocatedOf(m, B)
      /\ Kept(m, n, S) /\ Size(n, brk) = words /\ ~ Allocated(n, brk) /\ brk # heap_listp
  BY <1>5 DEF AppendsTo
<1> HIDE DEF end, m, brk
<1>7. PICK D : /\ Tiled(k, end, D) /\ Apart(k, D)
               /\ AllocatedOf(k, D) = AllocatedOf(n, C)
               /\ Kept(n, k, AllocatedOf(n, C))
               /\ Coalesced(n, brk) \in D /\ Coalesced(n, brk) # heap_listp
               /\ ~ Allocated(k, Coalesced(n, brk))
               /\ Size(k, Coalesced(n, brk)) >= Size(n, brk)
  <2>1. brk \in C
    OBVIOUS
  <2> HIDE DEF C
  <2> QED BY <1>6, <2>1, Coalescing DEF k
<1>8. Kept(m, k, S)
  <2>1. Kept(n, k, S)
    BY <1>3, <1>6, <1>7 DEF Kept
  <2> QED BY <1>6, <2>1, KeptSizes DEF m
<1>9. r.bp = Coalesced(n, brk) /\ r.heap.mem = k /\ r.heap.brk = end
  BY <1>2
<1>10. WellFormed(r.heap, D, S)
  <2>1. r.heap \in [mem : [Addresses -> Nat], brk : 4 .. MAX_HEAP]
    BY <1>2, <1>4, <1>7 DEF Tiled
  <2>2. AllocatedOf(k, D) = S \cup {heap_listp}
    BY <1>3, <1>6, <1>7
  <2> HIDE DEF C
  <2> QED BY <1>3, <1>7, <1>9, <2>1, <2>2 DEF WellFormed
<1> QED BY <1>6, <1>7, <1>8, <1>9, <1>10 DEF m, end, brk

(* place allocates a free block that is large enough, and leaves the rest  *)
(* of it free when it is large.                                            *)
FreeRoom(h, B, bp, asize) ==
  /\ asize \in Nat /\ asize % 2 = 0 /\ asize >= 4
  /\ bp \in B /\ ~ Allocated(h.mem, bp) /\ asize <= Size(h.mem, bp)

\* g is h with a new allocated block bp of at least asize words.
Allocates(h, g, S, bp, asize) ==
  /\ bp \notin S /\ Kept(h.mem, g.mem, S)
  /\ Size(g.mem, bp) >= asize /\ \E D : WellFormed(g, D, S \cup {bp})

(* What place does to a well formed heap, whether it splits or not.        *)
LEMMA Places ==
  ASSUME NEW h, NEW B, NEW S, WellFormed(h, B, S),
         NEW bp, NEW asize, FreeRoom(h, B, bp, asize)
  PROVE  /\ Allocates(h, place(h, bp, asize), S, bp, asize)
         /\ place(h, bp, asize).brk = h.brk
<1> DEFINE m == h.mem
           brk == h.brk
           to == NEXT_BLKP(m, bp)
           csize == Size(m, bp)
           rest == csize - asize
           tagged == PutTags(m, bp, asize, 1)
           split == PutFree(tagged, bp + asize, rest)
           whole == PutTags(m, bp, csize, 1)
           n == IF rest >= 4 THEN split ELSE whole
           g == place(h, bp, asize)
<1>0. FreeRoom(h, B, bp, asize)
  OBVIOUS
<1> USE <1>0 DEF FreeRoom
<1>1. Tiled(m, brk, B) /\ m \in [Addresses -> Nat]
  BY DEF WellFormed, Tiled
<1>2. /\ Apart(m, B) /\ AllocatedOf(m, B) = S \cup {heap_listp} /\ heap_listp \notin S
  BY DEF WellFormed
<1>3. bp # heap_listp /\ bp \notin S
  <2>1. bp \notin S \cup {heap_listp}
    BY <1>2 DEF AllocatedOf
  <2> QED BY <2>1
<1>4. g = [h EXCEPT !.mem = n]
  BY DEF place, WellFormed
<1>5. /\ g.brk = brk /\ g.mem = n
      /\ n \in [Addresses -> Nat] =>
           g \in [mem : [Addresses -> Nat], brk : 4 .. MAX_HEAP]
  <2> HIDE DEF n
  <2> QED BY <1>4 DEF WellFormed
<1>6. ~ Allocated(m, bp) /\ asize <= csize
  OBVIOUS
<1> HIDE DEF m, brk, g
<1>7. /\ brk \in Nat /\ brk <= MAX_HEAP /\ brk >= 4 /\ MAX_HEAP \in Nat
      /\ bp \in Nat /\ bp >= 2 /\ bp < brk /\ bp % 2 = 0
      /\ csize \in Nat /\ csize >= 2 /\ csize % 2 = 0
      /\ to = bp + csize /\ to <= brk /\ to \in B \cup {brk}
  BY <1>1, BlockFacts
<1> HIDE DEF to, csize
<1>8. to \in Nat /\ bp < to /\ bp + asize <= to /\ csize >= 4 /\ to >= 6
  BY <1>6, <1>7
<1>9. DOMAIN m = Addresses
  BY <1>1
<1> DEFINE C == IF rest >= 4 THEN {bp, bp + asize} ELSE {bp}
<1>10. /\ n \in [Addresses -> Nat] /\ SameOutside(m, n, bp, to) /\ Tiles(n, bp, to, C)
       /\ Allocated(n, bp) /\ Size(n, bp) >= asize
       /\ rest >= 4 => /\ ~ Allocated(n, bp + asize) /\ NEXT_BLKP(n, bp + asize) = to
                       /\ NEXT_BLKP(n, bp) = bp + asize
       /\ ~ (rest >= 4) => NEXT_BLKP(n, bp) = to
  <2>1. CASE ~ (rest >= 4)
    <3>1. /\ PACK(csize, 1) \in Nat
          /\ GET_SIZE(PACK(csize, 1)) = csize /\ GET_ALLOC(PACK(csize, 1)) = 1
      BY <1>7, PackParts
    <3>2. bp - 1 \in Addresses /\ to - 2 \in Addresses /\ bp + csize - 2 = to - 2
      BY <1>7, <1>8 DEF Addresses
    <3>3. whole = [m EXCEPT ![bp - 1] = PACK(csize, 1), ![to - 2] = PACK(csize, 1)]
      BY <3>2 DEF PutTags
    <3> HIDE DEF whole
    <3>4. n = whole /\ C = {bp}
      BY <2>1
    <3> HIDE DEF n, C
    <3>5. /\ n \in [Addresses -> Nat]
          /\ n[bp - 1] = PACK(csize, 1) /\ n[to - 2] = PACK(csize, 1)
          /\ \A a \in Addresses : a # bp - 1 /\ a # to - 2 => n[a] = m[a]
      BY <1>1, <3>1, <3>2, <3>3, <3>4
    <3>6. SameOutside(m, n, bp, to)
      <4>1. \A a \in Addresses : a < bp - 1 \/ a > to - 2 => a # bp - 1 /\ a # to - 2
        BY <1>7, <1>8 DEF Addresses
      <4> QED BY <3>5, <4>1 DEF SameOutside
    <3>7. Size(n, bp) = csize /\ Allocated(n, bp)
      BY <3>1, <3>5 DEF Size, Allocated, HDRP
    <3>8. NEXT_BLKP(n, bp) = to /\ FTRP(n, bp) = to - 2 /\ HDRP(bp) = bp - 1
      BY <1>7, <3>2, <3>7 DEF NEXT_BLKP, FTRP, HDRP
    <3>9. Tiles(n, bp, to, {bp})
      BY <1>7, <1>8, <3>5, <3>7, <3>8 DEF Tiles
    <3> QED BY <1>6, <2>1, <3>4, <3>5, <3>6, <3>7, <3>8, <3>9
  <2>2. CASE rest >= 4
    <3> DEFINE mid == bp + asize
    <3>1. /\ rest \in Nat /\ rest % 2 = 0 /\ rest >= 4
          /\ mid \in Nat /\ mid % 2 = 0 /\ mid + rest = to /\ mid + 4 <= to /\ bp + 4 <= mid
      <4>1. rest \in Nat /\ mid \in Nat /\ mid + rest = to /\ mid + 4 <= to /\ bp + 4 <= mid
        BY <1>6, <1>7, <2>2
      <4>2. rest % 2 = 0
        BY <1>7, EvenSums
      <4>3. mid % 2 = 0
        BY <1>7, EvenSums
      <4> QED BY <2>2, <4>1, <4>2, <4>3
    <3>2. /\ PACK(asize, 1) \in Nat
          /\ GET_SIZE(PACK(asize, 1)) = asize /\ GET_ALLOC(PACK(asize, 1)) = 1
      BY PackParts
    <3>3. /\ PACK(rest, 0) \in Nat
          /\ GET_SIZE(PACK(rest, 0)) = rest /\ GET_ALLOC(PACK(rest, 0)) = 0
      <4> HIDE DEF rest
      <4> QED BY <3>1, PackParts
    <3>4. /\ bp - 1 \in Addresses /\ mid - 2 \in Addresses
          /\ mid - 1 \in Addresses /\ to - 2 \in Addresses
          /\ bp + asize - 2 = mid - 2
      BY <1>7, <1>8, <3>1 DEF Addresses
    <3>5. tagged = [m EXCEPT ![bp - 1] = PACK(asize, 1), ![mid - 2] = PACK(asize, 1)]
      BY <3>4 DEF PutTags
    <3> HIDE DEF tagged, rest, mid
    <3>6. /\ tagged \in [Addresses -> Nat]
          /\ tagged[bp - 1] = PACK(asize, 1) /\ tagged[mid - 2] = PACK(asize, 1)
          /\ \A a \in Addresses : a # bp - 1 /\ a # mid - 2 => tagged[a] = m[a]
      BY <1>1, <3>2, <3>4, <3>5
    <3>7. n = PutFree(tagged, mid, rest) /\ C = {bp, mid}
      BY <2>2 DEF mid
    <3> HIDE DEF n, C
    <3>8. n = [a \in Addresses |-> CASE a \in {mid - 1, mid + rest - 2} -> PACK(rest, 0)
                       [] a \in mid .. mid + rest - 3     -> 0
                       [] OTHER                           -> tagged[a]]
      <4>1. DOMAIN tagged = Addresses
        BY <3>6
      <4> QED BY <3>7, <4>1 DEF PutFree
    <3>9. /\ n \in [Addresses -> Nat]
          /\ n[mid - 1] = PACK(rest, 0) /\ n[to - 2] = PACK(rest, 0)
          /\ \A a \in Addresses : a < mid - 1 \/ a > to - 2 => n[a] = tagged[a]
      <4>1. n \in [Addresses -> Nat]
        BY <3>3, <3>6, <3>8
      <4>2. ASSUME NEW a \in Addresses, a = mid - 1 \/ a = to - 2
            PROVE  n[a] = PACK(rest, 0)
        <5>1. a \notin mid .. mid + rest - 3 /\ to - 2 = mid + rest - 2
          BY <1>8, <3>1, <4>2
        <5> QED BY <3>8, <4>2, <5>1
      <4>3. ASSUME NEW a \in Addresses, a < mid - 1 \/ a > to - 2
            PROVE  n[a] = tagged[a]
        <5>1. /\ a \notin mid .. mid + rest - 3 /\ a # mid - 1 /\ a # mid + rest - 2
              /\ a \in Nat
          BY <1>7, <1>8, <3>1, <4>3 DEF Addresses
        <5> QED BY <3>8, <5>1
      <4> QED BY <3>4, <4>1, <4>2, <4>3
    <3>10. n[bp - 1] = PACK(asize, 1) /\ n[mid - 2] = PACK(asize, 1)
      BY <1>7, <3>1, <3>4, <3>6, <3>9
    <3>11. SameOutside(m, n, bp, to)
      <4>1. \A a \in Addresses : a < bp - 1 \/ a > to - 2 =>
              a # bp - 1 /\ a # mid - 2 /\ (a < mid - 1 \/ a > to - 2)
        BY <1>7, <1>8, <3>1 DEF Addresses
      <4> QED BY <3>6, <3>9, <4>1 DEF SameOutside
    <3>12. /\ Size(n, bp) = asize /\ Allocated(n, bp)
           /\ Size(n, mid) = rest /\ ~ Allocated(n, mid)
      BY <3>2, <3>3, <3>9, <3>10 DEF Size, Allocated, HDRP
    <3>13. /\ NEXT_BLKP(n, bp) = mid /\ FTRP(n, bp) = mid - 2 /\ HDRP(bp) = bp - 1
           /\ NEXT_BLKP(n, mid) = to /\ FTRP(n, mid) = to - 2 /\ HDRP(mid) = mid - 1
      <4>1. /\ NEXT_BLKP(n, bp) = bp + asize /\ FTRP(n, bp) = bp + asize - 2
            /\ NEXT_BLKP(n, mid) = mid + rest /\ FTRP(n, mid) = mid + rest - 2
        BY <3>12 DEF NEXT_BLKP, FTRP
      <4>2. mid + rest - 2 = to - 2 /\ bp + asize = mid
        BY <1>8, <3>1 DEF mid
      <4> QED BY <3>1, <3>4, <4>1, <4>2 DEF HDRP
    <3>14. Tiles(n, bp, to, {bp, mid})
      <4>1. {bp, mid} \subseteq bp .. to - 1
        BY <1>7, <1>8, <3>1
      <4>2. ASSUME NEW c \in {bp, mid}
            PROVE  /\ c % 2 = 0 /\ Size(n, c) >= 2
                   /\ NEXT_BLKP(n, c) \in {bp, mid} \cup {to} /\ NEXT_BLKP(n, c) <= to
                   /\ n[FTRP(n, c)] = n[HDRP(c)]
                   /\ \A d \in {bp, mid} : c < d => NEXT_BLKP(n, c) <= d
        <5>1. CASE c = bp
          BY <1>7, <1>8, <3>1, <3>10, <3>12, <3>13, <5>1
        <5>2. CASE c = mid
          BY <1>7, <1>8, <3>1, <3>9, <3>12, <3>13, <5>2
        <5> QED BY <5>1, <5>2
      <4> QED BY <4>1, <4>2 DEF Tiles
    <3> QED BY <2>2, <3>7, <3>9, <3>11, <3>12, <3>13, <3>14 DEF mid
  <2> QED BY <2>1, <2>2
<1> HIDE DEF n
<1>11. bp \in C /\ \A b \in C : b = bp \/ (rest >= 4 /\ b = bp + asize)
  <2> HIDE DEF rest
  <2>1. CASE rest >= 4
    <3>1. C = {bp, bp + asize}
      BY <2>1
    <3> HIDE DEF C
    <3> QED BY <2>1, <3>1
  <2>2. CASE ~ (rest >= 4)
    <3>1. C = {bp}
      BY <2>2
    <3> HIDE DEF C
    <3> QED BY <3>1
  <2> QED BY <2>1, <2>2
<1> HIDE DEF C, rest
<1>12. Tiled(n, brk, Replaced(B, bp, to, C)) /\ TagsKept(m, n, brk, B, bp, to)
  BY <1>1, <1>3, <1>7, <1>8, <1>10, Retiled
<1> DEFINE D == Replaced(B, bp, to, C)
<1>13. ASSUME NEW b \in B PROVE b = bp \/ (b < bp \/ b >= to)
  <2>1. b \in Nat
    BY <1>1, BlockRange
  <2> QED BY <1>1, <1>7, <1>8, <2>1, NoneBetween DEF to
<1>14. \A b \in D : b \in C \/ (b \in B /\ b # bp /\ (b < bp \/ b >= to))
  <2> SUFFICES ASSUME NEW b \in D, b \notin C
               PROVE  b \in B /\ b # bp /\ (b < bp \/ b >= to)
    OBVIOUS
  <2>1. b \in B /\ (b < bp \/ b >= to)
    BY DEF Replaced
  <2> QED BY <1>7, <1>8, <2>1
<1>15. AllocatedOf(n, D) = S \cup {bp} \cup {heap_listp}
  <2>1. ASSUME NEW b \in D, Allocated(n, b) PROVE b = bp \/ b \in AllocatedOf(m, B)
    <3>1. CASE b \in C
      BY <1>10, <1>11, <2>1, <3>1
    <3>2. CASE b \in B /\ (b < bp \/ b >= to)
      BY <1>12, <2>1, <3>2 DEF TagsKept, AllocatedOf
    <3> QED BY <1>14, <2>1, <3>1, <3>2
  <2>2. bp \in D /\ Allocated(n, bp)
    BY <1>10, <1>11 DEF Replaced
  <2>3. ASSUME NEW b \in AllocatedOf(m, B) PROVE b \in D /\ Allocated(n, b)
    <3>1. b \in B /\ Allocated(m, b) /\ (b < bp \/ b >= to)
      BY <1>6, <1>13 DEF AllocatedOf
    <3> QED BY <1>12, <3>1 DEF TagsKept, Replaced
  <2> HIDE DEF D
  <2> QED BY <1>2, <2>1, <2>2, <2>3 DEF AllocatedOf
<1>16. Allocated(n, to)
  <2>1. Allocated(m, to)
    BY <1>2, <1>6 DEF Apart, to
  <2>2. to >= to
    BY <1>8
  <2> QED BY <1>7, <1>12, <2>1, <2>2 DEF TagsKept
<1>17. Apart(n, D)
  <2> SUFFICES ASSUME NEW b \in D, ~ Allocated(n, b)
               PROVE  Allocated(n, NEXT_BLKP(n, b))
    BY DEF Apart
  <2>1. CASE b \in C
    BY <1>10, <1>11, <1>16, <2>1
  <2>2. CASE b \in B /\ (b < bp \/ b >= to)
    <3>1. ~ Allocated(m, b) /\ NEXT_BLKP(n, b) = NEXT_BLKP(m, b)
      BY <1>12, <2>2 DEF TagsKept
    <3>2. Allocated(m, NEXT_BLKP(m, b)) /\ NEXT_BLKP(m, b) \in B \cup {brk}
      BY <1>1, <1>2, <2>2, <3>1 DEF Apart, Tiled
    <3>3. NEXT_BLKP(m, b) < bp \/ NEXT_BLKP(m, b) >= to
      BY <1>6, <1>7, <1>13, <3>2
    <3> QED BY <1>12, <3>1, <3>2, <3>3 DEF TagsKept
  <2> QED BY <1>14, <2>1, <2>2
<1>18. Kept(m, n, S)
  <2>1. \A b \in S : b \in B /\ (b < bp \/ b >= to)
    BY <1>2, <1>3, <1>13 DEF AllocatedOf
  <2> QED BY <1>1, <1>7, <1>10, <2>1, OutsideKept
<1> HIDE DEF D
<1>19. WellFormed(g, D, S \cup {bp})
  <2>1. Tiled(n, brk, D)
    BY <1>12 DEF D
  <2> QED BY <1>2, <1>3, <1>5, <1>10, <1>15, <1>17, <2>1 DEF WellFormed
<1> QED BY <1>3, <1>5, <1>10, <1>18, <1>19 DEF Allocates, m, brk, g

(* The smallest of a set of addresses.                                     *)
LEMMA FirstIsOneOf ==
  ASSUME NEW T \in SUBSET Nat, T # {}
  PROVE  FirstOf(T) \in T
<1>1. \E p \in T : \A q \in T : p <= q
  BY LeastNat
<1> QED BY <1>1 DEF FirstOf

(* mm_malloc fails and changes nothing, or allocates a block that was not  *)
(* allocated, with room for the payload and its tags.                      *)
LEMMA Mallocs ==
  ASSUME NEW h, NEW B, NEW S, WellFormed(h, B, S), NEW size \in Nat,
         NEW r, r = mm_malloc(h, size)
  PROVE  \/ r = [heap |-> h, bp |-> NULL]
         \/ /\ ~ Spurious(size) /\ r.bp \notin S /\ r.bp # NULL
            /\ r = [heap |-> r.heap, bp |-> r.bp]
            /\ r.heap.brk >= h.brk /\ Kept(h.mem, r.heap.mem, S)
            /\ Size(r.heap.mem, r.bp) >= PayloadWords(size) + 2
            /\ \E D : WellFormed(r.heap, D, S \cup {r.bp})
<1> DEFINE asize == adjusted(size)
           found == fits(h, asize)
           extendsize == larger(asize, CHUNKSIZE)
           grown == extend_heap(h, extendsize)
<1>1. h.brk \in Nat /\ Tiled(h.mem, h.brk, B)
  BY BlockRange DEF WellFormed
<1>2. CASE Spurious(size)
  BY <1>2 DEF mm_malloc
<1>3. CASE ~ Spurious(size) /\ found # {}
  <2> DEFINE bp == FirstOf(found)
  <2>1. /\ asize \in Nat /\ asize % 2 = 0 /\ asize >= 4
        /\ PayloadWords(size) \in Nat /\ PayloadWords(size) + 2 <= asize
    BY <1>3, AdjustedFits
  <2>2. ListFrom(h) = B \cup {h.brk} /\ Allocated(h.mem, h.brk)
    BY <1>1, ListVisitsBlocks, EpilogueFacts
  <2>3. \A b \in found : /\ b \in B /\ ~ Allocated(h.mem, b)
                         /\ asize <= Size(h.mem, b)
    <3> HIDE DEF asize
    <3> QED BY <2>2 DEF fits
  <2>4. found \in SUBSET Nat
    <3>1. \A b \in B : b \in Nat
      BY <1>1, BlockRange
    <3> HIDE DEF found
    <3> QED BY <2>3, <3>1
  <2>5. bp \in found
    <3> HIDE DEF found
    <3> QED BY <1>3, <2>4, FirstIsOneOf
  <2>6. r = [heap |-> place(h, bp, asize), bp |-> bp]
    BY <1>3 DEF mm_malloc
  <2> HIDE DEF asize, found, bp
  <2>7. /\ bp \in B /\ ~ Allocated(h.mem, bp) /\ asize <= Size(h.mem, bp)
        /\ bp \in Nat /\ bp >= 2
    BY <1>1, <2>3, <2>5, BlockRange
  <2>8. Allocates(h, r.heap, S, bp, asize) /\ r.heap.brk = h.brk
    <3>1. r.heap = place(h, bp, asize)
      BY <2>6
    <3>2. FreeRoom(h, B, bp, asize)
      BY <2>1, <2>7 DEF FreeRoom
    <3> QED BY <3>1, <3>2, Places
  <2>9. PICK D : WellFormed(r.heap, D, S \cup {bp})
    BY <2>8 DEF Allocates
  <2>10. Size(r.heap.mem, bp) \in Nat
    <3>1. bp \in S \cup {bp}
      OBVIOUS
    <3> QED BY <2>9, <3>1, HeldFacts
  <2>11. Size(r.heap.mem, bp) >= PayloadWords(size) + 2
    BY <2>1, <2>8, <2>10 DEF Allocates
  <2> QED BY <1>1, <1>3, <2>6, <2>7, <2>8, <2>11 DEF NULL, Allocates
<1>4. CASE ~ Spurious(size) /\ found = {}
  <2>1. /\ asize \in Nat /\ asize % 2 = 0 /\ asize >= 4
        /\ PayloadWords(size) \in Nat /\ PayloadWords(size) + 2 <= asize
    BY <1>4, AdjustedFits
  <2>2. /\ extendsize \in Nat /\ extendsize % 2 = 0 /\ extendsize >= 4
        /\ asize <= extendsize
    <3> HIDE DEF asize
    <3> QED BY <2>1, Constants DEF larger
  <2>3. CASE ~ CanGrow(h, extendsize)
    <3>1. r = [heap |-> h, bp |-> NULL]
      BY <1>4, <2>3 DEF mm_malloc
    <3> QED BY <3>1
  <2>4. CASE CanGrow(h, extendsize)
    <3> DEFINE bp == grown.bp
    <3>1. r = [heap |-> place(grown.heap, bp, asize), bp |-> bp]
      BY <1>4, <2>4 DEF mm_malloc
    <3>2. h.brk + extendsize <= MAX_HEAP
      BY <2>4 DEF CanGrow
    <3> HIDE DEF asize, extendsize, found
    <3>3. PICK E : /\ WellFormed(grown.heap, E, S)
                   /\ bp \in E /\ bp # heap_listp
                   /\ ~ Allocated(grown.heap.mem, bp)
                   /\ Size(grown.heap.mem, bp) >= extendsize
      <4> HIDE DEF grown
      <4>1. grown = extend_heap(h, extendsize)
        BY DEF grown
      <4> QED BY <2>2, <3>2, <4>1, Extends
    <3>4. /\ grown.heap.brk = h.brk + extendsize /\ Kept(h.mem, grown.heap.mem, S)
      <4> HIDE DEF grown
      <4>1. grown = extend_heap(h, extendsize)
        BY DEF grown
      <4> QED BY <2>2, <3>2, <4>1, Extends
    <3> HIDE DEF grown, bp
    <3>5. bp \in Nat /\ bp >= 2 /\ Size(grown.heap.mem, bp) \in Nat
      <4>1. Tiled(grown.heap.mem, grown.heap.brk, E)
        BY <3>3 DEF WellFormed
      <4> QED BY <3>3, <4>1, BlockFacts
    <3>6. asize <= Size(grown.heap.mem, bp)
      BY <2>1, <2>2, <3>3, <3>5
    <3>7. r.heap = place(grown.heap, bp, asize)
      BY <3>1
    <3>8. Allocates(grown.heap, r.heap, S, bp, asize) /\ r.heap.brk = grown.heap.brk
      <4>1. FreeRoom(grown.heap, E, bp, asize)
        BY <2>1, <3>3, <3>6 DEF FreeRoom
      <4> QED BY <3>3, <3>7, <4>1, Places
    <3>9. PICK D : WellFormed(r.heap, D, S \cup {bp})
      BY <3>8 DEF Allocates
    <3>10. Size(r.heap.mem, bp) \in Nat
      <4>1. bp \in S \cup {bp}
        OBVIOUS
      <4> QED BY <3>9, <4>1, HeldFacts
    <3>11. Size(r.heap.mem, bp) >= PayloadWords(size) + 2
      BY <2>1, <3>8, <3>10 DEF Allocates
    <3>12. Kept(h.mem, r.heap.mem, S)
      BY <3>4, <3>8, KeptSizes DEF Allocates
    <3>13. r.heap.brk >= h.brk
      BY <1>1, <2>2, <3>4, <3>8
    <3> QED BY <1>4, <3>1, <3>5, <3>8, <3>11, <3>12, <3>13 DEF NULL, Allocates
  <2> QED BY <2>3, <2>4
<1> QED BY <1>2, <1>3, <1>4

\* r has a new block for size bytes, with the data of the block p.
Moves(h, S, p, size, r) ==
  /\ ~ Spurious(size) /\ r.bp \notin S /\ r.bp # NULL
  /\ r.heap.brk >= h.brk /\ Kept(h.mem, r.heap.mem, S \ {p})
  /\ Size(r.heap.mem, r.bp) >= PayloadWords(size) + 2
  /\ \E D : WellFormed(r.heap, D, (S \ {p}) \cup {r.bp})
  /\ \A i \in Nat : i < PayloadWords(size) /\ i < Size(h.mem, p) - 2
                      => r.heap.mem[r.bp + i] = h.mem[p + i]

(* mm_realloc fails and changes nothing, or moves the data of the block to *)
(* one that was not allocated, as far as it fits there.                    *)
LEMMA Reallocs ==
  ASSUME NEW h, NEW B, NEW S, WellFormed(h, B, S), NEW p \in S, NEW size \in Nat,
         NEW r, r = mm_realloc(h, p, size)
  PROVE  r = [heap |-> h, bp |-> NULL] \/ Moves(h, S, p, size, r)
<1> DEFINE q == mm_malloc(h, size)
           bp == q.bp
           csize == Size(q.heap.mem, p)
           copySize == IF PayloadWords(size) < csize THEN PayloadWords(size) ELSE csize
           w == Copied(q.heap.mem, bp, p, copySize)
           c == [q.heap EXCEPT !.mem = w]
           g == mm_free(c, p)
           n == PayloadWords(size)
<1>1. CASE q = [heap |-> h, bp |-> NULL]
  BY <1>1 DEF mm_realloc
<1>2. CASE /\ ~ Spurious(size) /\ bp \notin S /\ bp # NULL
           /\ q = [heap |-> q.heap, bp |-> bp]
           /\ q.heap.brk >= h.brk /\ Kept(h.mem, q.heap.mem, S)
           /\ Size(q.heap.mem, bp) >= PayloadWords(size) + 2
           /\ \E D : WellFormed(q.heap, D, S \cup {bp})
  <2>1. q.heap \in [mem : [Addresses -> Nat], brk : 4 .. MAX_HEAP]
    BY <1>2 DEF WellFormed
  <2>2. r = [q EXCEPT !.heap = g]
    <3>1. q.bp # NULL
      BY <1>2
    <3> QED BY <1>2, <2>1, <3>1 DEF mm_realloc
  <2>3. r.bp = bp /\ r.heap = g
    <3> HIDE DEF g, bp
    <3>1. r = [[heap |-> q.heap, bp |-> bp] EXCEPT !.heap = g]
      BY <1>2, <2>2
    <3> HIDE DEF q
    <3> QED BY <3>1
  <2>4. /\ ~ Spurious(size) /\ bp \notin S /\ bp # NULL
        /\ q.heap.brk >= h.brk /\ Kept(h.mem, q.heap.mem, S)
        /\ Size(q.heap.mem, bp) >= n + 2
        /\ \E D : WellFormed(q.heap, D, S \cup {bp})
    BY <1>2
  <2> DEFINE m == q.heap.mem
  <2>5. PICK D : WellFormed(q.heap, D, S \cup {bp})
    BY <2>4
  <2>6. csize = Size(h.mem, p)
    BY <2>4, KeptSizes
  <2> HIDE DEF q, bp, csize, n
  <2>7. /\ bp \in Nat /\ bp >= 2 /\ Size(m, bp) \in Nat /\ m \in [Addresses -> Nat]
        /\ FTRP(m, bp) = bp + Size(m, bp) - 2 /\ MAX_HEAP \in Nat
        /\ bp + Size(m, bp) <= MAX_HEAP
    <3>1. bp \in S \cup {bp}
      OBVIOUS
    <3>2. /\ bp \in Nat /\ bp >= 2 /\ Size(m, bp) \in Nat /\ m \in [Addresses -> Nat]
          /\ FTRP(m, bp) = bp + Size(m, bp) - 2 /\ MAX_HEAP \in Nat
          /\ bp + Size(m, bp) <= q.heap.brk /\ q.heap.brk \in Nat /\ q.heap.brk <= MAX_HEAP
      BY <2>5, <3>1, HeldFacts
    <3> QED BY <3>2
  <2>8. /\ p \in Nat /\ csize \in Nat /\ p + csize <= MAX_HEAP
    <3>1. p \in S \cup {bp}
      OBVIOUS
    <3>2. /\ p \in Nat /\ csize \in Nat
          /\ p + csize <= q.heap.brk /\ q.heap.brk \in Nat /\ q.heap.brk <= MAX_HEAP
      BY <2>5, <3>1, HeldFacts DEF csize
    <3> QED BY <2>7, <3>2
  <2>9. n \in Nat /\ copySize \in Nat /\ copySize <= n /\ copySize <= csize
        /\ \A i \in Nat : i < n /\ i < csize => i < copySize
    <3>1. n \in Nat
      BY <2>4, AdjustedFits DEF n
    <3> QED BY <2>8, <3>1 DEF n
  <2> HIDE DEF copySize
  <2>10. w = [a \in Addresses |-> IF a \in bp .. bp + copySize - 1 THEN m[p + (a - bp)]
                                  ELSE m[a]]
    <3>1. DOMAIN m = Addresses
      BY <2>7
    <3> QED BY <3>1 DEF Copied
  <2> HIDE DEF m, w
  <2>11. w \in [Addresses -> Nat]
    <3>1. ASSUME NEW a \in Addresses, a \in bp .. bp + copySize - 1
          PROVE  p + (a - bp) \in Addresses
      BY <2>7, <2>8, <2>9, <3>1 DEF Addresses
    <3> QED BY <2>7, <2>10, <3>1
  <2>12. ASSUME NEW a \in Addresses, a \notin bp .. FTRP(m, bp) - 1 PROVE w[a] = m[a]
    <3>1. n <= FTRP(m, bp) - bp
      BY <2>4, <2>7, <2>9 DEF m
    <3>2. a \in Nat /\ (a < bp \/ a > FTRP(m, bp) - 1) /\ FTRP(m, bp) \in Nat
      <4>1. FTRP(m, bp) \in Nat
        BY <2>4, <2>7, <2>9 DEF m
      <4>2. a \in Nat
        BY <2>7 DEF Addresses
      <4> QED BY <2>7, <2>12, <4>1, <4>2
    <3>3. a \notin bp .. bp + copySize - 1
      <4> HIDE DEF c
      <4> QED BY <2>7, <2>9, <3>1, <3>2
    <3> QED BY <2>10, <3>3
  <2>13. /\ WellFormed(c, D, S \cup {bp}) /\ Kept(m, w, (S \cup {bp}) \ {bp})
         /\ \A b \in S \cup {bp} : Size(w, b) = Size(m, b)
    <3>1. bp \in S \cup {bp}
      OBVIOUS
    <3>2. WritesWithin(q.heap.mem, w, bp)
      BY <2>11, <2>12 DEF WritesWithin, m
    <3>3. /\ WellFormed([q.heap EXCEPT !.mem = w], D, S \cup {bp})
          /\ Kept(q.heap.mem, w, (S \cup {bp}) \ {bp})
          /\ SameSizes(q.heap.mem, w, S \cup {bp})
      BY <2>5, <3>1, <3>2, Written
    <3> QED BY <3>3 DEF m, SameSizes
  <2>14. c.mem = w /\ c.brk = q.heap.brk
    BY <2>1
  <2> HIDE DEF c
  <2>15. /\ g.brk = c.brk /\ Kept(w, g.mem, (S \cup {bp}) \ {p})
         /\ \E E : WellFormed(g, E, (S \cup {bp}) \ {p})
    <3>1. p \in S \cup {bp}
      OBVIOUS
    <3>2. Kept(c.mem, g.mem, (S \cup {bp}) \ {p})
      BY <2>13, <3>1, Freed
    <3> QED BY <2>13, <2>14, <3>1, <3>2, Freed
  <2>16. (S \cup {bp}) \ {p} = (S \ {p}) \cup {bp}
    BY <2>4
  <2> HIDE DEF g
  <2>17. Kept(h.mem, g.mem, S \ {p})
    <3>1. Kept(m, w, S \ {p}) /\ Kept(w, g.mem, S \ {p}) /\ Kept(h.mem, m, S \ {p})
      BY <2>4, <2>13, <2>15, <2>16 DEF Kept, m
    <3>2. Kept(h.mem, w, S \ {p})
      <4>1. S \ {p} \in SUBSET S /\ S \ {p} \subseteq S \ {p}
        OBVIOUS
      <4> QED BY <3>1, <4>1, KeptSizes
    <3>3. S \ {p} \in SUBSET S /\ S \ {p} \subseteq S \ {p}
      OBVIOUS
    <3> QED BY <3>1, <3>2, <3>3, KeptSizes
  <2>18. PICK E : WellFormed(g, E, (S \ {p}) \cup {bp})
    BY <2>15, <2>16
  <2>19. /\ Size(g.mem, bp) = Size(m, bp) /\ FTRP(w, bp) = bp + Size(m, bp) - 2
         /\ Kept(w, g.mem, {bp})
    <3>1. bp \in S \cup {bp} /\ {bp} \in SUBSET (S \cup {bp}) /\ bp \in {bp}
      OBVIOUS
    <3>2. Kept(w, g.mem, {bp})
      BY <2>15, <2>16 DEF Kept
    <3>3. Size(g.mem, bp) = Size(c.mem, bp)
      <4>1. Kept(c.mem, g.mem, {bp})
        BY <2>14, <3>2
      <4> QED BY <2>13, <3>1, <4>1, KeptSizes
    <3>4. Size(w, bp) = Size(m, bp)
      BY <2>13, <3>1
    <3> QED BY <2>14, <3>2, <3>3, <3>4 DEF FTRP
  <2>20. ASSUME NEW i \in Nat, i < n, i < csize - 2 PROVE g.mem[bp + i] = h.mem[p + i]
    <3>1. bp + i \in Addresses /\ bp + i \in bp .. bp + copySize - 1
      <4>1. i < copySize /\ bp + i < MAX_HEAP
        BY <2>4, <2>7, <2>8, <2>9, <2>20 DEF m
      <4>2. bp + i \in Addresses
        BY <2>7, <4>1 DEF Addresses
      <4> QED BY <2>7, <2>9, <4>1, <4>2
    <3>2. w[bp + i] = m[p + i]
      <4>1. p + ((bp + i) - bp) = p + i
        BY <2>7, <2>8
      <4> QED BY <2>10, <3>1, <4>1
    <3>3. bp + i \in HDRP(bp) .. FTRP(w, bp)
      BY <2>4, <2>7, <2>9, <2>19, <2>20 DEF HDRP, m
    <3>4. g.mem[bp + i] = w[bp + i]
      BY <2>19, <3>3 DEF Kept
    <3>5. m[p + i] = h.mem[p + i]
      <4>1. p + i \in HDRP(p) .. FTRP(h.mem, p)
        BY <2>6, <2>8, <2>20 DEF HDRP, FTRP
      <4> QED BY <2>4, <4>1 DEF Kept, m
    <3> QED BY <3>2, <3>4, <3>5
  <2>21. /\ g.brk >= h.brk /\ Size(g.mem, bp) >= n + 2
    BY <2>4, <2>14, <2>15, <2>19 DEF m
  <2> QED BY <2>3, <2>4, <2>6, <2>17, <2>18, <2>20, <2>21 DEF n, Moves
<1>3. QED
  <2> HIDE DEF q
  <2>1. q = mm_malloc(h, size)
    BY DEF q
  <2> QED BY <1>1, <1>2, <2>1, Mallocs

(* The prologue and the epilogue.                                          *)
LEMMA FirstHeap ==
  ASSUME NEW m \in [Addresses -> Nat]
  PROVE  /\ FirstWords(m) \in [Addresses -> Nat]
         /\ WellFormed([mem |-> FirstWords(m), brk |-> 4], {2}, {})
<1> DEFINE n == FirstWords(m)
           h == [mem |-> n, brk |-> 4]
<1>1. MAX_HEAP \in Nat /\ MAX_HEAP >= 8 /\ CHUNKSIZE \in Nat /\ CHUNKSIZE % 2 = 0
      /\ CHUNKSIZE >= 4 /\ 4 + CHUNKSIZE <= MAX_HEAP
  BY Constants
<1>2. n = [a \in Addresses |-> CASE a \in {1, 2} -> PACK(2, 1)
                               [] a = 3 -> PACK(0, 1)
                               [] a = 0 -> 0
                               [] OTHER -> m[a]]
  BY DEF FirstWords
<1>3. /\ PACK(2, 1) \in Nat /\ PACK(0, 1) \in Nat
      /\ GET_SIZE(PACK(2, 1)) = 2 /\ GET_ALLOC(PACK(2, 1)) = 1
  BY PackParts
<1>4. 1 \in Addresses /\ 2 \in Addresses /\ 3 \in Addresses
  BY <1>1 DEF Addresses
<1> HIDE DEF n
<1>5. /\ n \in [Addresses -> Nat]
      /\ n[1] = PACK(2, 1) /\ n[2] = PACK(2, 1) /\ n[3] = PACK(0, 1)
  BY <1>2, <1>3, <1>4
<1>6. Size(n, 2) = 2 /\ Allocated(n, 2)
  BY <1>3, <1>5 DEF Size, Allocated, HDRP
<1>7. NEXT_BLKP(n, 2) = 4 /\ FTRP(n, 2) = 2 /\ HDRP(2) = 1 /\ HDRP(4) = 3
  BY <1>6 DEF NEXT_BLKP, FTRP, HDRP
<1>8. Tiled(n, 4, {2})
  BY <1>1, <1>5, <1>6, <1>7 DEF Tiled, heap_listp
<1>9. Apart(n, {2}) /\ AllocatedOf(n, {2}) = {} \cup {heap_listp} /\ heap_listp \notin {}
  BY <1>6 DEF Apart, AllocatedOf, heap_listp
<1>10. h.mem = n /\ h.brk = 4 /\ h \in [mem : [Addresses -> Nat], brk : 4 .. MAX_HEAP]
  BY <1>1, <1>5
<1> HIDE DEF h
<1>11. WellFormed(h, {2}, {})
  BY <1>8, <1>9, <1>10 DEF WellFormed
<1> QED BY <1>5, <1>11 DEF h, n

(* The prologue, the epilogue and one free block.                          *)
LEMMA Inits ==
  ASSUME NEW m \in [Addresses -> Nat]
  PROVE  mm_init(m).brk > 4 /\ \E D : WellFormed(mm_init(m), D, {})
<1> DEFINE h == [mem |-> FirstWords(m), brk |-> 4]
           r == extend_heap(h, CHUNKSIZE)
<1>1. CHUNKSIZE \in Nat /\ CHUNKSIZE % 2 = 0 /\ CHUNKSIZE >= 4 /\ 4 + CHUNKSIZE <= MAX_HEAP
  BY Constants
<1>2. WellFormed(h, {2}, {}) /\ h.brk = 4
  BY FirstHeap
<1>3. mm_init(m) = r.heap
  BY DEF mm_init
<1> HIDE DEF h
<1>4. /\ r.heap.brk = h.brk + CHUNKSIZE
      /\ \E D : WellFormed(r.heap, D, {})
  <2>1. r = extend_heap(h, CHUNKSIZE) /\ h.brk + CHUNKSIZE <= MAX_HEAP
    BY <1>1, <1>2
  <2> HIDE DEF r
  <2> QED BY <1>1, <1>2, <2>1, Extends
<1> HIDE DEF r
<1>5. r.heap.brk > 4
  BY <1>1, <1>2, <1>4
<1> QED BY <1>3, <1>4, <1>5

----------------------------------------------------------------------------
(* Two heaps of the same shape.  What the routines do depends on nothing   *)
(* but the words outside of the payloads: with the same words there, they  *)
(* return the same and leave the same words there.                         *)

\* The words below the break that are not inside a block of S.
Skeleton(m, brk, S) ==
  {a \in Addresses : a < brk /\ \A p \in S : a \notin p .. FTRP(m, p) - 1}

(* Tags are there.                                                         *)
LEMMA TagsInSkeleton ==
  ASSUME NEW m, NEW brk, NEW B, Tiled(m, brk, B), NEW S \in SUBSET B
  PROVE  /\ \A b \in B \cup {brk} : HDRP(b) \in Skeleton(m, brk, S)
         /\ \A b \in B : FTRP(m, b) \in Skeleton(m, brk, S)
<1>1. brk \in Nat /\ brk <= MAX_HEAP /\ brk >= 4 /\ MAX_HEAP \in Nat
  BY BlockRange
<1>2. ASSUME NEW p \in S
      PROVE  /\ p \in Nat /\ Size(m, p) \in Nat /\ FTRP(m, p) = p + Size(m, p) - 2
             /\ p + Size(m, p) <= brk
             /\ \A b \in B : p < b => p + Size(m, p) <= b
  <2>1. /\ p \in Nat /\ Size(m, p) \in Nat /\ FTRP(m, p) = p + Size(m, p) - 2
        /\ NEXT_BLKP(m, p) = p + Size(m, p) /\ NEXT_BLKP(m, p) <= brk
    BY BlockFacts
  <2> QED BY <2>1 DEF Tiled
<1>3. ASSUME NEW b \in B \cup {brk} PROVE HDRP(b) \in Skeleton(m, brk, S)
  <2>1. b \in Nat /\ b >= 2 /\ b <= brk /\ HDRP(b) = b - 1
    BY BlockRange DEF HDRP
  <2>2. ASSUME NEW p \in S PROVE b - 1 \notin p .. FTRP(m, p) - 1
    <3>1. p < b => p + Size(m, p) <= b
      BY <1>1, <1>2
    <3> QED BY <1>2, <2>1, <3>1
  <2> QED BY <1>1, <2>1, <2>2 DEF Skeleton, Addresses
<1>4. ASSUME NEW b \in B PROVE FTRP(m, b) \in Skeleton(m, brk, S)
  <2>1. /\ b \in Nat /\ Size(m, b) \in Nat /\ Size(m, b) >= 2
        /\ FTRP(m, b) = b + Size(m, b) - 2
        /\ NEXT_BLKP(m, b) = b + Size(m, b) /\ NEXT_BLKP(m, b) <= brk
    BY BlockFacts
  <2>2. \A p \in S : b < p => b + Size(m, b) <= p
    BY <2>1 DEF Tiled
  <2>3. ASSUME NEW p \in S PROVE FTRP(m, b) \notin p .. FTRP(m, p) - 1
    <3>1. CASE b = p
      BY <1>2, <2>1, <3>1
    <3>2. CASE b < p
      BY <1>2, <2>1, <2>2, <3>2
    <3>3. CASE p < b
      BY <1>2, <2>1, <3>3
    <3> QED BY <1>2, <2>1, <3>1, <3>2, <3>3
  <2>4. FTRP(m, b) \in Nat /\ FTRP(m, b) < brk
    BY <1>1, <2>1
  <2> QED BY <1>1, <2>3, <2>4 DEF Skeleton, Addresses
<1> QED BY <1>3, <1>4

(* Writing the same tags, or the same free block, leaves more words shared.*)
LEMMA PutTagsShared ==
  ASSUME NEW m \in [Addresses -> Nat], NEW n \in [Addresses -> Nat],
         NEW bp \in Int, NEW size \in Int, NEW v,
         NEW a \in Addresses, n[a] = m[a] \/ a = bp - 1 \/ a = bp + size - 2
  PROVE  PutTags(n, bp, size, v)[a] = PutTags(m, bp, size, v)[a]
BY DEF PutTags

LEMMA PutFreeShared ==
  ASSUME NEW m \in [Addresses -> Nat], NEW n \in [Addresses -> Nat],
         NEW bp \in Int, NEW size \in Int,
         NEW a \in Addresses, n[a] = m[a] \/ a \in bp - 1 .. bp + size - 2
  PROVE  PutFree(n, bp, size)[a] = PutFree(m, bp, size)[a]
<1>1. CASE a \in {bp - 1, bp + size - 2} \/ a \in bp .. bp + size - 3
  BY <1>1 DEF PutFree
<1>2. CASE ~ (a \in {bp - 1, bp + size - 2} \/ a \in bp .. bp + size - 3)
  <2>1. a \in Int
    BY DEF Addresses
  <2>2. n[a] = m[a]
    BY <1>2, <2>1
  <2>3. PutFree(n, bp, size)[a] = n[a] /\ PutFree(m, bp, size)[a] = m[a]
    BY <1>2 DEF PutFree
  <2> QED BY <2>2, <2>3
<1> QED BY <1>1, <1>2

\* Memories with the same tags.
TagsShared(m, n, brk, B) ==
  /\ \A b \in B \cup {brk} : n[HDRP(b)] = m[HDRP(b)]
  /\ \A b \in B : n[FTRP(m, b)] = m[FTRP(m, b)]

(* Tags decide what the blocks are.                                        *)
LEMMA SharedTiled ==
  ASSUME NEW m, NEW brk, NEW B, Tiled(m, brk, B), NEW n \in [Addresses -> Nat],
         TagsShared(m, n, brk, B)
  PROVE  /\ Tiled(n, brk, B)
         /\ \A b \in B \cup {brk} : Size(n, b) = Size(m, b) /\ FTRP(n, b) = FTRP(m, b)
                                    /\ NEXT_BLKP(n, b) = NEXT_BLKP(m, b)
                                    /\ (Allocated(n, b) <=> Allocated(m, b))
<1>1. \A b \in B \cup {brk} : /\ Size(n, b) = Size(m, b) /\ FTRP(n, b) = FTRP(m, b)
                              /\ NEXT_BLKP(n, b) = NEXT_BLKP(m, b)
                              /\ (Allocated(n, b) <=> Allocated(m, b))
  BY DEF TagsShared, Size, FTRP, NEXT_BLKP, Allocated
<1>2. Tiled(n, brk, B)
  BY <1>1 DEF Tiled, TagsShared
<1> QED BY <1>1, <1>2

(* coalesce of the same block with the same tags.                          *)
LEMMA CoalesceShared ==
  ASSUME NEW m, NEW brk, NEW B, Tiled(m, brk, B), NEW bp \in B, bp # heap_listp,
         NEW n \in [Addresses -> Nat], TagsShared(m, n, brk, B)
  PROVE  /\ Coalesced(n, bp) = Coalesced(m, bp)
         /\ \A a \in Addresses : n[a] = m[a] => coalesce(n, bp)[a] = coalesce(m, bp)[a]
<1>1. PICK p \in B : NEXT_BLKP(m, p) = bp
  BY Predecessor
<1>2. /\ p \in Nat /\ bp \in Nat /\ Size(m, p) \in Nat /\ bp = p + Size(m, p)
      /\ FTRP(m, p) = p + Size(m, p) - 2
  BY <1>1, BlockFacts
<1>3. Size(m, bp) \in Nat /\ NEXT_BLKP(m, bp) \in B \cup {brk}
  BY BlockFacts
<1>4. FTRP(m, p) = bp - 2 /\ m[bp - 2] = m[HDRP(p)]
  <2>1. FTRP(m, p) = bp - 2
    BY <1>2
  <2> QED BY <2>1 DEF Tiled
<1>5. n[bp - 2] = m[bp - 2]
  BY <1>4 DEF TagsShared
<1>6. PREV_BLKP(m, bp) = p /\ PREV_BLKP(n, bp) = p
  BY <1>2, <1>4, <1>5 DEF PREV_BLKP, Size
<1>7. \A b \in B \cup {brk} : /\ Size(n, b) = Size(m, b) /\ FTRP(n, b) = FTRP(m, b)
                              /\ NEXT_BLKP(n, b) = NEXT_BLKP(m, b)
                              /\ (Allocated(n, b) <=> Allocated(m, b))
  BY SharedTiled
<1> DEFINE next == NEXT_BLKP(m, bp)
<1>8. NEXT_BLKP(n, bp) = next /\ next \in B \cup {brk}
  BY <1>3, <1>7
<1>9. n[FTRP(n, p)] = m[FTRP(m, p)]
  BY <1>7 DEF TagsShared
<1>10. Coalesced(n, bp) = Coalesced(m, bp)
  BY <1>6, <1>9 DEF Coalesced
<1>11. ~ Allocated(m, next) => /\ next \in B /\ FTRP(n, next) = FTRP(m, next)
                               /\ n[FTRP(n, next)] = m[FTRP(m, next)]
                               /\ Size(m, next) \in Nat
                               /\ GET_SIZE(m[FTRP(m, next)]) = Size(m, next)
  <2> SUFFICES ASSUME ~ Allocated(m, next)
               PROVE  /\ next \in B /\ FTRP(n, next) = FTRP(m, next)
                      /\ n[FTRP(n, next)] = m[FTRP(m, next)]
                      /\ Size(m, next) \in Nat
                      /\ GET_SIZE(m[FTRP(m, next)]) = Size(m, next)
    OBVIOUS
  <2> HIDE DEF next
  <2>1. next \in B
    BY <1>8, EpilogueFacts
  <2>2. m[FTRP(m, next)] = m[HDRP(next)]
    BY <2>1 DEF Tiled
  <2>3. Size(m, next) \in Nat
    BY <2>1, BlockFacts
  <2> QED BY <1>7, <2>1, <2>2, <2>3 DEF TagsShared, Size
<1> HIDE DEF next
<1>12. m \in [Addresses -> Nat]
  BY DEF Tiled
<1> DEFINE pa == GET_ALLOC(m[FTRP(m, p)]) = 1
           na == Allocated(m, next)
<1>13. /\ Size(n, bp) = Size(m, bp) /\ Size(n, p) = Size(m, p) /\ Size(n, next) = Size(m, next)
       /\ (Allocated(n, next) <=> na)
  BY <1>7, <1>8
<1>14. ASSUME NEW a \in Addresses, n[a] = m[a] PROVE coalesce(n, bp)[a] = coalesce(m, bp)[a]
  <2>1. CASE pa /\ na
    <3>1. coalesce(n, bp) = n /\ coalesce(m, bp) = m
      BY <1>6, <1>8, <1>9, <1>13, <2>1 DEF coalesce, next
    <3> QED BY <1>14, <3>1
  <2>2. CASE pa /\ ~ na
    <3>1. PICK size \in Int : size = Size(m, bp) + Size(m, next)
      BY <1>3, <1>11, <2>2
    <3>2. coalesce(n, bp) = PutFree(n, bp, size) /\ coalesce(m, bp) = PutFree(m, bp, size)
      BY <1>6, <1>8, <1>9, <1>13, <2>2, <3>1 DEF coalesce, next, Join
    <3> QED BY <1>2, <1>12, <1>14, <3>2, PutFreeShared
  <2>3. CASE ~ pa /\ na
    <3>1. PICK size \in Int : size = Size(m, p) + Size(m, bp)
      BY <1>2, <1>3
    <3>2. coalesce(n, bp) = PutFree(n, p, size) /\ coalesce(m, bp) = PutFree(m, p, size)
      BY <1>6, <1>8, <1>9, <1>13, <2>3, <3>1 DEF coalesce, next, Join
    <3> QED BY <1>2, <1>12, <1>14, <3>2, PutFreeShared
  <2>4. CASE ~ pa /\ ~ na
    <3>1. PICK size \in Int : size = Size(m, p) + Size(m, bp) + GET_SIZE(m[FTRP(m, next)])
      BY <1>2, <1>3, <1>11, <2>4
    <3>2. coalesce(n, bp) = PutFree(n, p, size) /\ coalesce(m, bp) = PutFree(m, p, size)
      BY <1>6, <1>8, <1>9, <1>11, <1>13, <2>4, <3>1 DEF coalesce, next, Join
    <3> QED BY <1>2, <1>12, <1>14, <3>2, PutFreeShared
  <2> QED BY <2>1, <2>2, <2>3, <2>4
<1> QED BY <1>10, <1>14

(* The heap g has the break of h, and its words outside of the payloads S. *)
SameShape(h, g, S) ==
  /\ g \in [mem : [Addresses -> Nat], brk : 4 .. MAX_HEAP] /\ g.brk = h.brk
  /\ \A a \in Skeleton(h.mem, h.brk, S) : g.mem[a] = h.mem[a]

LEMMA ShapeFormed ==
  ASSUME NEW h, NEW B, NEW S, WellFormed(h, B, S), NEW g, SameShape(h, g, S)
  PROVE  WellFormed(g, B, S) /\ TagsShared(h.mem, g.mem, h.brk, B)
<1>1. /\ Tiled(h.mem, h.brk, B) /\ Apart(h.mem, B) /\ S \in SUBSET B
      /\ AllocatedOf(h.mem, B) = S \cup {heap_listp} /\ heap_listp \notin S
  BY DEF WellFormed, AllocatedOf
<1>2. TagsShared(h.mem, g.mem, h.brk, B)
  BY <1>1, TagsInSkeleton DEF TagsShared, SameShape
<1>3. /\ g \in [mem : [Addresses -> Nat], brk : 4 .. MAX_HEAP] /\ g.brk = h.brk
      /\ g.mem \in [Addresses -> Nat]
  BY DEF SameShape
<1>4. /\ Tiled(g.mem, h.brk, B)
      /\ \A b \in B \cup {h.brk} : /\ NEXT_BLKP(g.mem, b) = NEXT_BLKP(h.mem, b)
                                   /\ (Allocated(g.mem, b) <=> Allocated(h.mem, b))
  BY <1>1, <1>2, <1>3, SharedTiled
<1>5. \A b \in B : NEXT_BLKP(h.mem, b) \in B \cup {h.brk}
  BY <1>1 DEF Tiled
<1>6. Apart(g.mem, B) /\ AllocatedOf(g.mem, B) = AllocatedOf(h.mem, B)
  BY <1>1, <1>4, <1>5 DEF Apart, AllocatedOf
<1> QED BY <1>1, <1>2, <1>3, <1>4, <1>6 DEF WellFormed

(* Kept payloads stay where they are.                                      *)
LEMMA SkeletonKept ==
  ASSUME NEW h, NEW B, NEW S, WellFormed(h, B, S), NEW n, NEW T \in SUBSET S,
         Kept(h.mem, n, T), NEW top
  PROVE  Skeleton(n, top, T) = Skeleton(h.mem, top, T)
<1>1. \A p \in T : FTRP(n, p) = FTRP(h.mem, p)
  BY KeptSizes
<1> QED BY <1>1 DEF Skeleton

(* mm_free of the same block.                                              *)
LEMMA FreedShape ==
  ASSUME NEW h, NEW B, NEW S, WellFormed(h, B, S), NEW g, SameShape(h, g, S), NEW p \in S
  PROVE  SameShape(mm_free(h, p), mm_free(g, p), S \ {p})
<1> DEFINE m == h.mem
           n == g.mem
           brk == h.brk
           to == NEXT_BLKP(m, p)
<1>1. /\ WellFormed(g, B, S) /\ TagsShared(m, n, brk, B) /\ g.brk = brk
      /\ \A a \in Skeleton(m, brk, S) : n[a] = m[a]
  BY ShapeFormed DEF SameShape
<1>2. /\ p \in B /\ p # heap_listp /\ Tiled(m, brk, B) /\ m \in [Addresses -> Nat]
      /\ p \in Nat /\ Size(m, p) \in Nat /\ Size(m, p) >= 2
      /\ FTRP(m, p) = p + Size(m, p) - 2
  BY HeldFacts
<1>3. n \in [Addresses -> Nat] /\ Size(n, p) = Size(m, p)
  <2>1. n \in [Addresses -> Nat]
    BY <1>1 DEF WellFormed
  <2> HIDE DEF m, n, brk
  <2> QED BY <1>1, <1>2, <2>1, SharedTiled
<1>4. to \in B \cup {brk} /\ to = p + Size(m, p) /\ to \in Nat /\ p < to /\ Size(m, p) = to - p
  <2>1. to \in B \cup {brk} /\ to = p + Size(m, p)
    BY <1>2, BlockFacts
  <2> QED BY <1>2, <2>1
<1> DEFINE u == PutFree(m, p, Size(m, p))
           w == PutFree(n, p, Size(m, p))
<1>5. /\ mm_free(h, p) = [h EXCEPT !.mem = coalesce(u, p)]
      /\ mm_free(g, p) = [g EXCEPT !.mem = coalesce(w, p)]
  BY <1>1, <1>3 DEF mm_free, WellFormed
<1>6. /\ mm_free(h, p).mem = coalesce(u, p) /\ mm_free(h, p).brk = brk
      /\ mm_free(g, p).mem = coalesce(w, p) /\ mm_free(g, p).brk = brk
  <2> HIDE DEF u, w
  <2> QED BY <1>1, <1>5 DEF WellFormed
<1>7. \A a \in Addresses : n[a] = m[a] \/ a \in p - 1 .. p + Size(m, p) - 2 => w[a] = u[a]
  <2> HIDE DEF m, n
  <2> QED BY <1>2, <1>3, PutFreeShared
<1>8. /\ Kept(m, mm_free(h, p).mem, S \ {p})
      /\ \E D : WellFormed(mm_free(h, p), D, S \ {p})
      /\ \E D : WellFormed(mm_free(g, p), D, S \ {p})
  BY <1>1, Freed
<1> HIDE DEF m, n, brk, to
<1>9. /\ Tiled(u, brk, Replaced(B, p, to, {p})) /\ TagsKept(m, u, brk, B, p, to)
      /\ Size(u, p) = to - p
  <2>1. u = PutFree(m, p, to - p)
    BY <1>4
  <2> HIDE DEF u
  <2> QED BY <1>2, <1>4, <2>1, Merged
<1>10. Replaced(B, p, to, {p}) = B
  <2>1. \A b \in B : b \in Nat
    BY <1>2, BlockRange
  <2>2. \A b \in B : b = p \/ b < p \/ b >= to
    BY <1>2, <1>4, <2>1, NoneBetween DEF to
  <2>3. \A b \in B : b \in Replaced(B, p, to, {p})
    BY <2>2 DEF Replaced
  <2> QED BY <1>2, <2>3 DEF Replaced
<1>11. w \in [Addresses -> Nat]
  <2>1. Tiled(n, brk, B)
    BY <1>1, <1>2, <1>3, SharedTiled
  <2>2. NEXT_BLKP(n, p) = to
    BY <1>3, <1>4 DEF NEXT_BLKP
  <2>3. Tiled(w, brk, Replaced(B, p, to, {p}))
    BY <1>2, <1>4, <2>1, <2>2, Merged
  <2> QED BY <2>3 DEF Tiled
<1>12. \A b \in B \ {p} : FTRP(u, b) = FTRP(m, b)
  <2> SUFFICES ASSUME NEW b \in B, b # p PROVE FTRP(u, b) = FTRP(m, b)
    OBVIOUS
  <2>1. b < p \/ b >= to
    BY <1>2, <1>4, BlockRange, NoneBetween DEF to
  <2>2. Size(u, b) = Size(m, b)
    BY <1>9, <2>1 DEF TagsKept
  <2> QED BY <2>2 DEF FTRP
<1>13. ASSUME NEW a \in Skeleton(m, brk, S \ {p}) PROVE w[a] = u[a]
  <2>1. a \in Addresses /\ a \in Int
    BY DEF Skeleton, Addresses
  <2>2. CASE a \in p .. FTRP(m, p) - 1
    <3>1. a \in p - 1 .. p + Size(m, p) - 2
      BY <1>2, <2>1, <2>2
    <3> QED BY <1>7, <2>1, <3>1
  <2>3. CASE a \notin p .. FTRP(m, p) - 1
    <3>1. a \in Skeleton(m, brk, S)
      BY <2>3 DEF Skeleton
    <3> QED BY <1>1, <1>7, <2>1, <3>1
  <2> QED BY <2>2, <2>3
<1>14. TagsShared(u, w, brk, B)
  <2>1. S \ {p} \in SUBSET B
    BY HeldFacts
  <2>2. Skeleton(u, brk, S \ {p}) = Skeleton(m, brk, S \ {p})
    BY <1>12, <2>1 DEF Skeleton
  <2> QED BY <1>9, <1>10, <1>13, <2>1, <2>2, TagsInSkeleton DEF TagsShared
<1> HIDE DEF u, w
<1>15. ASSUME NEW a \in Skeleton(mm_free(h, p).mem, brk, S \ {p})
       PROVE  mm_free(g, p).mem[a] = mm_free(h, p).mem[a]
  <2>1. a \in Skeleton(m, brk, S \ {p}) /\ a \in Addresses
    <3>1. S \ {p} \in SUBSET S
      OBVIOUS
    <3> QED BY <1>8, <3>1, SkeletonKept DEF m, Skeleton
  <2>2. w[a] = u[a] => coalesce(w, p)[a] = coalesce(u, p)[a]
    BY <1>2, <1>9, <1>10, <1>11, <1>14, <2>1, CoalesceShared
  <2> QED BY <1>6, <1>13, <2>1, <2>2
<1>16. mm_free(g, p) \in [mem : [Addresses -> Nat], brk : 4 .. MAX_HEAP]
  BY <1>8 DEF WellFormed
<1> QED BY <1>6, <1>15, <1>16 DEF SameShape

(* extend_heap by as many words.                                           *)
LEMMA ExtendsShape ==
  ASSUME NEW h, NEW B, NEW S, WellFormed(h, B, S), NEW g, SameShape(h, g, S),
         NEW words \in Nat, words % 2 = 0, words >= 4, h.brk + words <= MAX_HEAP,
         NEW r, r = extend_heap(h, words), NEW q, q = extend_heap(g, words)
  PROVE  q.bp = r.bp /\ SameShape(r.heap, q.heap, S)
<1> DEFINE m == h.mem
           n == g.mem
           brk == h.brk
           end == brk + words
           C == B \cup {brk}
           u == NewBlock(h, words)
           w == NewBlock(g, words)
<1>1. /\ WellFormed(g, B, S) /\ g.brk = brk /\ \A a \in Skeleton(m, brk, S) : n[a] = m[a]
  BY ShapeFormed DEF SameShape
<1>2. /\ m \in [Addresses -> Nat] /\ n \in [Addresses -> Nat] /\ Tiled(m, brk, B)
      /\ S \in SUBSET B
  BY <1>1 DEF WellFormed, AllocatedOf
<1>3. brk \in Nat /\ brk >= 4 /\ MAX_HEAP \in Nat
  BY <1>2, BlockRange
<1>4. AppendsTo(h, B, S, words, u) /\ AppendsTo(g, B, S, words, w)
  <2> HIDE DEF u, w
  <2>1. u = NewBlock(h, words) /\ w = NewBlock(g, words) /\ g.brk + words <= MAX_HEAP
    BY <1>1 DEF u, w
  <2> QED BY <1>1, <2>1, Appends
<1>5. ASSUME NEW a \in Addresses, n[a] = m[a] \/ a >= brk - 1, a < end PROVE w[a] = u[a]
  <2> DEFINE x == PutFree(m, brk, words)
             y == PutFree(n, brk, words)
  <2>1. a # brk + words - 1 => y[a] = x[a]
    <3> SUFFICES ASSUME a # brk + words - 1 PROVE y[a] = x[a]
      OBVIOUS
    <3>1. n[a] = m[a] \/ a \in brk - 1 .. brk + words - 2
      BY <1>3, <1>5 DEF Addresses
    <3> HIDE DEF m, n, brk
    <3> QED BY <1>2, <1>3, <3>1, PutFreeShared
  <2>2. a \in DOMAIN x /\ a \in DOMAIN y
    BY <1>2 DEF PutFree
  <2>3. u = [x EXCEPT ![brk + words - 1] = PACK(0, 1)] /\ w = [y EXCEPT ![brk + words - 1] = PACK(0, 1)]
    BY <1>1 DEF NewBlock
  <2> HIDE DEF x, y, u, w
  <2> QED BY <2>1, <2>2, <2>3
<1>6. /\ r.bp = Coalesced(u, brk) /\ r.heap.mem = coalesce(u, brk) /\ r.heap.brk = end
      /\ q.bp = Coalesced(w, brk) /\ q.heap.mem = coalesce(w, brk) /\ q.heap.brk = end
  <2>1. words + (words % 2) = words
    OBVIOUS
  <2>2. /\ r = [heap |-> [mem |-> coalesce(u, brk), brk |-> end], bp |-> Coalesced(u, brk)]
        /\ q = [heap |-> [mem |-> coalesce(w, brk), brk |-> end], bp |-> Coalesced(w, brk)]
    BY <1>1, <2>1 DEF extend_heap
  <2> HIDE DEF u, w
  <2> QED BY <2>2
<1> HIDE DEF u, w
<1>7. /\ Tiled(u, end, C) /\ brk # heap_listp /\ brk \in C /\ Kept(m, u, S)
      /\ w \in [Addresses -> Nat]
  BY <1>1, <1>4 DEF AppendsTo, Tiled
<1>8. /\ \E D : WellFormed(r.heap, D, S) /\ Kept(m, r.heap.mem, S)
      /\ \E D : WellFormed(q.heap, D, S)
  <2>1. g.brk + words <= MAX_HEAP
    BY <1>1
  <2> QED BY <1>1, <2>1, Extends
<1>9. ASSUME NEW a \in Skeleton(m, end, S) PROVE a \in Addresses /\ w[a] = u[a]
  <2>1. a \in Addresses /\ a \in Int /\ a < end
    BY DEF Skeleton, Addresses
  <2>2. a < brk => a \in Skeleton(m, brk, S)
    BY DEF Skeleton
  <2>3. n[a] = m[a] \/ a >= brk - 1
    BY <1>1, <1>3, <2>1, <2>2
  <2> QED BY <1>5, <2>1, <2>3
<1>10. Skeleton(u, end, S) = Skeleton(m, end, S) /\ Skeleton(r.heap.mem, end, S) = Skeleton(m, end, S)
  <2>1. S \in SUBSET S
    OBVIOUS
  <2> QED BY <1>7, <1>8, <2>1, SkeletonKept
<1>11. TagsShared(u, w, end, C)
  <2>1. S \in SUBSET C
    BY <1>2
  <2> HIDE DEF C, end
  <2> QED BY <1>7, <1>9, <1>10, <2>1, TagsInSkeleton DEF TagsShared
<1> HIDE DEF C, end, brk
<1>12. /\ Coalesced(w, brk) = Coalesced(u, brk)
       /\ \A a \in Addresses : w[a] = u[a] => coalesce(w, brk)[a] = coalesce(u, brk)[a]
  BY <1>7, <1>11, CoalesceShared
<1>13. \A a \in Skeleton(r.heap.mem, end, S) : q.heap.mem[a] = r.heap.mem[a]
  BY <1>6, <1>9, <1>10, <1>12
<1>14. q.heap \in [mem : [Addresses -> Nat], brk : 4 .. MAX_HEAP]
  BY <1>8 DEF WellFormed
<1> QED BY <1>6, <1>12, <1>13, <1>14 DEF SameShape

(* place in the same block.                                                *)
LEMMA PlacedShape ==
  ASSUME NEW h, NEW B, NEW S, WellFormed(h, B, S), NEW g, SameShape(h, g, S),
         NEW bp, NEW asize, FreeRoom(h, B, bp, asize)
  PROVE  SameShape(place(h, bp, asize), place(g, bp, asize), S \cup {bp})
<1> DEFINE m == h.mem
           n == g.mem
           csize == Size(m, bp)
           rest == csize - asize
           u == place(h, bp, asize)
           w == place(g, bp, asize)
<1>1. /\ WellFormed(g, B, S) /\ g.brk = h.brk /\ TagsShared(m, n, h.brk, B)
      /\ \A a \in Skeleton(m, h.brk, S) : n[a] = m[a]
  BY ShapeFormed DEF SameShape
<1>2. /\ m \in [Addresses -> Nat] /\ n \in [Addresses -> Nat] /\ Tiled(m, h.brk, B)
  BY <1>1 DEF WellFormed
<1>3. bp \in B /\ asize \in Nat /\ asize <= csize /\ ~ Allocated(m, bp)
  BY DEF FreeRoom
<1>4. bp \in Nat /\ csize \in Nat
  BY <1>2, <1>3, BlockFacts
<1>5. Size(n, bp) = csize /\ ~ Allocated(n, bp)
  <2> HIDE DEF m, n
  <2> QED BY <1>1, <1>2, <1>3, SharedTiled DEF m, n
<1>6. FreeRoom(g, B, bp, asize)
  BY <1>5 DEF FreeRoom
<1>7. /\ Kept(m, u.mem, S) /\ u.brk = h.brk /\ w.brk = h.brk
      /\ \E D : WellFormed(u, D, S \cup {bp})
      /\ \E D : WellFormed(w, D, S \cup {bp})
  <2> HIDE DEF m, n
  <2>1. Allocates(h, u, S, bp, asize) /\ u.brk = h.brk
    BY Places
  <2>2. Allocates(g, w, S, bp, asize) /\ w.brk = g.brk
    BY <1>1, <1>6, Places
  <2> QED BY <1>1, <2>1, <2>2 DEF Allocates, m
<1>8. ASSUME NEW a \in Addresses, n[a] = m[a] PROVE w.mem[a] = u.mem[a]
  <2> DEFINE x == PutTags(m, bp, asize, 1)
             y == PutTags(n, bp, asize, 1)
  <2>1. x \in [Addresses -> Nat] /\ y \in [Addresses -> Nat]
    <3>1. PACK(asize, 1) \in Nat
      BY <1>3 DEF PACK
    <3> HIDE DEF m, n
    <3> QED BY <1>2, <3>1 DEF PutTags
  <2>2. y[a] = x[a]
    <3> HIDE DEF m, n
    <3> QED BY <1>2, <1>3, <1>4, <1>8, PutTagsShared
  <2>3. PutTags(n, bp, csize, 1)[a] = PutTags(m, bp, csize, 1)[a]
    <3> HIDE DEF m, n, csize
    <3> QED BY <1>2, <1>4, <1>8, PutTagsShared
  <2>4. PutFree(y, bp + asize, rest)[a] = PutFree(x, bp + asize, rest)[a]
    <3>1. bp + asize \in Int /\ rest \in Int
      BY <1>3, <1>4
    <3> HIDE DEF x, y, rest
    <3> QED BY <2>1, <2>2, <3>1, PutFreeShared
  <2>5. /\ u.mem = IF rest >= 4 THEN PutFree(x, bp + asize, rest) ELSE PutTags(m, bp, csize, 1)
        /\ w.mem = IF rest >= 4 THEN PutFree(y, bp + asize, rest) ELSE PutTags(n, bp, csize, 1)
    BY <1>1, <1>5 DEF place, WellFormed
  <2> HIDE DEF x, y, u, w, rest, m, n, csize
  <2> QED BY <2>3, <2>4, <2>5
<1> HIDE DEF u, w
<1>9. ASSUME NEW a \in Skeleton(u.mem, h.brk, S \cup {bp}) PROVE w.mem[a] = u.mem[a]
  <2>1. S \in SUBSET S
    OBVIOUS
  <2>2. Skeleton(u.mem, h.brk, S) = Skeleton(m, h.brk, S)
    BY <1>7, <2>1, SkeletonKept
  <2>3. a \in Skeleton(u.mem, h.brk, S) /\ a \in Addresses
    BY DEF Skeleton
  <2> QED BY <1>1, <1>8, <2>2, <2>3
<1>10. w \in [mem : [Addresses -> Nat], brk : 4 .. MAX_HEAP]
  BY <1>7 DEF WellFormed
<1> QED BY <1>7, <1>9, <1>10 DEF SameShape, u, w

(* mm_malloc of the same size.                                             *)
LEMMA MallocsShape ==
  ASSUME NEW h, NEW B, NEW S, WellFormed(h, B, S), NEW g, SameShape(h, g, S),
         NEW size \in Nat, NEW r, r = mm_malloc(h, size), NEW q, q = mm_malloc(g, size)
  PROVE  q.bp = r.bp /\ (r.bp # NULL => SameShape(r.heap, q.heap, S \cup {r.bp}))
<1> DEFINE m == h.mem
           n == g.mem
           asize == adjusted(size)
           found == fits(h, asize)
           words == larger(asize, CHUNKSIZE)
<1>1. /\ WellFormed(g, B, S) /\ g.brk = h.brk /\ TagsShared(m, n, h.brk, B)
      /\ Tiled(m, h.brk, B) /\ Tiled(n, h.brk, B) /\ n \in [Addresses -> Nat]
  <2>1. WellFormed(g, B, S) /\ g.brk = h.brk /\ TagsShared(m, n, h.brk, B)
    BY ShapeFormed DEF SameShape
  <2> QED BY <2>1 DEF WellFormed
<1>2. h.brk \in Nat
  BY <1>1, BlockRange
<1>3. ListFrom(h) = B \cup {h.brk} /\ ListFrom(g) = B \cup {h.brk}
  <2>1. Tiled(g.mem, g.brk, B)
    BY <1>1
  <2> QED BY <1>1, <2>1, ListVisitsBlocks
<1>4. \A b \in B \cup {h.brk} : Size(n, b) = Size(m, b) /\ (Allocated(n, b) <=> Allocated(m, b))
  <2> HIDE DEF m, n
  <2> QED BY <1>1, SharedTiled
<1>5. fits(g, asize) = found
  <2> HIDE DEF asize
  <2> QED BY <1>3, <1>4 DEF fits
<1>6. CASE Spurious(size)
  <2>1. r = [heap |-> h, bp |-> NULL] /\ q = [heap |-> g, bp |-> NULL]
    BY <1>6 DEF mm_malloc
  <2> QED BY <2>1
<1>7. CASE ~ Spurious(size)
  <2>1. asize \in Nat /\ asize % 2 = 0 /\ asize >= 4
    BY <1>7, AdjustedFits
  <2>2. words \in Nat /\ words % 2 = 0 /\ words >= 4 /\ asize <= words
    <3> HIDE DEF asize
    <3> QED BY <2>1, Constants DEF larger
  <2>3. CASE found # {}
    <3> DEFINE bp == FirstOf(found)
    <3>1. /\ r = [heap |-> place(h, bp, asize), bp |-> bp]
          /\ q = [heap |-> place(g, bp, asize), bp |-> bp]
      BY <1>5, <1>7, <2>3 DEF mm_malloc
    <3>2. found \in SUBSET Nat /\ \A b \in found : b \in B /\ ~ Allocated(m, b) /\ asize <= Size(m, b)
      <4>1. Allocated(m, h.brk)
        BY <1>1, EpilogueFacts
      <4>2. \A b \in B : b \in Nat
        BY <1>1, BlockRange
      <4> HIDE DEF asize
      <4> QED BY <1>3, <4>1, <4>2 DEF fits
    <3> HIDE DEF found
    <3>3. bp \in found
      BY <2>3, <3>2, FirstIsOneOf
    <3>4. FreeRoom(h, B, bp, asize)
      BY <2>1, <3>2, <3>3 DEF FreeRoom
    <3> HIDE DEF bp, asize
    <3>5. SameShape(place(h, bp, asize), place(g, bp, asize), S \cup {bp})
      BY <3>4, PlacedShape
    <3> QED BY <3>1, <3>5
  <2>4. CASE found = {} /\ ~ CanGrow(h, words)
    <3>1. r = [heap |-> h, bp |-> NULL]
      BY <1>7, <2>4 DEF mm_malloc
    <3>2. q = [heap |-> g, bp |-> NULL]
      BY <1>1, <1>5, <1>7, <2>4 DEF mm_malloc, CanGrow
    <3> QED BY <3>1, <3>2
  <2>5. CASE found = {} /\ CanGrow(h, words)
    <3> DEFINE x == extend_heap(h, words)
               y == extend_heap(g, words)
    <3>1. r = [heap |-> place(x.heap, x.bp, asize), bp |-> x.bp]
      BY <1>7, <2>5 DEF mm_malloc
    <3>2. q = [heap |-> place(y.heap, y.bp, asize), bp |-> y.bp]
      BY <1>1, <1>5, <1>7, <2>5 DEF mm_malloc, CanGrow
    <3>3. h.brk + words <= MAX_HEAP
      BY <2>5 DEF CanGrow
    <3> HIDE DEF words, asize, found
    <3>4. x = extend_heap(h, words) /\ y = extend_heap(g, words)
      OBVIOUS
    <3> HIDE DEF x, y
    <3>5. PICK E : /\ WellFormed(x.heap, E, S) /\ x.bp \in E
                   /\ ~ Allocated(x.heap.mem, x.bp) /\ Size(x.heap.mem, x.bp) >= words
      BY <2>2, <3>3, <3>4, Extends
    <3>6. y.bp = x.bp /\ SameShape(x.heap, y.heap, S)
      BY <2>2, <3>3, <3>4, ExtendsShape
    <3>7. Size(x.heap.mem, x.bp) \in Nat
      <4>1. Tiled(x.heap.mem, x.heap.brk, E)
        BY <3>5 DEF WellFormed
      <4> QED BY <3>5, <4>1, BlockFacts
    <3>8. asize <= Size(x.heap.mem, x.bp)
      BY <2>1, <2>2, <3>5, <3>7
    <3>9. FreeRoom(x.heap, E, x.bp, asize)
      BY <2>1, <3>5, <3>8 DEF FreeRoom
    <3>10. SameShape(place(x.heap, x.bp, asize), place(y.heap, x.bp, asize), S \cup {x.bp})
      BY <3>5, <3>6, <3>9, PlacedShape
    <3> QED BY <3>1, <3>2, <3>6, <3>10
  <2> QED BY <2>3, <2>4, <2>5
<1> QED BY <1>6, <1>7

(* What is written in a payload of either heap is not looked at.           *)
LEMMA WrittenShape ==
  ASSUME NEW h, NEW B, NEW S, WellFormed(h, B, S), NEW g, SameShape(h, g, S), NEW p \in S, NEW n
  PROVE  /\ WritesWithin(h.mem, n, p) => SameShape([h EXCEPT !.mem = n], g, S)
         /\ WritesWithin(g.mem, n, p) => SameShape(h, [g EXCEPT !.mem = n], S)
<1>1. /\ h \in [mem : [Addresses -> Nat], brk : 4 .. MAX_HEAP]
      /\ g \in [mem : [Addresses -> Nat], brk : 4 .. MAX_HEAP] /\ g.brk = h.brk
      /\ \A a \in Skeleton(h.mem, h.brk, S) : g.mem[a] = h.mem[a]
  BY DEF WellFormed, SameShape
<1>2. ASSUME NEW a \in Skeleton(h.mem, h.brk, S) PROVE a \in Addresses /\ a \notin p .. FTRP(h.mem, p) - 1
  BY DEF Skeleton
<1>3. FTRP(g.mem, p) = FTRP(h.mem, p)
  <2>1. TagsShared(h.mem, g.mem, h.brk, B) /\ p \in B /\ Tiled(h.mem, h.brk, B)
    BY ShapeFormed, HeldFacts
  <2>2. g.mem \in [Addresses -> Nat]
    BY <1>1
  <2> QED BY <2>1, <2>2, SharedTiled
<1>4. ASSUME WritesWithin(h.mem, n, p) PROVE SameShape([h EXCEPT !.mem = n], g, S)
  <2>1. [h EXCEPT !.mem = n].mem = n /\ [h EXCEPT !.mem = n].brk = h.brk
    BY <1>1
  <2>2. Skeleton(n, h.brk, S) = Skeleton(h.mem, h.brk, S)
    <3>1. SameSizes(h.mem, n, S)
      BY <1>4, Written
    <3>2. \A b \in S : FTRP(n, b) = FTRP(h.mem, b)
      BY <3>1 DEF SameSizes, FTRP
    <3> QED BY <3>2 DEF Skeleton
  <2>3. \A a \in Skeleton(h.mem, h.brk, S) : n[a] = h.mem[a]
    BY <1>2, <1>4 DEF WritesWithin
  <2> QED BY <1>1, <2>1, <2>2, <2>3 DEF SameShape
<1>5. ASSUME WritesWithin(g.mem, n, p) PROVE SameShape(h, [g EXCEPT !.mem = n], S)
  <2>1. n \in [Addresses -> Nat]
    BY <1>5 DEF WritesWithin
  <2>2. /\ [g EXCEPT !.mem = n].mem = n /\ [g EXCEPT !.mem = n].brk = g.brk
        /\ [g EXCEPT !.mem = n] \in [mem : [Addresses -> Nat], brk : 4 .. MAX_HEAP]
    BY <1>1, <2>1
  <2>3. \A a \in Skeleton(h.mem, h.brk, S) : n[a] = g.mem[a]
    BY <1>2, <1>3, <1>5 DEF WritesWithin
  <2> QED BY <1>1, <2>2, <2>3 DEF SameShape
<1> QED BY <1>4, <1>5

(* mm_realloc of the same block, whatever the payloads hold.               *)
LEMMA ReallocsShape ==
  ASSUME NEW h, NEW B, NEW S, WellFormed(h, B, S), NEW g, SameShape(h, g, S), NEW p \in S,
         NEW size \in Nat, NEW r, r = mm_realloc(h, p, size), NEW q, q = mm_realloc(g, p, size)
  PROVE  q.bp = r.bp /\ (r.bp # NULL => SameShape(r.heap, q.heap, (S \ {p}) \cup {r.bp}))
<1> DEFINE x == mm_malloc(h, size)
           y == mm_malloc(g, size)
           words == PayloadWords(size)
           copySize(m) == IF words < Size(m, p) THEN words ELSE Size(m, p)
           w(z) == Copied(z.heap.mem, z.bp, p, copySize(z.heap.mem))
           freed(z) == mm_free([z.heap EXCEPT !.mem = w(z)], p)
<1>1. /\ r = IF x.bp = NULL THEN x ELSE [x EXCEPT !.heap = freed(x)]
      /\ q = IF y.bp = NULL THEN y ELSE [y EXCEPT !.heap = freed(y)]
  BY DEF mm_realloc
<1>2. WellFormed(g, B, S)
  BY ShapeFormed
<1> HIDE DEF freed
<1>3. \/ x = [heap |-> h, bp |-> NULL]
      \/ /\ ~ Spurious(size) /\ x.bp \notin S /\ x.bp # NULL /\ x = [heap |-> x.heap, bp |-> x.bp]
         /\ Size(x.heap.mem, x.bp) >= words + 2
         /\ \E D : WellFormed(x.heap, D, S \cup {x.bp})
  <2> HIDE DEF x, words
  <2>1. x = mm_malloc(h, size) /\ words = PayloadWords(size)
    BY DEF x, words
  <2> QED BY <2>1, Mallocs
<1>4. \/ y = [heap |-> g, bp |-> NULL]
      \/ /\ y.bp # NULL /\ y = [heap |-> y.heap, bp |-> y.bp]
         /\ Size(y.heap.mem, y.bp) >= words + 2
         /\ \E D : WellFormed(y.heap, D, S \cup {y.bp})
  <2> HIDE DEF y, words
  <2>1. y = mm_malloc(g, size) /\ words = PayloadWords(size)
    BY DEF y, words
  <2> QED BY <1>2, <2>1, Mallocs
<1>5. y.bp = x.bp /\ (x.bp # NULL => SameShape(x.heap, y.heap, S \cup {x.bp}))
  <2> HIDE DEF x, y
  <2>1. x = mm_malloc(h, size) /\ y = mm_malloc(g, size)
    BY DEF x, y
  <2> QED BY <2>1, MallocsShape
<1> HIDE DEF x, y
<1>6. CASE x.bp = NULL
  <2>1. r = x /\ q = y
    BY <1>1, <1>5, <1>6
  <2> QED BY <1>5, <1>6, <2>1
<1>7. CASE x.bp # NULL
  <2> DEFINE bp == x.bp
             T == S \cup {bp}
  <2>1. PICK D : WellFormed(x.heap, D, T)
    BY <1>3, <1>7
  <2>2. PICK E : WellFormed(y.heap, E, T)
    BY <1>4, <1>5, <1>7
  <2>3. SameShape(x.heap, y.heap, T) /\ bp \in T /\ p \in T
    BY <1>5, <1>7
  <2>4. words \in Nat
    BY <1>3, <1>7, AdjustedFits
  <2>5. ASSUME NEW z, NEW F, WellFormed(z.heap, F, T), z.bp = bp, Size(z.heap.mem, bp) >= words + 2
        PROVE  WritesWithin(z.heap.mem, w(z), bp)
    <3> DEFINE m == z.heap.mem
               n == copySize(m)
    <3>1. /\ bp \in Nat /\ Size(m, bp) \in Nat /\ m \in [Addresses -> Nat]
          /\ FTRP(m, bp) = bp + Size(m, bp) - 2 /\ MAX_HEAP \in Nat
      BY <2>3, <2>5, HeldFacts
    <3>2. p \in Nat /\ Size(m, p) \in Nat /\ p + Size(m, p) <= MAX_HEAP
      <4>1. /\ p \in Nat /\ Size(m, p) \in Nat /\ p + Size(m, p) <= z.heap.brk
            /\ z.heap.brk \in Nat /\ z.heap.brk <= MAX_HEAP
        BY <2>3, <2>5, HeldFacts
      <4> QED BY <3>1, <4>1
    <3>3. n \in Nat /\ n <= words /\ n <= Size(m, p)
      <4> HIDE DEF words, m
      <4> QED BY <2>4, <3>2
    <3>4. w(z) = [a \in Addresses |-> IF a \in bp .. bp + n - 1 THEN m[p + (a - bp)] ELSE m[a]]
      <4>1. DOMAIN m = Addresses
        BY <3>1
      <4> QED BY <2>5, <4>1 DEF Copied
    <3>5. ASSUME NEW a \in Addresses, a \notin bp .. FTRP(m, bp) - 1 PROVE a \notin bp .. bp + n - 1
      <4>1. a \in Int
        BY DEF Addresses
      <4>2. Size(m, bp) >= words + 2
        BY <2>5
      <4> HIDE DEF n, words, m, bp
      <4> QED BY <2>4, <3>1, <3>3, <3>5, <4>1, <4>2
    <3>6. ASSUME NEW a \in Addresses, a \in bp .. bp + n - 1 PROVE p + (a - bp) \in Addresses
      <4> HIDE DEF n, m, bp
      <4> QED BY <3>1, <3>2, <3>3, <3>6 DEF Addresses
    <3> HIDE DEF w, m, n
    <3>7. w(z) \in [Addresses -> Nat]
      BY <3>1, <3>4, <3>6
    <3> QED BY <3>4, <3>5, <3>7 DEF WritesWithin, m
  <2>6. WritesWithin(x.heap.mem, w(x), bp)
    BY <1>3, <1>7, <2>1, <2>5
  <2>7. WritesWithin(y.heap.mem, w(y), bp)
    BY <1>4, <1>5, <1>7, <2>2, <2>5
  <2> DEFINE c == [x.heap EXCEPT !.mem = w(x)]
             d == [y.heap EXCEPT !.mem = w(y)]
  <2> HIDE DEF w, T, bp
  <2>8. SameShape(c, y.heap, T) /\ WellFormed(c, D, T)
    BY <2>1, <2>3, <2>6, WrittenShape, Written
  <2> HIDE DEF c
  <2>9. SameShape(c, d, T)
    BY <2>3, <2>7, <2>8, WrittenShape
  <2> HIDE DEF d
  <2>10. SameShape(mm_free(c, p), mm_free(d, p), T \ {p})
    BY <2>3, <2>8, <2>9, FreedShape
  <2>11. r.bp = bp /\ r.heap = mm_free(c, p)
    <3>1. r = [[heap |-> x.heap, bp |-> x.bp] EXCEPT !.heap = freed(x)]
      BY <1>1, <1>3, <1>7
    <3> QED BY <3>1 DEF freed, c, bp
  <2>12. q.bp = bp /\ q.heap = mm_free(d, p)
    <3>1. q = [[heap |-> y.heap, bp |-> y.bp] EXCEPT !.heap = freed(y)]
      BY <1>1, <1>4, <1>5, <1>7
    <3> QED BY <1>5, <3>1 DEF freed, d, bp
  <2>13. T \ {p} = (S \ {p}) \cup {bp}
    BY <1>3, <1>7 DEF T, bp
  <2> QED BY <2>10, <2>11, <2>12, <2>13
<1> QED BY <1>6, <1>7

(* mm_init leaves nothing of what the memory had.                          *)
LEMMA InitsShape ==
  ASSUME NEW m \in [Addresses -> Nat], NEW n \in [Addresses -> Nat]
  PROVE  SameShape(mm_init(m), mm_init(n), {})
<1> DEFINE x == FirstWords(m)
           y == FirstWords(n)
           h == [mem |-> x, brk |-> 4]
           g == [mem |-> y, brk |-> 4]
<1>1. MAX_HEAP \in Nat /\ MAX_HEAP >= 8 /\ CHUNKSIZE \in Nat /\ CHUNKSIZE % 2 = 0
      /\ CHUNKSIZE >= 4 /\ 4 + CHUNKSIZE <= MAX_HEAP
  BY Constants
<1>2. WellFormed(h, {2}, {}) /\ y \in [Addresses -> Nat]
  BY <1>1, FirstHeap
<1>3. \A a \in Addresses : a < 4 => y[a] = x[a]
  BY <1>1 DEF FirstWords, Addresses
<1>4. SameShape(h, g, {})
  <2>1. h.mem = x /\ h.brk = 4 /\ g.mem = y /\ g.brk = 4
    OBVIOUS
  <2>2. g \in [mem : [Addresses -> Nat], brk : 4 .. MAX_HEAP]
    BY <1>1, <1>2
  <2> HIDE DEF h, g, x, y
  <2> QED BY <1>3, <2>1, <2>2 DEF SameShape, Skeleton
<1>5. /\ mm_init(m) = extend_heap(h, CHUNKSIZE).heap
      /\ mm_init(n) = extend_heap(g, CHUNKSIZE).heap
      /\ h.brk = 4
  BY DEF mm_init
<1> HIDE DEF h, g
<1>6. PICK r : r = extend_heap(h, CHUNKSIZE)
  OBVIOUS
<1>7. PICK q : q = extend_heap(g, CHUNKSIZE)
  OBVIOUS
<1> QED BY <1>1, <1>2, <1>4, <1>5, <1>6, <1>7, ExtendsShape

----------------------------------------------------------------------------
(* The steps of the caller, s are its payloads.                            *)

Tidy(h, s, B) ==
  /\ WellFormed(h, B, DOMAIN s) /\ h.brk > 4
  /\ \A p \in DOMAIN s : /\ s[p] \in Nat \ {0}
                         /\ PayloadWords(s[p]) + 2 <= Size(h.mem, p)

\* Words that fit.
LEMMA PayloadFacts ==
  ASSUME NEW size \in Nat \ {0}
  PROVE  /\ size \in Nat /\ ~ Spurious(size)
         /\ PayloadWords(size) \in Nat /\ PayloadWords(size) > 0
<1>1. size \in Nat /\ ~ Spurious(size)
  BY Constants DEF Spurious
<1> QED BY <1>1, AdjustedFits

(* A block p is there for a payload of so many bytes, besides those of s.  *)
Awaits(h, s, D, p, size) ==
  /\ p \notin DOMAIN s /\ WellFormed(h, D, DOMAIN s \cup {p}) /\ h.brk > 4
  /\ \A q \in DOMAIN s : /\ s[q] \in Nat \ {0}
                         /\ PayloadWords(s[q]) + 2 <= Size(h.mem, q)
  /\ size \in Nat /\ ~ Spurious(size) /\ PayloadWords(size) + 2 <= Size(h.mem, p)

(* What the caller's data d in words W of the payload p leave of the rest. *)
Writes(h, s, D, p, size, W, d) ==
  /\ Tidy([h EXCEPT !.mem = Filled(h.mem, W, d)], Sized(s, p, size), D)
  /\ Kept(h.mem, Filled(h.mem, W, d), DOMAIN s)
  /\ \A a \in Payload(p, size) :
       Filled(h.mem, W, d)[a] = IF a \in W THEN d ELSE h.mem[a]

(* Writing the payload of a block, and the accounts that go with it.       *)
LEMMA WritesPayload ==
  ASSUME NEW h, NEW s, NEW D, NEW p, NEW size, Awaits(h, s, D, p, size),
         NEW W, W \subseteq Payload(p, size), NEW d \in Nat
  PROVE  Writes(h, s, D, p, size, W, d)
<1> DEFINE n == Filled(h.mem, W, d)
           g == [h EXCEPT !.mem = n]
           t == Sized(s, p, size)
           S == DOMAIN s
           T == S \cup {p}
<1> USE DEF Awaits
<1>1. p \in T /\ WellFormed(h, D, T)
  OBVIOUS
<1>2. size \in Nat \ {0} /\ size \in Nat
  BY Constants DEF Spurious
<1>3. PayloadWords(size) \in Nat
  BY <1>2, PayloadFacts
<1> HIDE DEF T
<1>4. /\ p \in Nat /\ Size(h.mem, p) \in Nat /\ h.mem \in [Addresses -> Nat]
      /\ FTRP(h.mem, p) = p + Size(h.mem, p) - 2
      /\ p + Size(h.mem, p) <= h.brk /\ h.brk \in Nat /\ h.brk <= MAX_HEAP /\ MAX_HEAP \in Nat
  BY <1>1, HeldFacts
<1>5. n = [a \in Addresses |-> IF a \in W THEN d ELSE h.mem[a]]
  BY <1>4 DEF Filled
<1> HIDE DEF n
<1>6. \A a \in Payload(p, size) : a \in Addresses /\ a \in p .. FTRP(h.mem, p) - 1
  <2> SUFFICES ASSUME NEW a \in Payload(p, size)
               PROVE  a \in Addresses /\ a \in p .. FTRP(h.mem, p) - 1
    OBVIOUS
  <2>1. a \in Nat /\ a >= p /\ a + 1 <= p + PayloadWords(size)
    BY <1>3, <1>4 DEF Payload
  <2>2. a <= FTRP(h.mem, p) - 1 /\ a < MAX_HEAP /\ FTRP(h.mem, p) \in Int
    BY <1>3, <1>4, <2>1
  <2>3. a \in Addresses
    BY <1>4, <2>1, <2>2 DEF Addresses
  <2> QED BY <1>4, <2>1, <2>2, <2>3
<1>7. WritesWithin(h.mem, n, p)
  <2>1. d \in Nat
    BY Constants
  <2>2. n \in [Addresses -> Nat]
    BY <1>4, <1>5, <2>1
  <2>3. ASSUME NEW a \in Addresses, a \notin p .. FTRP(h.mem, p) - 1 PROVE n[a] = h.mem[a]
    <3>1. a \notin W
      BY <1>6, <2>3
    <3> QED BY <1>5, <3>1
  <2> QED BY <2>2, <2>3 DEF WritesWithin
<1>8. /\ WellFormed(g, D, T) /\ Kept(h.mem, n, T \ {p}) /\ SameSizes(h.mem, n, T)
  BY <1>1, <1>7, Written
<1>9. g.mem = n /\ g.brk = h.brk
  BY <1>1 DEF WellFormed
<1> HIDE DEF g
<1>10. DOMAIN t = T /\ \A q \in T : t[q] = IF q = p THEN size ELSE s[q]
  BY DEF Sized, T
<1> HIDE DEF t
<1>11. ASSUME NEW q \in DOMAIN t
       PROVE  t[q] \in Nat \ {0} /\ PayloadWords(t[q]) + 2 <= Size(g.mem, q)
  <2>1. Size(g.mem, q) = Size(h.mem, q) /\ q \in T
    BY <1>8, <1>9, <1>10 DEF SameSizes
  <2>2. CASE q = p
    BY <1>2, <1>10, <2>1, <2>2
  <2>3. CASE q # p
    <3>1. q \in S /\ t[q] = s[q]
      BY <1>10, <2>1, <2>3 DEF T
    <3> QED BY <2>1, <3>1
  <2> QED BY <2>2, <2>3
<1>12. Tidy(g, t, D)
  BY <1>8, <1>9, <1>10, <1>11 DEF Tidy
<1>13. Kept(h.mem, n, S)
  <2>1. T \ {p} = S
    BY DEF T
  <2> QED BY <1>8, <2>1
<1>14. \A a \in Payload(p, size) : n[a] = IF a \in W THEN d ELSE h.mem[a]
  BY <1>5, <1>6
<1> QED BY <1>12, <1>13, <1>14 DEF g, n, t, Writes

\* Without any writing.
LEMMA AwaitedIsGood ==
  ASSUME NEW h, NEW s, NEW D, NEW p, NEW size, Awaits(h, s, D, p, size)
  PROVE  Tidy(h, Sized(s, p, size), D)
<1>1. PICK t : t = Sized(s, p, size)
  OBVIOUS
<1>2. /\ DOMAIN t = DOMAIN s \cup {p} /\ t[p] = size
      /\ \A q \in DOMAIN s : q # p => t[q] = s[q]
  BY <1>1 DEF Sized
<1>3. size \in Nat \ {0}
  BY DEF Awaits, Spurious
<1>4. ASSUME NEW q \in DOMAIN t
      PROVE  t[q] \in Nat \ {0} /\ PayloadWords(t[q]) + 2 <= Size(h.mem, q)
  BY <1>2, <1>3 DEF Awaits
<1>5. Tidy(h, t, D)
  BY <1>2, <1>4 DEF Tidy, Awaits
<1> QED BY <1>1, <1>5

(* r has a block for size bytes, besides those of s, which are as in h.    *)
Finds(h, s, r, size) ==
  /\ \E D : Awaits(r.heap, s, D, r.bp, size)
  /\ r.heap.brk >= h.brk /\ Kept(h.mem, r.heap.mem, DOMAIN s)

LEMMA MallocFinds ==
  ASSUME NEW h, NEW s, NEW B, Tidy(h, s, B), NEW size \in Nat,
         NEW r, r = mm_malloc(h, size), r.bp # NULL
  PROVE  Finds(h, s, r, size)
<1> DEFINE S == DOMAIN s
           p == r.bp
           f == r.heap
<1>1. size \in Nat /\ WellFormed(h, B, S) /\ h.brk > 4
  BY DEF Tidy
<1>2. /\ ~ Spurious(size) /\ p \notin S /\ f.brk >= h.brk /\ Kept(h.mem, f.mem, S)
      /\ Size(f.mem, p) >= PayloadWords(size) + 2
      /\ \E D : WellFormed(f, D, S \cup {p})
  BY <1>1, Mallocs
<1> HIDE DEF f, p
<1>3. PICK D : WellFormed(f, D, S \cup {p})
  BY <1>2
<1>4. \A q \in S : Size(f.mem, q) = Size(h.mem, q)
  BY <1>1, <1>2, KeptSizes
<1>5. \A q \in S : s[q] \in Nat \ {0} /\ PayloadWords(s[q]) + 2 <= Size(f.mem, q)
  BY <1>4 DEF Tidy
<1>6. f.brk > 4
  <2>1. h.brk \in Nat /\ f.brk \in Nat
    BY <1>1, <1>3, BlockRange DEF WellFormed
  <2> QED BY <1>1, <1>2, <2>1
<1>7. PayloadWords(size) + 2 <= Size(f.mem, p)
  <2>1. PayloadWords(size) \in Nat /\ Size(f.mem, p) \in Nat
    <3>1. p \in S \cup {p}
      OBVIOUS
    <3>2. Size(f.mem, p) \in Nat
      BY <1>3, <3>1, HeldFacts
    <3> QED BY <1>1, <1>2, <3>2, AdjustedFits
  <2> QED BY <1>2, <2>1
<1>8. Awaits(f, s, D, p, size)
  BY <1>1, <1>2, <1>3, <1>5, <1>6, <1>7 DEF Awaits
<1> QED BY <1>2, <1>8 DEF f, p, Finds

(* A payload p more, filled with d, and the others as they were.           *)
Gets(h, s, p, size, d, g) ==
  /\ \E D : Tidy(g, Sized(s, p, size), D)
  /\ size # 0 /\ p \notin DOMAIN s /\ Kept(h.mem, g.mem, DOMAIN s)
  /\ \A a \in Payload(p, size) : g.mem[a] = d

(* mm_malloc, and the caller's writing.                                    *)
LEMMA MallocStep ==
  ASSUME NEW h, NEW s, NEW B, Tidy(h, s, B), NEW size \in Nat, NEW d \in Nat,
         NEW r, r = mm_malloc(h, size), r.bp # NULL,
         NEW g, g = [r.heap EXCEPT !.mem = Filled(@, Payload(r.bp, size), d)]
  PROVE  Gets(h, s, r.bp, size, d, g)
<1>1. PICK S, p, f, W : S = DOMAIN s /\ p = r.bp /\ f = r.heap /\ W = Payload(p, size)
  OBVIOUS
<1>2. Finds(h, s, r, size)
  BY MallocFinds
<1>3. PICK D : Awaits(f, s, D, p, size)
  BY <1>1, <1>2 DEF Finds
<1>4. Writes(f, s, D, p, size, W, d)
  BY <1>1, <1>3, WritesPayload
<1>5. g = [f EXCEPT !.mem = Filled(f.mem, W, d)] /\ g.mem = Filled(f.mem, W, d)
  <2>1. f \in [mem : [Addresses -> Nat], brk : 4 .. MAX_HEAP]
    BY <1>3 DEF Awaits, WellFormed
  <2> QED BY <1>1, <2>1
<1>6. Tidy(g, Sized(s, p, size), D) /\ Kept(f.mem, g.mem, S)
      /\ \A a \in Payload(p, size) : g.mem[a] = d
  BY <1>1, <1>4, <1>5 DEF Writes
<1>7. Kept(h.mem, g.mem, S)
  <2>1. S \in SUBSET S /\ S \subseteq S /\ WellFormed(h, B, S) /\ Kept(h.mem, f.mem, S)
    BY <1>1, <1>2 DEF Finds, Tidy
  <2> QED BY <1>6, <2>1, KeptSizes
<1>8. size # 0 /\ p \notin S
  BY <1>1, <1>3 DEF Awaits, Spurious
<1> QED BY <1>1, <1>6, <1>7, <1>8 DEF Gets

(* mm_free: a payload less, and the others as they were.                   *)
LEMMA FreeStep ==
  ASSUME NEW h, NEW s, NEW B, Tidy(h, s, B), NEW p \in DOMAIN s
  PROVE  /\ \E D : Tidy(mm_free(h, p), Unsized(s, p), D)
         /\ Kept(h.mem, mm_free(h, p).mem, DOMAIN s \ {p})
<1> DEFINE S == DOMAIN s
           g == mm_free(h, p)
           t == Unsized(s, p)
<1>1. WellFormed(h, B, S) /\ h.brk > 4
  BY DEF Tidy
<1>2. /\ g.brk = h.brk /\ Kept(h.mem, g.mem, S \ {p})
      /\ \E D : WellFormed(g, D, S \ {p})
  BY <1>1, Freed
<1> HIDE DEF g
<1>3. PICK D : WellFormed(g, D, S \ {p})
  BY <1>2
<1>4. DOMAIN t = S \ {p} /\ \A q \in S \ {p} : t[q] = s[q]
  BY DEF Unsized
<1> HIDE DEF t
<1>5. \A q \in S \ {p} : Size(g.mem, q) = Size(h.mem, q)
  <2>1. S \ {p} \in SUBSET S
    OBVIOUS
  <2> HIDE DEF S
  <2> QED BY <1>1, <1>2, <2>1, KeptSizes
<1>6. \A q \in DOMAIN t : t[q] \in Nat \ {0} /\ PayloadWords(t[q]) + 2 <= Size(g.mem, q)
  BY <1>4, <1>5 DEF Tidy
<1>7. Tidy(g, t, D)
  BY <1>1, <1>2, <1>3, <1>4, <1>6 DEF Tidy
<1> QED BY <1>2, <1>7 DEF g, t

(* The words that realloc adds, counted from the new block's first.        *)
LEMMA ShiftedInterval ==
  ASSUME NEW q \in Nat, NEW old \in Nat, NEW new \in Nat
  PROVE  /\ q + old .. q + new - 1 \subseteq q .. q + new - 1
         /\ \A i \in Nat : q + i \in q + old .. q + new - 1 <=> (i < new /\ ~ (i < old))
         /\ \A i \in Nat : i < new => q + i \in q .. q + new - 1
OBVIOUS

(* The payload p moved to q, its new words filled with d, and the others   *)
(* as they were.                                                           *)
MovesTo(h, s, p, q, size, d, g) ==
  /\ \E D : Tidy(g, Sized(Unsized(s, p), q, size), D)
  /\ size # 0 /\ q \notin DOMAIN s /\ Kept(h.mem, g.mem, DOMAIN s \ {p})
  /\ \A i \in Nat : i < PayloadWords(size) =>
       g.mem[q + i] = IF i < PayloadWords(s[p]) THEN h.mem[p + i] ELSE d

(* The block that mm_realloc returns has the data of p as far as it fits.  *)
LEMMA ReallocFinds ==
  ASSUME NEW h, NEW s, NEW B, Tidy(h, s, B), NEW p \in DOMAIN s, NEW size \in Nat,
         NEW r, r = mm_realloc(h, p, size), r.bp # NULL
  PROVE  /\ Finds(h, Unsized(s, p), r, size) /\ r.bp \notin DOMAIN s
         /\ \A i \in Nat : i < PayloadWords(size) /\ i < PayloadWords(s[p])
                             => r.heap.mem[r.bp + i] = h.mem[p + i]
<1> DEFINE S == DOMAIN s
           q == r.bp
           f == r.heap
           u == Unsized(s, p)
<1>1. size \in Nat /\ WellFormed(h, B, S) /\ h.brk > 4
  BY DEF Tidy
<1>2. /\ ~ Spurious(size) /\ q \notin S /\ f.brk >= h.brk
      /\ Kept(h.mem, f.mem, S \ {p})
      /\ Size(f.mem, q) >= PayloadWords(size) + 2
      /\ \E D : WellFormed(f, D, (S \ {p}) \cup {q})
      /\ \A i \in Nat : i < PayloadWords(size) /\ i < Size(h.mem, p) - 2
                          => f.mem[q + i] = h.mem[p + i]
  <2>1. r # [heap |-> h, bp |-> NULL]
    OBVIOUS
  <2>2. p \in S
    OBVIOUS
  <2> HIDE DEF S, f, q
  <2>3. Moves(h, S, p, size, r)
    BY <1>1, <2>1, <2>2, Reallocs
  <2> QED BY <2>3 DEF Moves, f, q
<1> HIDE DEF f, q
<1> DEFINE T == S \ {p}
<1>3. PICK D : WellFormed(f, D, T \cup {q})
  BY <1>2
<1>4. DOMAIN u = T /\ \A b \in T : u[b] = s[b]
  BY DEF Unsized
<1> HIDE DEF u
<1>5. T \in SUBSET S /\ p \in S
  OBVIOUS
<1> HIDE DEF T
<1>6. Kept(h.mem, f.mem, T)
  BY <1>2 DEF T
<1>7. \A b \in T : Size(f.mem, b) = Size(h.mem, b)
  <2> SUFFICES ASSUME NEW b \in T PROVE Size(f.mem, b) = Size(h.mem, b)
    OBVIOUS
  <2> HIDE DEF S
  <2> QED BY <1>1, <1>5, <1>6, KeptSizes
<1>8. \A b \in T : u[b] \in Nat \ {0} /\ PayloadWords(u[b]) + 2 <= Size(f.mem, b)
  BY <1>4, <1>5, <1>7 DEF Tidy
<1>9. f.brk > 4
  <2>1. h.brk \in Nat /\ f.brk \in Nat
    BY <1>1, <1>3, BlockRange DEF WellFormed
  <2> QED BY <1>1, <1>2, <2>1
<1>10. PayloadWords(size) + 2 <= Size(f.mem, q)
  <2>1. PayloadWords(size) \in Nat /\ Size(f.mem, q) \in Nat
    <3>1. q \in T \cup {q}
      OBVIOUS
    <3>2. Size(f.mem, q) \in Nat
      BY <1>3, <3>1, HeldFacts
    <3> QED BY <1>1, <1>2, <3>2, AdjustedFits
  <2> QED BY <1>2, <2>1
<1>11. q \notin T
  BY <1>2, <1>5
<1>12. Awaits(f, u, D, q, size)
  BY <1>2, <1>3, <1>4, <1>8, <1>9, <1>10, <1>11 DEF Awaits
<1>13. Finds(h, u, r, size)
  BY <1>2, <1>4, <1>6, <1>12 DEF Finds, f, q
<1>14. PayloadWords(s[p]) \in Nat /\ PayloadWords(s[p]) <= Size(h.mem, p) - 2
       /\ Size(h.mem, p) \in Nat
  <2>1. s[p] \in Nat \ {0} /\ PayloadWords(s[p]) + 2 <= Size(h.mem, p)
    BY DEF Tidy
  <2>2. PayloadWords(s[p]) \in Nat
    BY <2>1, PayloadFacts
  <2>3. Size(h.mem, p) \in Nat
    BY <1>1, <1>5, HeldFacts
  <2> QED BY <2>1, <2>2, <2>3
<1>15. ASSUME NEW i \in Nat, i < PayloadWords(size), i < PayloadWords(s[p])
       PROVE  f.mem[q + i] = h.mem[p + i]
  <2>1. i < Size(h.mem, p) - 2
    BY <1>14, <1>15
  <2> QED BY <1>2, <1>15, <2>1
<1> QED BY <1>2, <1>13, <1>15 DEF f, q, u

(* mm_realloc, and the caller's writing.                                   *)
LEMMA ReallocStep ==
  ASSUME NEW h, NEW s, NEW B, Tidy(h, s, B), NEW p \in DOMAIN s,
         NEW size \in Nat, NEW d \in Nat,
         NEW r, r = mm_realloc(h, p, size), r.bp # NULL,
         NEW W, W = r.bp + PayloadWords(s[p]) .. r.bp + PayloadWords(size) - 1,
         NEW g, g = [r.heap EXCEPT !.mem = Filled(@, W, d)]
  PROVE  MovesTo(h, s, p, r.bp, size, d, g)
<1>1. PICK S, q, f, u, T : S = DOMAIN s /\ q = r.bp /\ f = r.heap /\ u = Unsized(s, p)
                            /\ T = S \ {p}
  OBVIOUS
<1>2. /\ Finds(h, u, r, size) /\ q \notin S
      /\ \A i \in Nat : i < PayloadWords(size) /\ i < PayloadWords(s[p])
                          => f.mem[q + i] = h.mem[p + i]
  BY <1>1, ReallocFinds
<1>3. PICK D : Awaits(f, u, D, q, size)
  BY <1>1, <1>2 DEF Finds
<1>4. DOMAIN u = T /\ T \in SUBSET S /\ T \subseteq T
  BY <1>1 DEF Unsized
<1>5. size # 0 /\ size \in Nat \ {0}
  BY <1>3 DEF Awaits, Spurious
<1>6. PayloadWords(size) \in Nat /\ PayloadWords(s[p]) \in Nat
  <2>1. s[p] \in Nat \ {0}
    BY DEF Tidy
  <2> QED BY <1>5, <2>1, PayloadFacts
<1>7. q \in Nat
  <2>1. WellFormed(f, D, DOMAIN u \cup {q}) /\ q \in DOMAIN u \cup {q}
    BY <1>3 DEF Awaits
  <2> QED BY <2>1, HeldFacts
<1>8. /\ W \subseteq Payload(q, size)
      /\ \A i \in Nat : q + i \in W <=> (i < PayloadWords(size) /\ ~ (i < PayloadWords(s[p])))
      /\ \A i \in Nat : i < PayloadWords(size) => q + i \in Payload(q, size)
  <2>1. PICK new, old : new = PayloadWords(size) /\ old = PayloadWords(s[p])
    OBVIOUS
  <2>2. W = q + old .. q + new - 1 /\ Payload(q, size) = q .. q + new - 1
    BY <1>1, <2>1 DEF Payload
  <2>3. new \in Nat /\ old \in Nat
    BY <1>6, <2>1
  <2>4. /\ W \subseteq Payload(q, size)
        /\ \A i \in Nat : q + i \in W <=> (i < new /\ ~ (i < old))
        /\ \A i \in Nat : i < new => q + i \in Payload(q, size)
    BY <1>7, <2>2, <2>3, ShiftedInterval
  <2> QED BY <2>1, <2>4
<1>9. Writes(f, u, D, q, size, W, d)
  BY <1>3, <1>8, WritesPayload
<1>10. g = [f EXCEPT !.mem = Filled(f.mem, W, d)] /\ g.mem = Filled(f.mem, W, d)
  <2>1. f \in [mem : [Addresses -> Nat], brk : 4 .. MAX_HEAP]
    BY <1>3 DEF Awaits, WellFormed
  <2> QED BY <1>1, <2>1
<1>11. /\ Tidy(g, Sized(u, q, size), D) /\ Kept(f.mem, g.mem, T)
       /\ \A a \in Payload(q, size) : g.mem[a] = IF a \in W THEN d ELSE f.mem[a]
  BY <1>4, <1>9, <1>10 DEF Writes
<1>12. Kept(h.mem, g.mem, T)
  <2>1. WellFormed(h, B, S) /\ Kept(h.mem, f.mem, T)
    BY <1>1, <1>2, <1>4 DEF Finds, Tidy
  <2> QED BY <1>4, <1>11, <2>1, KeptSizes
<1>13. ASSUME NEW i \in Nat, i < PayloadWords(size)
       PROVE  g.mem[q + i] = IF i < PayloadWords(s[p]) THEN h.mem[p + i] ELSE d
  BY <1>2, <1>8, <1>11, <1>13
<1> QED BY <1>1, <1>2, <1>5, <1>11, <1>12, <1>13 DEF MovesTo

----------------------------------------------------------------------------
(* The inductive invariant, of a heap h and payloads s.                    *)

BlocksIn(h) == ListFrom(h) \ {h.brk}

StateOK(h, s) ==
  /\ h \in [mem : [Addresses -> Nat], brk : 4 .. MAX_HEAP]
  /\ DOMAIN s \subseteq Addresses /\ \A p \in DOMAIN s : s[p] \in Requests \ {0}
  /\ 4 \in BlocksIn(h) /\ Tiled(h.mem, h.brk, BlocksIn(h))
  /\ mm_checkheap(h)
  /\ h.brk \in ListFrom(h) /\ Size(h.mem, h.brk) = 0
  /\ DOMAIN s = {bp \in BlocksIn(h) \ {heap_listp} : Allocated(h.mem, bp)}
  /\ \A p \in DOMAIN s : Payload(p, s[p]) \subseteq p .. FTRP(h.mem, p) - 1
  /\ \A bp \in BlocksIn(h) :
       ~ Allocated(h.mem, bp) => Allocated(h.mem, NEXT_BLKP(h.mem, bp))
  /\ s = <<>> => BlocksIn(h) = {heap_listp, 4}

(* With nothing allocated the free blocks have merged into one.            *)
LEMMA OneBlock ==
  ASSUME NEW m, NEW brk, NEW B, Tiled(m, brk, B), Apart(m, B), brk > 4, 4 \in B,
         AllocatedOf(m, B) = {heap_listp}
  PROVE  B = {heap_listp, 4}
<1>1. NEXT_BLKP(m, heap_listp) = 4 /\ heap_listp = 2 /\ 2 \in B
  <2>1. m[HDRP(2)] = PACK(2, 1) /\ heap_listp = 2 /\ 2 \in B
    BY DEF Tiled, heap_listp
  <2>2. GET_SIZE(PACK(2, 1)) = 2
    BY PackParts
  <2> QED BY <2>1, <2>2 DEF Size, NEXT_BLKP
<1>2. 4 # heap_listp
  BY <1>1
<1>3. ~ Allocated(m, 4)
  BY <1>2 DEF AllocatedOf
<1>4. /\ NEXT_BLKP(m, 4) \in B \cup {brk} /\ NEXT_BLKP(m, 4) \in Nat
      /\ NEXT_BLKP(m, 4) > 4 /\ brk \in Nat
  BY BlockFacts
<1>5. NEXT_BLKP(m, 4) = brk
  <2>1. Allocated(m, NEXT_BLKP(m, 4))
    BY <1>3 DEF Apart
  <2>2. NEXT_BLKP(m, 4) # heap_listp
    BY <1>1, <1>4
  <2>3. NEXT_BLKP(m, 4) \notin B
    BY <2>1, <2>2 DEF AllocatedOf
  <2> QED BY <1>4, <2>3
<1>6. ASSUME NEW b \in B PROVE b = 2 \/ b = 4
  <2>1. b \in Nat /\ b >= 2 /\ b < brk
    BY BlockRange
  <2>2. (2 < b => 4 <= b) /\ (4 < b => brk <= b)
    <3>1. (2 < b => NEXT_BLKP(m, 2) <= b) /\ (4 < b => NEXT_BLKP(m, 4) <= b)
      BY <1>1 DEF Tiled
    <3> QED BY <1>1, <1>5, <3>1
  <2> QED BY <1>4, <2>1, <2>2
<1> QED BY <1>1, <1>6

(* What Tidy says, with the list that the code walks.                      *)
LEMMA StateOfGood ==
  ASSUME NEW h, NEW s, NEW B, Tidy(h, s, B), \A p \in DOMAIN s : s[p] \in Requests \ {0}
  PROVE  StateOK(h, s) /\ BlocksIn(h) = B
<1> DEFINE S == DOMAIN s
<1>1. /\ WellFormed(h, B, S) /\ h.brk > 4
      /\ \A p \in S : s[p] \in Nat \ {0} /\ PayloadWords(s[p]) + 2 <= Size(h.mem, p)
  BY DEF Tidy
<1> HIDE DEF S
<1>2. /\ h \in [mem : [Addresses -> Nat], brk : 4 .. MAX_HEAP]
      /\ Tiled(h.mem, h.brk, B) /\ Apart(h.mem, B)
      /\ AllocatedOf(h.mem, B) = S \cup {heap_listp} /\ heap_listp \notin S
  BY <1>1 DEF WellFormed
<1>3. Size(h.mem, h.brk) = 0 /\ Allocated(h.mem, h.brk) /\ h.brk \notin B
  BY <1>2, EpilogueFacts
<1>4. ListFrom(h) = B \cup {h.brk}
  BY <1>2, ListVisitsBlocks
<1>5. BlocksIn(h) = B
  BY <1>3, <1>4 DEF BlocksIn
<1>6. 4 \in B
  <2>1. h.mem[HDRP(2)] = PACK(2, 1) /\ heap_listp = 2 /\ 2 \in B
    BY <1>2 DEF Tiled, heap_listp
  <2>2. GET_SIZE(PACK(2, 1)) = 2
    BY PackParts
  <2>3. NEXT_BLKP(h.mem, 2) = 4
    BY <2>1, <2>2 DEF Size, NEXT_BLKP
  <2>4. NEXT_BLKP(h.mem, 2) \in B \cup {h.brk}
    BY <1>2, <2>1 DEF Tiled
  <2> QED BY <1>1, <2>3, <2>4
<1>7. mm_checkheap(h)
  <2>1. \A b \in B : Size(h.mem, b) > 0 /\ checkblock(h.mem, b)
    <3> SUFFICES ASSUME NEW b \in B PROVE Size(h.mem, b) > 0 /\ checkblock(h.mem, b)
      OBVIOUS
    <3>1. b % 2 = 0 /\ h.mem[FTRP(h.mem, b)] = h.mem[HDRP(b)]
      BY <1>2 DEF Tiled
    <3>2. Size(h.mem, b) \in Nat /\ Size(h.mem, b) >= 2
      BY <1>2, BlockFacts
    <3> QED BY <3>1, <3>2 DEF checkblock
  <2>2. h.mem[HDRP(heap_listp)] = PACK(2, 1)
    BY <1>2 DEF Tiled
  <2>3. \A bp \in ListFrom(h) : IF Size(h.mem, bp) > 0 THEN checkblock(h.mem, bp)
                                ELSE Allocated(h.mem, bp)
    <3> SUFFICES ASSUME NEW bp \in B \cup {h.brk}
                 PROVE  IF Size(h.mem, bp) > 0 THEN checkblock(h.mem, bp)
                        ELSE Allocated(h.mem, bp)
      BY <1>4
    <3>1. CASE bp = h.brk
      BY <1>3, <3>1
    <3>2. CASE bp \in B
      BY <2>1, <3>2
    <3> QED BY <3>1, <3>2
  <2> QED BY <2>2, <2>3 DEF mm_checkheap
<1>8. ASSUME NEW p \in S
      PROVE  p \in Addresses /\ Payload(p, s[p]) \subseteq p .. FTRP(h.mem, p) - 1
  <2>1. /\ p \in Nat /\ Size(h.mem, p) \in Nat /\ Size(h.mem, p) >= 2
        /\ FTRP(h.mem, p) = p + Size(h.mem, p) - 2
        /\ p + Size(h.mem, p) <= h.brk /\ h.brk \in Nat /\ h.brk <= MAX_HEAP
        /\ MAX_HEAP \in Nat
    BY <1>1, HeldFacts
  <2>2. s[p] \in Nat \ {0} /\ PayloadWords(s[p]) + 2 <= Size(h.mem, p)
    BY <1>1
  <2>3. PayloadWords(s[p]) \in Nat
    BY <2>2, PayloadFacts
  <2>4. Payload(p, s[p]) \subseteq p .. FTRP(h.mem, p) - 1
    <3> DEFINE w == PayloadWords(s[p])
               z == Size(h.mem, p)
    <3>1. p .. p + w - 1 \subseteq p .. (p + z - 2) - 1
      <4> HIDE DEF w, z
      <4> SUFFICES w \in Nat /\ z \in Nat /\ w + 2 <= z
        BY <2>1
      <4> QED BY <2>1, <2>2, <2>3 DEF w, z
    <3> QED BY <2>1, <3>1 DEF Payload
  <2>5. p \in Addresses
    BY <2>1 DEF Addresses
  <2> QED BY <2>4, <2>5
<1>9. S = {bp \in B \ {heap_listp} : Allocated(h.mem, bp)}
  BY <1>2 DEF AllocatedOf
<1>10. s = <<>> => B = {heap_listp, 4}
  <2> SUFFICES ASSUME s = <<>> PROVE B = {heap_listp, 4}
    OBVIOUS
  <2>1. S = {}
    BY DEF S
  <2>2. AllocatedOf(h.mem, B) = {heap_listp}
    BY <1>2, <2>1
  <2> QED BY <1>1, <1>2, <1>6, <2>2, OneBlock
<1>11. \A bp \in B : ~ Allocated(h.mem, bp) => Allocated(h.mem, NEXT_BLKP(h.mem, bp))
  BY <1>2 DEF Apart
<1>12. S \subseteq Addresses /\ \A p \in S : Payload(p, s[p]) \subseteq p .. FTRP(h.mem, p) - 1
  BY <1>8
<1>13. h.brk \in ListFrom(h)
  BY <1>4
<1> QED BY <1>1, <1>2, <1>3, <1>5, <1>6, <1>7, <1>9, <1>10, <1>11, <1>12, <1>13 DEF StateOK, S

(* And the other way round.                                                *)
LEMMA GoodOfState ==
  ASSUME NEW h, NEW s, StateOK(h, s)
  PROVE  Tidy(h, s, BlocksIn(h))
<1> DEFINE B == BlocksIn(h)
           S == DOMAIN s
<1>1. /\ h \in [mem : [Addresses -> Nat], brk : 4 .. MAX_HEAP]
      /\ 4 \in B /\ Tiled(h.mem, h.brk, B)
      /\ S = {bp \in B \ {heap_listp} : Allocated(h.mem, bp)}
  BY DEF StateOK
<1>2. /\ \A p \in S : s[p] \in Nat \ {0}
      /\ \A p \in S : Payload(p, s[p]) \subseteq p .. FTRP(h.mem, p) - 1
      /\ Apart(h.mem, B)
  BY Constants DEF StateOK, Apart
<1> HIDE DEF B, S
<1>3. h.brk > 4
  BY <1>1, BlockRange
<1>4. Allocated(h.mem, heap_listp) /\ heap_listp \in B
  <2>1. heap_listp \in B /\ h.mem[HDRP(heap_listp)] = PACK(2, 1)
    BY <1>1 DEF Tiled
  <2>2. GET_ALLOC(PACK(2, 1)) = 1
    BY PackParts
  <2> QED BY <2>1, <2>2 DEF Allocated
<1>5. AllocatedOf(h.mem, B) = S \cup {heap_listp} /\ heap_listp \notin S
  BY <1>1, <1>4 DEF AllocatedOf
<1>6. WellFormed(h, B, S)
  BY <1>1, <1>2, <1>5 DEF WellFormed
<1>7. ASSUME NEW p \in S PROVE PayloadWords(s[p]) + 2 <= Size(h.mem, p)
  <2>1. /\ p \in Nat /\ Size(h.mem, p) \in Nat
        /\ FTRP(h.mem, p) = p + Size(h.mem, p) - 2
    BY <1>6, HeldFacts
  <2>2. PayloadWords(s[p]) \in Nat /\ PayloadWords(s[p]) > 0
    BY <1>2, PayloadFacts
  <2>3. p + PayloadWords(s[p]) - 1 \in Payload(p, s[p])
    BY <2>1, <2>2 DEF Payload
  <2>4. p + PayloadWords(s[p]) - 1 \in p .. FTRP(h.mem, p) - 1
    BY <1>2, <2>3
  <2> QED BY <2>1, <2>2, <2>4
<1> QED BY <1>2, <1>3, <1>6, <1>7 DEF Tidy, B, S

(* Before and after a step, the invariant is StateOK.                      *)
LEMMA InvariantIs ==
  /\ IInv <=> StateOK(heap, sizes) /\ stopped \in BOOLEAN
  /\ IInv' <=> StateOK(heap', sizes') /\ stopped' \in BOOLEAN
<1>1. IInv <=> StateOK(heap, sizes) /\ stopped \in BOOLEAN
  BY DEF IInv, StateOK, TypeOK, HeapTiles, BlocksTile, FreeBlocksApart, Blocks, BlocksIn
<1>2. IInv' <=> StateOK(heap', sizes') /\ stopped' \in BOOLEAN
  BY DEF IInv, StateOK, TypeOK, HeapTiles, BlocksTile, FreeBlocksApart, Blocks, BlocksIn
<1> QED BY <1>1, <1>2

(* mm_init leaves a heap in which the invariant holds.                     *)
LEMMA InitInv == Init => IInv
<1> SUFFICES ASSUME Init PROVE IInv
  OBVIOUS
<1> DEFINE m == [a \in Addresses |-> 0]
<1>1. heap = mm_init(m) /\ sizes = <<>> /\ stopped = FALSE
  BY DEF Init
<1>2. m \in [Addresses -> Nat]
  OBVIOUS
<1> HIDE DEF m
<1>3. PICK D : WellFormed(heap, D, {}) /\ heap.brk > 4
  BY <1>1, <1>2, Inits
<1>4. DOMAIN sizes = {}
  BY <1>1
<1>5. Tidy(heap, sizes, D)
  BY <1>3, <1>4 DEF Tidy
<1>6. StateOK(heap, sizes)
  BY <1>4, <1>5, StateOfGood
<1> QED BY <1>1, <1>6, InvariantIs

----------------------------------------------------------------------------
(* The three calls that succeed, and what else a step may be.              *)

\* mm_malloc has returned a block.
Got(size, d, r) ==
  /\ r = mm_malloc(heap, size) /\ r.bp # NULL
  /\ heap' = [r.heap EXCEPT !.mem = Filled(r.heap.mem, Payload(r.bp, size), d)]
  /\ sizes' = Sized(sizes, r.bp, size)

\* mm_free has released one.
Released(p) == heap' = mm_free(heap, p) /\ sizes' = Unsized(sizes, p)

\* mm_realloc has moved one.
Moved(p, size, d, r) ==
  /\ r = mm_realloc(heap, p, size) /\ r.bp # NULL
  /\ heap' = [r.heap EXCEPT !.mem = Filled(r.heap.mem,
                r.bp + PayloadWords(sizes[p]) .. r.bp + PayloadWords(size) - 1, d)]
  /\ sizes' = Sized(Unsized(sizes, p), r.bp, size)

Calls == \/ \E size \in Requests, d \in Fills : \E r : Got(size, d, r)
         \/ \E p \in DOMAIN sizes : Released(p)
         \/ \E p \in DOMAIN sizes, size \in Requests, d \in Fills :
              \E r : Moved(p, size, d, r)

CallStep == ~ stopped /\ Calls /\ UNCHANGED stopped

ExitStep == ~ stopped /\ stopped' = TRUE /\ UNCHANGED <<heap, sizes>>

(* Every step is a call that succeeds, the exit, or nothing.               *)
LEMMA NextIs == [Next]_vars => CallStep \/ ExitStep \/ UNCHANGED vars
<1>1. ASSUME NEW size \in Requests, NEW d \in Fills, Malloc(size, d)
      PROVE  CallStep \/ UNCHANGED vars
  <2> DEFINE r == mm_malloc(heap, size)
  <2>1. CASE r.bp = NULL
    BY <1>1, <2>1 DEF Malloc, vars
  <2>2. CASE r.bp # NULL
    <3>1. /\ ~ stopped /\ UNCHANGED stopped
          /\ heap' = [r.heap EXCEPT !.mem = Filled(r.heap.mem, Payload(r.bp, size), d)]
          /\ sizes' = Sized(sizes, r.bp, size)
      BY <1>1, <2>2 DEF Malloc
    <3>2. Got(size, d, r)
      BY <2>2, <3>1 DEF Got
    <3> HIDE DEF r
    <3>3. Calls
      BY <3>2 DEF Calls
    <3> QED BY <3>1, <3>3 DEF CallStep
  <2> QED BY <2>1, <2>2
<1>2. ASSUME NEW p \in DOMAIN sizes, Free(p)
      PROVE  CallStep
  <2>1. Released(p)
    BY <1>2 DEF Free, Released
  <2>2. Calls
    BY <2>1 DEF Calls
  <2> QED BY <1>2, <2>2 DEF Free, CallStep
<1>3. ASSUME NEW p \in DOMAIN sizes, NEW size \in Requests, NEW d \in Fills,
             Realloc(p, size, d)
      PROVE  CallStep \/ ExitStep
  <2> DEFINE r == mm_realloc(heap, p, size)
  <2>1. CASE r.bp = NULL
    BY <1>3, <2>1 DEF Realloc, ExitStep
  <2>2. CASE r.bp # NULL
    <3>1. /\ ~ stopped /\ UNCHANGED stopped
          /\ heap' = [r.heap EXCEPT !.mem = Filled(r.heap.mem,
                r.bp + PayloadWords(sizes[p]) .. r.bp + PayloadWords(size) - 1, d)]
          /\ sizes' = Sized(Unsized(sizes, p), r.bp, size)
      BY <1>3, <2>2 DEF Realloc
    <3>2. Moved(p, size, d, r)
      BY <2>2, <3>1 DEF Moved
    <3> HIDE DEF r
    <3>3. Calls
      BY <3>2 DEF Calls
    <3> QED BY <3>1, <3>3 DEF CallStep
  <2> QED BY <2>1, <2>2
<1>4. CASE Stopped
  BY <1>4 DEF Stopped
<1>5. CASE UNCHANGED vars
  BY <1>5
<1> QED BY <1>1, <1>2, <1>3, <1>4, <1>5 DEF Next

(* Every step keeps the invariant.                                         *)
LEMMA StepInv == IInv /\ [Next]_vars => IInv'
<1> SUFFICES ASSUME IInv, [Next]_vars PROVE IInv'
  OBVIOUS
<1> DEFINE B == BlocksIn(heap)
           Asked(s) == \A p \in DOMAIN s : s[p] \in Requests \ {0}
<1>1. StateOK(heap, sizes) /\ stopped \in BOOLEAN
  BY InvariantIs
<1>2. Tidy(heap, sizes, B) /\ Asked(sizes)
  BY <1>1, GoodOfState DEF StateOK
<1> HIDE DEF B
<1>3. ASSUME NEW size \in Requests, NEW d \in Fills, NEW r, Got(size, d, r)
      PROVE  StateOK(heap', sizes')
  <2>1. /\ r = mm_malloc(heap, size) /\ r.bp # NULL
        /\ heap' = [r.heap EXCEPT !.mem = Filled(r.heap.mem, Payload(r.bp, size), d)]
        /\ sizes' = Sized(sizes, r.bp, size)
    BY <1>3 DEF Got
  <2>2. size \in Nat /\ d \in Nat
    BY Constants
  <2>3. Gets(heap, sizes, r.bp, size, d, heap')
    BY <1>2, <2>1, <2>2, MallocStep
  <2>4. PICK D : Tidy(heap', sizes', D)
    BY <2>1, <2>3 DEF Gets
  <2>5. Asked(sizes')
    BY <1>2, <2>1, <2>3 DEF Gets, Sized
  <2> QED BY <2>4, <2>5, StateOfGood
<1>4. ASSUME NEW p \in DOMAIN sizes, Released(p)
      PROVE  StateOK(heap', sizes')
  <2>1. \E D : Tidy(heap', sizes', D)
    BY <1>2, <1>4, FreeStep DEF Released
  <2>2. Asked(sizes')
    BY <1>2, <1>4 DEF Released, Unsized
  <2> QED BY <2>1, <2>2, StateOfGood
<1>5. ASSUME NEW p \in DOMAIN sizes, NEW size \in Requests, NEW d \in Fills, NEW r,
             Moved(p, size, d, r)
      PROVE  StateOK(heap', sizes')
  <2> DEFINE W == r.bp + PayloadWords(sizes[p]) .. r.bp + PayloadWords(size) - 1
  <2>1. /\ r = mm_realloc(heap, p, size) /\ r.bp # NULL
        /\ heap' = [r.heap EXCEPT !.mem = Filled(r.heap.mem, W, d)]
        /\ sizes' = Sized(Unsized(sizes, p), r.bp, size)
    BY <1>5 DEF Moved
  <2>2. W = r.bp + PayloadWords(sizes[p]) .. r.bp + PayloadWords(size) - 1
    OBVIOUS
  <2> HIDE DEF W
  <2>3. size \in Nat /\ d \in Nat
    BY Constants
  <2>4. MovesTo(heap, sizes, p, r.bp, size, d, heap')
    BY <1>2, <2>1, <2>2, <2>3, ReallocStep
  <2>5. \E D : Tidy(heap', sizes', D)
    BY <2>1, <2>4 DEF MovesTo
  <2>6. Asked(sizes')
    BY <1>2, <2>1, <2>4 DEF MovesTo, Sized, Unsized
  <2> QED BY <2>5, <2>6, StateOfGood
<1>6. CASE CallStep
  <2>1. StateOK(heap', sizes')
    BY <1>3, <1>4, <1>5, <1>6 DEF CallStep, Calls
  <2> QED BY <1>1, <1>6, <2>1, InvariantIs DEF CallStep
<1>7. CASE ExitStep
  <2>1. StateOK(heap', sizes')
    BY <1>1, <1>7 DEF ExitStep
  <2> QED BY <1>7, <2>1, InvariantIs DEF ExitStep
<1>8. CASE UNCHANGED vars
  <2>1. StateOK(heap', sizes') /\ stopped' \in BOOLEAN
    BY <1>1, <1>8 DEF vars
  <2> QED BY <2>1, InvariantIs
<1> QED BY <1>6, <1>7, <1>8, NextIs

(* The heap of mm-firstfit.c is well formed for every caller: its blocks   *)
(* tile it, both tags of each agree, and the walk from the prologue by the *)
(* sizes in the headers finds every block and ends at the break.           *)
THEOREM Invariance == Spec => []IInv
<1>1. Init => IInv
  BY InitInv
<1>2. IInv /\ [Next]_vars => IInv'
  BY StepInv
<1> QED BY <1>1, <1>2, PTL DEF Spec

(* The heap checker never complains, the allocated blocks are those of the *)
(* caller's payloads, each with room for its own, and free neighbours have *)
(* been merged.                                                            *)
THEOREM HeapAlwaysTiles == Spec => []HeapTiles
<1>1. IInv => HeapTiles
  BY DEF IInv
<1> QED BY <1>1, Invariance, PTL

----------------------------------------------------------------------------
(* mm-firstfit.c implements Allocator.  c is what the caller finds in its  *)
(* payloads before a step and e after it.                                  *)

\* Payloads are in blocks of their own.
LEMMA PayloadsApart ==
  ASSUME NEW h, NEW s, NEW B, Tidy(h, s, B), NEW p \in DOMAIN s, NEW q \in DOMAIN s, p # q
  PROVE  Payload(p, s[p]) \cap Payload(q, s[q]) = {}
<1> DEFINE z(b) == Size(h.mem, b)
           w(b) == PayloadWords(s[b])
<1>1. ASSUME NEW b \in DOMAIN s
      PROVE  /\ b \in B /\ b \in Nat /\ z(b) \in Nat /\ w(b) \in Nat /\ w(b) + 2 <= z(b)
             /\ NEXT_BLKP(h.mem, b) = b + z(b)
  <2>1. b \in B /\ b \in Nat /\ Size(h.mem, b) \in Nat /\ Tiled(h.mem, h.brk, B)
    BY HeldFacts DEF Tidy
  <2>2. s[b] \in Nat \ {0} /\ PayloadWords(s[b]) + 2 <= Size(h.mem, b)
    BY DEF Tidy
  <2>3. PayloadWords(s[b]) \in Nat
    BY <2>2, PayloadFacts
  <2> QED BY <2>1, <2>2, <2>3 DEF NEXT_BLKP
<1>2. \A b \in B, c \in B : b < c => NEXT_BLKP(h.mem, b) <= c
  BY DEF Tidy, WellFormed, Tiled
<1>3. Payload(p, s[p]) = p .. p + w(p) - 1 /\ Payload(q, s[q]) = q .. q + w(q) - 1
  BY DEF Payload
<1>4. (p < q => p + z(p) <= q) /\ (q < p => q + z(q) <= p)
  BY <1>1, <1>2
<1>5. /\ p \in Nat /\ z(p) \in Nat /\ w(p) \in Nat /\ w(p) + 2 <= z(p)
      /\ q \in Nat /\ z(q) \in Nat /\ w(q) \in Nat /\ w(q) + 2 <= z(q)
  BY <1>1
<1> HIDE DEF z, w
<1>6. ASSUME NEW a, a \in Payload(p, s[p]), a \in Payload(q, s[q])
      PROVE  FALSE
  <2>1. a \in Int /\ p <= a /\ a <= p + w(p) - 1 /\ q <= a /\ a <= q + w(q) - 1
    BY <1>3, <1>5, <1>6
  <2>2. p < q \/ q < p
    BY <1>5
  <2> QED BY <1>4, <1>5, <2>1, <2>2
<1> QED BY <1>6

\* The region of a payload is in the heap and apart from the others.
LEMMA RegionFits ==
  ASSUME NEW h, NEW s, NEW B, NEW p, NEW size, p \notin DOMAIN s,
         Tidy(h, Sized(s, p, size), B), NEW m
  PROVE  A!Fits(contentOf(m, s), p, PayloadWords(size))
<1> DEFINE t == Sized(s, p, size)
           c == contentOf(m, s)
           w == PayloadWords(size)
<1>1. /\ DOMAIN t = DOMAIN s \cup {p} /\ t[p] = size
      /\ \A q \in DOMAIN s : t[q] = s[q]
  BY DEF Sized
<1>2. Tidy(h, t, B) /\ p \in DOMAIN t
  BY <1>1
<1> HIDE DEF t
<1>3. \A q \in DOMAIN t : t[q] \in Nat \ {0} /\ PayloadWords(t[q]) + 2 <= Size(h.mem, q)
  BY <1>2 DEF Tidy
<1>4. w \in Nat /\ w > 0 /\ w + 2 <= Size(h.mem, p)
  BY <1>1, <1>2, <1>3, PayloadFacts
<1>5. /\ p \in Nat /\ p >= 2 /\ p % 2 = 0 /\ Size(h.mem, p) \in Nat
      /\ p + Size(h.mem, p) <= h.brk /\ h.brk \in Nat /\ h.brk <= MAX_HEAP
      /\ MAX_HEAP \in Nat
  BY <1>2, HeldFacts DEF Tidy
<1>6. Payload(p, size) = A!Region(p, w)
  BY DEF Payload, A!Region
<1>7. A!Region(p, w) \subseteq Addresses
  <2>1. p + w <= MAX_HEAP
    BY <1>4, <1>5
  <2> HIDE DEF w
  <2> QED BY <1>4, <1>5, <2>1 DEF A!Region, Addresses
<1>8. ASSUME NEW q \in DOMAIN c
      PROVE  A!Region(q, Len(c[q])) \cap A!Region(p, w) = {}
  <2>1. q \in DOMAIN s /\ c[q] = [i \in 1 .. PayloadWords(s[q]) |-> m[q + i - 1]]
    BY DEF contentOf
  <2>2. t[q] = s[q] /\ q \in DOMAIN t /\ q # p
    BY <1>1, <2>1
  <2>3. PayloadWords(s[q]) \in Nat
    BY <1>3, <2>2, PayloadFacts
  <2>4. Len(c[q]) = PayloadWords(s[q])
    BY <2>1, <2>3
  <2>5. Payload(q, t[q]) \cap Payload(p, t[p]) = {}
    BY <1>2, <2>2, PayloadsApart
  <2>6. Payload(q, s[q]) = A!Region(q, Len(c[q]))
    BY <2>4 DEF Payload, A!Region
  <2> QED BY <1>1, <1>6, <2>2, <2>5, <2>6
<1> HIDE DEF c, w
<1>9. A!Fits(c, p, w)
  BY <1>4, <1>5, <1>7, <1>8 DEF A!Fits
<1> QED BY <1>9 DEF c, w

(* The payloads T of s have the same words in memory n as in m.            *)
SamePayloads(m, n, s, T) ==
  \A q \in T : \A i \in 1 .. PayloadWords(s[q]) : n[q + i - 1] = m[q + i - 1]

(* Kept blocks keep their payloads.                                        *)
LEMMA PayloadsKept ==
  ASSUME NEW h, NEW s, NEW B, Tidy(h, s, B), NEW n, NEW T \in SUBSET DOMAIN s,
         Kept(h.mem, n, T)
  PROVE  SamePayloads(h.mem, n, s, T)
<1> SUFFICES ASSUME NEW q \in T, NEW i \in 1 .. PayloadWords(s[q])
             PROVE  n[q + i - 1] = h.mem[q + i - 1]
  BY DEF SamePayloads
<1>1. /\ q \in Nat /\ Size(h.mem, q) \in Nat /\ HDRP(q) = q - 1
      /\ FTRP(h.mem, q) = q + Size(h.mem, q) - 2
  <2>1. q \in DOMAIN s
    OBVIOUS
  <2> QED BY <2>1, HeldFacts DEF Tidy
<1>2. s[q] \in Nat \ {0} /\ PayloadWords(s[q]) + 2 <= Size(h.mem, q)
  BY DEF Tidy
<1>3. PayloadWords(s[q]) \in Nat
  BY <1>2, PayloadFacts
<1>4. q + i - 1 \in HDRP(q) .. FTRP(h.mem, q)
  BY <1>1, <1>2, <1>3
<1> QED BY <1>4 DEF Kept

\* A payload more, and one less.
LEMMA WithContent ==
  ASSUME NEW m, NEW n, NEW s, NEW p, NEW size, p \notin DOMAIN s,
         SamePayloads(m, n, s, DOMAIN s)
  PROVE  contentOf(n, Sized(s, p, size)) =
           A!With(contentOf(m, s), p, [i \in 1 .. PayloadWords(size) |-> n[p + i - 1]])
<1> DEFINE t == Sized(s, p, size)
           data == [i \in 1 .. PayloadWords(size) |-> n[p + i - 1]]
           c == contentOf(m, s)
<1>1. /\ DOMAIN t = DOMAIN s \cup {p} /\ t[p] = size
      /\ \A q \in DOMAIN s : t[q] = s[q]
  BY DEF Sized
<1>2. DOMAIN c = DOMAIN s
      /\ \A q \in DOMAIN s : c[q] = [i \in 1 .. PayloadWords(s[q]) |-> m[q + i - 1]]
  BY DEF contentOf
<1> HIDE DEF t, c
<1>3. ASSUME NEW q \in DOMAIN s \cup {p}
      PROVE  [i \in 1 .. PayloadWords(t[q]) |-> n[q + i - 1]] = IF q = p THEN data ELSE c[q]
  <2>1. CASE q = p
    BY <1>1, <2>1
  <2>2. CASE q # p
    <3>1. q \in DOMAIN s /\ t[q] = s[q]
      BY <1>1, <2>2
    <3>2. [i \in 1 .. PayloadWords(s[q]) |-> n[q + i - 1]] = c[q]
      BY <1>2, <3>1 DEF SamePayloads
    <3> QED BY <2>2, <3>1, <3>2
  <2> QED BY <2>1, <2>2
<1> HIDE DEF data
<1>4. contentOf(n, t) = [q \in DOMAIN s \cup {p} |-> IF q = p THEN data ELSE c[q]]
  <2>1. contentOf(n, t) = [q \in DOMAIN s \cup {p} |->
                             [i \in 1 .. PayloadWords(t[q]) |-> n[q + i - 1]]]
    BY <1>1 DEF contentOf
  <2> QED BY <1>3, <2>1
<1>5. A!With(c, p, data) = [q \in DOMAIN s \cup {p} |-> IF q = p THEN data ELSE c[q]]
  BY <1>2 DEF A!With
<1> QED BY <1>4, <1>5 DEF t, c, data

(* A freed payload takes its data with it.                                 *)
LEMMA WithoutContent ==
  ASSUME NEW m, NEW n, NEW s, NEW p,
         SamePayloads(m, n, s, DOMAIN s \ {p})
  PROVE  contentOf(n, Unsized(s, p)) = A!Without(contentOf(m, s), p)
<1> DEFINE t == Unsized(s, p)
           c == contentOf(m, s)
<1>1. DOMAIN t = DOMAIN s \ {p} /\ \A q \in DOMAIN s \ {p} : t[q] = s[q]
  BY DEF Unsized
<1>2. DOMAIN c = DOMAIN s
      /\ \A q \in DOMAIN s : c[q] = [i \in 1 .. PayloadWords(s[q]) |-> m[q + i - 1]]
  BY DEF contentOf
<1> HIDE DEF t, c
<1>3. ASSUME NEW q \in DOMAIN s \ {p}
      PROVE  [i \in 1 .. PayloadWords(t[q]) |-> n[q + i - 1]] = c[q]
  BY <1>1, <1>2 DEF SamePayloads
<1>4. contentOf(n, t) = [q \in DOMAIN s \ {p} |-> c[q]]
  <2>1. contentOf(n, t) = [q \in DOMAIN s \ {p} |->
                             [i \in 1 .. PayloadWords(t[q]) |-> n[q + i - 1]]]
    BY <1>1 DEF contentOf
  <2> QED BY <1>3, <2>1
<1>5. A!Without(c, p) = [q \in DOMAIN s \ {p} |-> c[q]]
  BY <1>2 DEF A!Without
<1> QED BY <1>4, <1>5 DEF t, c

(* The steps of the allocator that move the contents from c to e.          *)
Mallocked(c, e) ==
  \E p \in DOMAIN e \ DOMAIN c, sz \in Requests, f \in Fills :
    /\ A!Fits(c, p, A!Words(sz))
    /\ e = A!With(c, p, [i \in 1 .. A!Words(sz) |-> f])

Reallocked(c, e) ==
  \E x \in DOMAIN c, q \in DOMAIN e, sz \in Requests, f \in Fills :
    /\ A!Fits(A!Without(c, x), q, A!Words(sz))
    /\ e = A!With(A!Without(c, x), q,
                  [i \in 1 .. A!Words(sz) |-> IF i <= Len(c[x]) THEN c[x][i] ELSE f])

(* The step of the allocator that each call is.                            *)
LEMMA GotIsMalloc ==
  ASSUME NEW h, NEW s, NEW B, Tidy(h, s, B), NEW size \in Requests, NEW d \in Fills,
         NEW r, r = mm_malloc(h, size), r.bp # NULL,
         NEW g, g = [r.heap EXCEPT !.mem = Filled(r.heap.mem, Payload(r.bp, size), d)],
         NEW c, c = contentOf(h.mem, s),
         NEW e, e = contentOf(g.mem, Sized(s, r.bp, size))
  PROVE  Mallocked(c, e)
<1> DEFINE p == r.bp
<1>1. /\ \E D : Tidy(g, Sized(s, p, size), D)
      /\ size # 0 /\ p \notin DOMAIN s /\ Kept(h.mem, g.mem, DOMAIN s)
      /\ \A a \in Payload(p, size) : g.mem[a] = d
  <2>1. Gets(h, s, p, size, d, g)
    <3>1. size \in Nat /\ d \in Nat
      BY Constants
    <3> QED BY <3>1, MallocStep
  <2> QED BY <2>1 DEF Gets
<1> HIDE DEF p
<1>2. A!Fits(c, p, PayloadWords(size))
  BY <1>1, RegionFits
<1>3. SamePayloads(h.mem, g.mem, s, DOMAIN s)
  BY <1>1, PayloadsKept
<1>4. e = A!With(c, p, [i \in 1 .. PayloadWords(size) |-> g.mem[p + i - 1]])
  BY <1>1, <1>3, WithContent DEF p
<1>5. [i \in 1 .. PayloadWords(size) |-> g.mem[p + i - 1]] = [i \in 1 .. PayloadWords(size) |-> d]
  <2>1. p \in Nat /\ PayloadWords(size) \in Nat
    <3>1. PICK D : Tidy(g, Sized(s, p, size), D)
      BY <1>1
    <3>2. p \in DOMAIN Sized(s, p, size)
      BY DEF Sized
    <3>3. p \in Nat
      BY <3>1, <3>2, HeldFacts DEF Tidy
    <3>4. PayloadWords(size) \in Nat
      BY <1>1, Constants, PayloadFacts
    <3> QED BY <3>3, <3>4
  <2>2. ASSUME NEW i \in 1 .. PayloadWords(size) PROVE g.mem[p + i - 1] = d
    <3>1. p + i - 1 \in Payload(p, size)
      BY <2>1 DEF Payload
    <3> QED BY <1>1, <3>1
  <2> QED BY <2>2
<1>6. DOMAIN c = DOMAIN s /\ p \in DOMAIN e
  BY DEF contentOf, Sized, p
<1>7. A!Words(size) = PayloadWords(size)
  BY DEF A!Words, PayloadWords
<1>8. e = A!With(c, p, [i \in 1 .. PayloadWords(size) |-> d])
  BY <1>4, <1>5
<1>9. p \in DOMAIN e \ DOMAIN c
  BY <1>1, <1>6
<1>10. A!Fits(c, p, A!Words(size)) /\ e = A!With(c, p, [i \in 1 .. A!Words(size) |-> d])
  BY <1>2, <1>7, <1>8
<1> QED BY <1>9, <1>10 DEF Mallocked

(* mm_free is a Free of the allocator.                                     *)
LEMMA ReleasedIsFree ==
  ASSUME NEW h, NEW s, NEW B, Tidy(h, s, B), NEW p \in DOMAIN s
  PROVE  contentOf(mm_free(h, p).mem, Unsized(s, p)) = A!Without(contentOf(h.mem, s), p)
<1>1. Kept(h.mem, mm_free(h, p).mem, DOMAIN s \ {p})
  BY FreeStep
<1>2. SamePayloads(h.mem, mm_free(h, p).mem, s, DOMAIN s \ {p})
  BY <1>1, PayloadsKept
<1> QED BY <1>2, WithoutContent

(* mm_realloc, as long as it does not exit, is a Realloc.                  *)
LEMMA MovedIsRealloc ==
  ASSUME NEW h, NEW s, NEW B, Tidy(h, s, B), NEW p \in DOMAIN s,
         NEW size \in Requests, NEW d \in Fills,
         NEW r, r = mm_realloc(h, p, size), r.bp # NULL,
         NEW W, W = r.bp + PayloadWords(s[p]) .. r.bp + PayloadWords(size) - 1,
         NEW g, g = [r.heap EXCEPT !.mem = Filled(r.heap.mem, W, d)],
         NEW c, c = contentOf(h.mem, s),
         NEW e, e = contentOf(g.mem, Sized(Unsized(s, p), r.bp, size))
  PROVE  Reallocked(c, e)
<1> DEFINE q == r.bp
           u == Unsized(s, p)
           n == PayloadWords(size)
           old == PayloadWords(s[p])
<1>1. /\ \E D : Tidy(g, Sized(u, q, size), D)
      /\ size # 0 /\ q \notin DOMAIN s /\ Kept(h.mem, g.mem, DOMAIN s \ {p})
      /\ \A i \in Nat : i < n => g.mem[q + i] = IF i < old THEN h.mem[p + i] ELSE d
  <2>1. MovesTo(h, s, p, q, size, d, g)
    <3>1. size \in Nat /\ d \in Nat
      BY Constants
    <3> QED BY <3>1, ReallocStep
  <2> QED BY <2>1 DEF MovesTo
<1>2. DOMAIN u = DOMAIN s \ {p} /\ \A b \in DOMAIN s \ {p} : u[b] = s[b]
  BY DEF Unsized
<1>3. e = contentOf(g.mem, Sized(u, q, size))
  OBVIOUS
<1> HIDE DEF q, u
<1>4. contentOf(h.mem, u) = A!Without(c, p)
  <2>1. SamePayloads(h.mem, h.mem, s, DOMAIN s \ {p})
    BY DEF SamePayloads
  <2> QED BY <2>1, WithoutContent DEF u
<1>5. A!Fits(contentOf(h.mem, u), q, n)
  BY <1>1, <1>2, RegionFits
<1>6. SamePayloads(h.mem, g.mem, u, DOMAIN u)
  <2>1. SamePayloads(h.mem, g.mem, s, DOMAIN s \ {p})
    BY <1>1, PayloadsKept
  <2> QED BY <1>2, <2>1 DEF SamePayloads
<1>7. e = A!With(contentOf(h.mem, u), q, [i \in 1 .. n |-> g.mem[q + i - 1]])
  BY <1>1, <1>2, <1>3, <1>6, WithContent
<1>8. n \in Nat /\ old \in Nat /\ q \in Int /\ p \in Int
  <2>1. PICK D : Tidy(g, Sized(u, q, size), D)
    BY <1>1
  <2>2. q \in DOMAIN Sized(u, q, size)
    BY DEF Sized
  <2>3. q \in Nat
    BY <2>1, <2>2, HeldFacts DEF Tidy
  <2>4. p \in Nat
    BY HeldFacts DEF Tidy
  <2>5. n \in Nat
    BY <1>1, Constants, PayloadFacts
  <2>6. s[p] \in Nat \ {0}
    BY DEF Tidy
  <2>7. old \in Nat
    BY <2>6, PayloadFacts
  <2> QED BY <2>3, <2>4, <2>5, <2>7
<1>9. c[p] = [i \in 1 .. old |-> h.mem[p + i - 1]] /\ DOMAIN c = DOMAIN s
  BY DEF contentOf
<1> HIDE DEF n, old
<1>10. Len(c[p]) = old
  BY <1>8, <1>9
<1>11. [i \in 1 .. n |-> g.mem[q + i - 1]] =
       [i \in 1 .. n |-> IF i <= Len(c[p]) THEN c[p][i] ELSE d]
  <2>1. ASSUME NEW i \in 1 .. n
        PROVE  g.mem[q + i - 1] = IF i <= Len(c[p]) THEN c[p][i] ELSE d
    <3> DEFINE j == i - 1
    <3>1. /\ j \in Nat /\ j < n /\ (j < old <=> i <= old)
          /\ q + j = q + i - 1 /\ p + j = p + i - 1
      BY <1>8
    <3>2. g.mem[q + j] = IF j < old THEN h.mem[p + j] ELSE d
      BY <1>1, <3>1 DEF n, old
    <3>3. i <= old => c[p][i] = h.mem[p + i - 1]
      BY <1>8, <1>9
    <3> HIDE DEF j
    <3> QED BY <1>10, <3>1, <3>2, <3>3
  <2> QED BY <2>1
<1>12. q \in DOMAIN e
  BY <1>3 DEF contentOf, Sized
<1>13. A!Words(size) = n
  BY DEF A!Words, PayloadWords, n
<1>14. p \in DOMAIN c
  BY <1>9
<1>15. /\ A!Fits(A!Without(c, p), q, A!Words(size))
       /\ e = A!With(A!Without(c, p), q,
                     [i \in 1 .. A!Words(size) |->
                        IF i <= Len(c[p]) THEN c[p][i] ELSE d])
  BY <1>4, <1>5, <1>7, <1>11, <1>13
<1> QED BY <1>12, <1>14, <1>15 DEF Reallocked

(* The initial state, and every step: a call that succeeds is one of the   *)
(* allocator's, a request that fails leaves everything, and the exit of    *)
(* mm_realloc stops the program.                                           *)
LEMMA InitRefines == Init => A!Init
<1> SUFFICES ASSUME Init PROVE A!Init
  OBVIOUS
<1>1. sizes = <<>> /\ stopped = FALSE
  BY DEF Init
<1>2. contentOf(heap.mem, sizes) = <<>>
  BY <1>1 DEF contentOf
<1> QED BY <1>1, <1>2 DEF A!Init

(* Each step of mm-firstfit.c is one of the allocator, or stutters.        *)
LEMMA StepRefines == IInv /\ [Next]_vars => [A!Next]_(A!vars)
<1> SUFFICES ASSUME IInv, [Next]_vars PROVE [A!Next]_(A!vars)
  OBVIOUS
<1> DEFINE B == BlocksIn(heap)
           c == contentOf(heap.mem, sizes)
           e == contentOf(heap.mem, sizes)'
<1>1. Tidy(heap, sizes, B)
  BY InvariantIs, GoodOfState
<1> HIDE DEF B
<1>2. e = contentOf(heap'.mem, sizes')
  OBVIOUS
<1>3. ASSUME NEW size \in Requests, NEW d \in Fills, NEW r, Got(size, d, r),
             UNCHANGED stopped
      PROVE  A!Malloc
  <2>1. Mallocked(c, e)
    <3>1. /\ r = mm_malloc(heap, size) /\ r.bp # NULL
          /\ heap' = [r.heap EXCEPT !.mem = Filled(r.heap.mem, Payload(r.bp, size), d)]
          /\ e = contentOf(heap'.mem, Sized(sizes, r.bp, size))
      BY <1>2, <1>3 DEF Got
    <3>2. c = contentOf(heap.mem, sizes)
      OBVIOUS
    <3> HIDE DEF c, e
    <3> QED BY <1>1, <3>1, <3>2, GotIsMalloc
  <2> QED BY <1>3, <2>1 DEF A!Malloc, Mallocked
<1>4. ASSUME NEW p \in DOMAIN sizes, Released(p), UNCHANGED stopped
      PROVE  A!Free
  <2>1. e = A!Without(c, p)
    <3>1. e = contentOf(mm_free(heap, p).mem, Unsized(sizes, p))
      BY <1>2, <1>4 DEF Released
    <3> QED BY <1>1, <3>1, ReleasedIsFree
  <2>2. p \in DOMAIN c
    BY DEF contentOf
  <2> QED BY <1>4, <2>1, <2>2 DEF A!Free
<1>5. ASSUME NEW p \in DOMAIN sizes, NEW size \in Requests, NEW d \in Fills, NEW r,
             Moved(p, size, d, r), UNCHANGED stopped
      PROVE  A!Realloc
  <2> DEFINE W == r.bp + PayloadWords(sizes[p]) .. r.bp + PayloadWords(size) - 1
  <2>1. Reallocked(c, e)
    <3>1. /\ r = mm_realloc(heap, p, size) /\ r.bp # NULL
          /\ heap' = [r.heap EXCEPT !.mem = Filled(r.heap.mem, W, d)]
          /\ e = contentOf(heap'.mem, Sized(Unsized(sizes, p), r.bp, size))
      BY <1>2, <1>5 DEF Moved
    <3>2. /\ c = contentOf(heap.mem, sizes)
          /\ W = r.bp + PayloadWords(sizes[p]) .. r.bp + PayloadWords(size) - 1
      OBVIOUS
    <3> HIDE DEF c, e, W
    <3> QED BY <1>1, <3>1, <3>2, MovedIsRealloc
  <2> QED BY <1>5, <2>1 DEF A!Realloc, Reallocked
<1>6. CASE CallStep
  <2>1. A!Malloc \/ A!Free \/ A!Realloc
    BY <1>3, <1>4, <1>5, <1>6 DEF CallStep, Calls
  <2>2. ~ stopped
    BY <1>6 DEF CallStep
  <2> QED BY <2>1, <2>2 DEF A!Next
<1>7. CASE ExitStep
  <2>1. ~ stopped /\ stopped' = TRUE /\ c' = c
    BY <1>7 DEF ExitStep
  <2> QED BY <2>1 DEF A!Next, A!Stop
<1>8. CASE UNCHANGED vars
  <2>1. c' = c /\ stopped' = stopped
    BY <1>8 DEF vars
  <2> QED BY <2>1 DEF A!vars
<1> QED BY <1>6, <1>7, <1>8, NextIs

(* What mm-firstfit.c promises its caller: payloads never overlap, neither *)
(* tags nor other payloads are written over the caller's data, and         *)
(* mm_realloc moves the data it has room for.                              *)
THEOREM RefinesAllocator == Spec => ImplementsAllocator
<1>1. Init => A!Init
  BY InitRefines
<1>2. IInv /\ [Next]_vars => [A!Next]_(A!vars)
  BY StepRefines
<1> QED BY <1>1, <1>2, Invariance, PTL DEF Spec, ImplementsAllocator, A!Spec

----------------------------------------------------------------------------
(* Fcyc: words and double words.                                           *)

\* The high word of a double word is a word.
LEMMA DivRange ==
  ASSUME NEW n \in Nat \ {0}, NEW a \in 0 .. n * n - 1
  PROVE  a \div n \in 0 .. n - 1
OBVIOUS

\* A double word holds words of any size.
LEMMA ClockConstants ==
  /\ WORD \in Nat \ {0} /\ TICK \in Nat \ {0}
  /\ Span = WORD * WORD /\ Span \in Nat \ {0} /\ WORD <= Span
<1>1. WORD \in Nat \ {0} /\ TICK \in Nat \ {0}
  BY ClockAssumption
<1>2. WORD * WORD \in Nat \ {0} /\ WORD <= WORD * WORD
  BY <1>1
<1> QED BY <1>1, <1>2 DEF Span

(* The double word subtraction: what get_counter computes from the words   *)
(* of two counts is their difference modulo Span.                          *)
LEMMA DoubleWord ==
  ASSUME NEW h \in 0 .. WORD - 1, NEW l \in 0 .. WORD - 1,
         NEW g \in 0 .. WORD - 1, NEW k \in 0 .. WORD - 1,
         NEW lo, lo = (l - k) % WORD,
         NEW borrow, borrow = (IF lo > l THEN 1 ELSE 0),
         NEW hi, hi = (h - g - borrow) % WORD,
         NEW e \in 0 .. Span - 1, h * WORD + l = (g * WORD + k + e) % Span
  PROVE  hi * WORD + lo = e
<1>1. WORD \in Nat \ {0} /\ Span = WORD * WORD /\ Span \in Nat \ {0}
  BY ClockConstants
<1>2. lo = IF l >= k THEN l - k ELSE l - k + WORD
  BY <1>1, ModDifference
<1>3. borrow = IF l >= k THEN 0 ELSE 1
  BY <1>1, <1>2
<1>4. \/ hi = h - g - borrow
      \/ hi = h - g - borrow + WORD
  <2>1. CASE borrow = 0
    <3>1. hi = (h - g) % WORD
      BY <2>1, <1>1
    <3> QED BY <1>1, <3>1, <2>1, ModDifference
  <2>2. CASE borrow = 1 /\ g < WORD - 1
    <3>1. g + 1 \in 0 .. WORD - 1 /\ hi = (h - (g + 1)) % WORD
      BY <2>2, <1>1
    <3>2. hi = IF h >= g + 1 THEN h - (g + 1) ELSE h - (g + 1) + WORD
      BY <1>1, <3>1, ModDifference
    <3> QED BY <1>1, <3>2, <2>2
  <2>3. CASE borrow = 1 /\ g = WORD - 1
    <3>1. h - g - borrow = (-1) * WORD + h
      <4>1. h - g - borrow = h - WORD /\ (-1) * WORD = - WORD
        BY <2>3, <1>1
      <4> QED BY <1>1, <4>1
    <3>2. hi = h
      BY <1>1, <3>1, ModUnique
    <3> QED BY <1>1, <3>1, <3>2
  <2> QED BY <1>1, <1>3, <2>1, <2>2, <2>3
<1>5. hi \in 0 .. WORD - 1 /\ lo \in 0 .. WORD - 1
  <2>1. h - g - borrow \in Int
    BY <1>1, <1>3
  <2>2. hi \in 0 .. WORD - 1
    BY <1>1, <2>1, ModParts
  <2> QED BY <1>1, <1>2, <2>2
<1> DEFINE hW == h * WORD
           gW == g * WORD
           iW == hi * WORD
           bW == borrow * WORD
<1>6. hW \in Nat /\ gW \in Nat /\ iW \in Nat /\ iW <= Span - WORD
      /\ bW = IF l >= k THEN 0 ELSE WORD
  <2>1. hi * WORD <= (WORD - 1) * WORD
    BY <1>1, <1>5
  <2>2. (WORD - 1) * WORD = WORD * WORD - WORD
    BY <1>1
  <2> QED BY <1>1, <1>3, <1>5, <2>1, <2>2
<1>7. iW = hW - gW - bW \/ iW = hW - gW - bW + Span
  BY <1>1, <1>3, <1>4, <1>5
<1>8. iW + lo = (hW + l) - (gW + k) \/ iW + lo = (hW + l) - (gW + k) + Span
  <2> HIDE DEF hW, gW, iW, bW
  <2> QED BY <1>1, <1>2, <1>6, <1>7
<1>9. iW + lo \in 0 .. Span - 1
  <2> HIDE DEF hW, gW, iW, bW
  <2> QED BY <1>1, <1>5, <1>6
<1>10. hW + l \in 0 .. Span - 1 /\ gW + k \in 0 .. Span - 1
  <2>1. h * WORD <= (WORD - 1) * WORD /\ g * WORD <= (WORD - 1) * WORD
    BY <1>1
  <2>2. (WORD - 1) * WORD = WORD * WORD - WORD
    BY <1>1
  <2> QED BY <1>1, <1>6, <2>1, <2>2
<1>11. hW + l = gW + k + e \/ hW + l = gW + k + e - Span
  <2> HIDE DEF hW, gW
  <2>1. gW + k + e \in 0 .. 2 * Span - 1
    BY <1>1, <1>10
  <2>2. CASE gW + k + e < Span
    <3>1. gW + k + e \in 0 .. Span - 1 /\ gW + k + e = 0 * Span + (gW + k + e)
      BY <1>1, <2>1, <2>2
    <3>2. (gW + k + e) % Span = gW + k + e
      BY <1>1, <3>1, ModUnique
    <3> QED BY <3>2 DEF hW, gW
  <2>3. CASE gW + k + e >= Span
    <3> DEFINE r == gW + k + e - Span
    <3>1. r \in 0 .. Span - 1 /\ gW + k + e = 1 * Span + r
      <4>1. gW + k + e \in Int /\ 1 * Span = Span
        BY <1>1, <2>1
      <4> QED BY <1>1, <1>6, <2>1, <2>3, <4>1
    <3>2. (1 * Span + r) % Span = r
      BY <1>1, <3>1, ModUnique
    <3> QED BY <3>1, <3>2 DEF hW, gW
  <2> QED BY <1>1, <2>1, <2>2, <2>3
<1>12. iW + lo = e
  <2> HIDE DEF hW, gW, iW, bW
  <2> QED BY <1>1, <1>8, <1>9, <1>10, <1>11
<1> QED BY <1>12

\* The low word of a counter does not depend on where the counter wraps.
LEMMA ModOfMod ==
  ASSUME NEW a \in Nat
  PROVE  (a % Span) % WORD = a % WORD
<1> DEFINE q == a \div Span
           r == a % Span
           p == r \div WORD
           t == r % WORD
<1>1. WORD \in Nat \ {0} /\ Span = WORD * WORD /\ Span \in Nat \ {0}
  BY ClockConstants
<1>2. r \in 0 .. Span - 1 /\ a = q * Span + r /\ q \in Int
  <2>1. a \in Int
    OBVIOUS
  <2> QED BY <1>1, <2>1, ModParts
<1>3. t \in 0 .. WORD - 1 /\ r = p * WORD + t /\ p \in Int
  <2>1. r \in Int
    BY <1>1, <1>2
  <2> QED BY <1>1, <2>1, ModParts
<1> HIDE DEF q, r, p, t
<1>4. q * Span = (q * WORD) * WORD
  <2>1. \A x, y \in Int : x * (y * y) = (x * y) * y
    OBVIOUS
  <2> QED BY <1>1, <1>2, <2>1
<1>5. (q * WORD) * WORD + p * WORD = (q * WORD + p) * WORD /\ q * WORD + p \in Int
  <2>1. \A x, y, z \in Int : x * z + y * z = (x + y) * z
    OBVIOUS
  <2> QED BY <1>1, <1>2, <1>3, <2>1
<1>6. a = (q * WORD + p) * WORD + t
  <2> DEFINE x == (q * WORD) * WORD
             y == p * WORD
  <2>1. x \in Int /\ y \in Int /\ t \in Int
    BY <1>1, <1>2, <1>3
  <2>2. a = x + (y + t)
    BY <1>2, <1>3, <1>4
  <2>3. x + y = (q * WORD + p) * WORD
    BY <1>5
  <2> HIDE DEF x, y
  <2> QED BY <2>1, <2>2, <2>3
<1>7. a % WORD = t
  BY <1>1, <1>3, <1>5, <1>6, ModUnique
<1> QED BY <1>7 DEF t, r

(* Cycles go by: both what the whole counter and what its low word shows   *)
(* move on.                                                                *)
LEMMA LaterCounts ==
  ASSUME NEW c \in Nat, NEW start \in Nat, NEW d \in Nat
  PROVE  /\ Later(c, d) \in 0 .. Span - 1
         /\ c = start % Span => Later(c, d) = (start + d) % Span
         /\ c % WORD = start % WORD => Later(c, d) % WORD = (start + d) % WORD
<1>1. /\ WORD \in Nat \ {0} /\ Span \in Nat \ {0} /\ c + d \in Nat
      /\ c \in Int /\ start \in Int /\ d \in Int
  BY ClockConstants
<1>2. Later(c, d) = (c + d) % Span
  BY DEF Later
<1>3. Later(c, d) \in 0 .. Span - 1
  BY <1>1, <1>2, ModParts
<1>4. c = start % Span => Later(c, d) = (start + d) % Span
  BY <1>1, <1>2, ModOn
<1>5. ASSUME c % WORD = start % WORD PROVE Later(c, d) % WORD = (start + d) % WORD
  <2>1. Later(c, d) % WORD = (c + d) % WORD
    BY <1>1, <1>2, ModOfMod
  <2>2. (c + d) % WORD = ((c % WORD) + d) % WORD
    BY <1>1, ModOn
  <2>3. ((start % WORD) + d) % WORD = (start + d) % WORD
    BY <1>1, ModOn
  <2> QED BY <1>5, <2>1, <2>2, <2>3
<1> QED BY <1>3, <1>4, <1>5

----------------------------------------------------------------------------
(* The inductive invariant of a sample.                                    *)

ClockTypes ==
  /\ machine \in {"i386", "alpha", "other"} /\ counter \in 0 .. Span - 1
  /\ cyc_hi \in 0 .. WORD - 1 /\ cyc_lo \in 0 .. WORD - 1
  /\ tms_utime \in Nat /\ start_tick \in Nat /\ cyc_per_tick \in {0, TICK, TICK + 1}

SampleTypes ==
  /\ step \in {"idle", "clear", "times", "start", "run", "get", "stop", "exit"}
  /\ compensate \in BOOLEAN /\ samples \in Seq(Int) /\ time \in Int
  /\ took \in Nat /\ inside \in Nat /\ around \in Nat

\* The counter has gone on by Elapsed since start_counter.
Counting ==
  step \in {"run", "get"} =>
    /\ machine = "i386" => counter = (cyc_hi * WORD + cyc_lo + Elapsed) % Span
    /\ machine = "alpha" => cyc_hi = 0 /\ counter % WORD = (cyc_lo + Elapsed) % WORD
    /\ machine # "other"

\* Nothing is counted before the function runs.
NotYet ==
  /\ step \in {"times", "start", "run"} => took = 0
  /\ step \in {"times", "start"} => inside = 0
  /\ step = "times" => around = 0
  /\ step \in {"times", "stop"} => compensate

\* times sees the interrupts of the sample, those at its edges too.
Ticks ==
  compensate /\ step \in {"start", "run", "get", "stop"} =>
    tms_utime = start_tick + around + inside

\* The counter can hold what is counted.
Holds == \/ machine = "i386" /\ Elapsed < Span
         \/ machine = "alpha" /\ cyc_lo + Elapsed < WORD

Counted == step = "stop" /\ Holds => time = Elapsed

SampleInv == ClockTypes /\ SampleTypes /\ Counting /\ NotYet /\ Ticks /\ Counted

\* What has gone by is a number of cycles.
LEMMA ElapsedType ==
  ASSUME SampleTypes PROVE Elapsed \in Nat
BY ClockConstants DEF Elapsed, SampleTypes

\* Both words of the counter are words.
LEMMA WordsType ==
  ASSUME ClockTypes PROVE Lo \in 0 .. WORD - 1 /\ Hi \in 0 .. WORD - 1
<1>1. WORD \in Nat \ {0} /\ Span = WORD * WORD
  BY ClockConstants
<1>2. counter \in Int /\ counter \in 0 .. WORD * WORD - 1
  BY <1>1 DEF ClockTypes
<1>3. counter % WORD \in 0 .. WORD - 1 /\ 0 \in 0 .. WORD - 1
  BY <1>1, <1>2, ModParts
<1>4. counter \div WORD \in 0 .. WORD - 1
  BY <1>1, <1>2, DivRange
<1> QED BY <1>3, <1>4 DEF Lo, Hi

(* get_counter returns a number, and the elapsed cycles when they fit.     *)
LEMMA GetCounterRight ==
  ASSUME ClockTypes, SampleTypes
  PROVE  /\ get_counter \in Int
         /\ Counting /\ step = "get" /\ Holds => get_counter = Elapsed
<1> DEFINE lo == (Lo - cyc_lo) % WORD
           borrow == IF lo > Lo THEN 1 ELSE 0
           hi == (Hi - cyc_hi - borrow) % WORD
<1>1. WORD \in Nat \ {0} /\ Span = WORD * WORD /\ Span \in Nat \ {0} /\ WORD <= Span
  BY ClockConstants
<1>2. get_counter = hi * WORD + lo
  BY DEF get_counter
<1>3. /\ counter \in 0 .. Span - 1 /\ cyc_hi \in 0 .. WORD - 1 /\ cyc_lo \in 0 .. WORD - 1
      /\ Elapsed \in Nat
  BY ElapsedType DEF ClockTypes
<1>4. Lo \in 0 .. WORD - 1 /\ Hi \in 0 .. WORD - 1
  BY WordsType
<1>5. lo \in 0 .. WORD - 1 /\ hi \in 0 .. WORD - 1
  <2>1. Lo - cyc_lo \in Int /\ Hi - cyc_hi - borrow \in Int
    BY <1>1, <1>3, <1>4
  <2> HIDE DEF borrow
  <2> QED BY <1>1, <2>1, ModParts
<1>6. get_counter \in Int
  BY <1>1, <1>2, <1>5
<1>7. ASSUME Counting, step = "get", machine = "i386", Elapsed < Span
      PROVE  get_counter = Elapsed
  <2>1. counter = (cyc_hi * WORD + cyc_lo + Elapsed) % Span
    BY <1>7 DEF Counting
  <2>2. counter = Hi * WORD + Lo
    <3>1. counter \in Int
      BY <1>1, <1>3
    <3> QED BY <1>1, <1>7, <3>1, ModParts DEF Hi, Lo
  <2>3. Elapsed \in 0 .. Span - 1
    BY <1>1, <1>3, <1>7
  <2>4. Hi * WORD + Lo = (cyc_hi * WORD + cyc_lo + Elapsed) % Span
    BY <2>1, <2>2
  <2>5. hi * WORD + lo = Elapsed
    BY <1>3, <1>4, <2>3, <2>4, DoubleWord
  <2> QED BY <1>2, <2>5
<1>8. ASSUME Counting, step = "get", machine = "alpha", cyc_lo + Elapsed < WORD
      PROVE  get_counter = Elapsed
  <2>1. cyc_hi = 0 /\ Hi = 0 /\ Lo = (cyc_lo + Elapsed) % WORD
    BY <1>8 DEF Counting, Hi, Lo
  <2>2. Lo = cyc_lo + Elapsed
    <3>1. cyc_lo + Elapsed \in 0 .. WORD - 1 /\ cyc_lo + Elapsed = 0 * WORD + (cyc_lo + Elapsed)
      BY <1>1, <1>3, <1>8
    <3>2. (0 * WORD + (cyc_lo + Elapsed)) % WORD = cyc_lo + Elapsed
      BY <1>1, <3>1, ModUnique
    <3> QED BY <2>1, <3>1, <3>2
  <2>3. lo = Elapsed
    <3>1. Elapsed \in 0 .. WORD - 1 /\ Lo - cyc_lo = Elapsed /\ Elapsed = 0 * WORD + Elapsed
      BY <1>1, <1>3, <1>8, <2>2
    <3>2. (0 * WORD + Elapsed) % WORD = Elapsed
      BY <1>1, <3>1, ModUnique
    <3> QED BY <3>1, <3>2
  <2>4. borrow = 0
    BY <1>1, <1>3, <2>2, <2>3
  <2>5. hi = 0
    <3>1. Hi - cyc_hi - borrow = 0 * WORD + 0 /\ 0 \in 0 .. WORD - 1
      BY <1>1, <2>1, <2>4
    <3>2. (0 * WORD + 0) % WORD = 0
      BY <1>1, <3>1, ModUnique
    <3> QED BY <3>1, <3>2
  <2> QED BY <1>1, <1>2, <1>3, <2>3, <2>5
<1> QED BY <1>6, <1>7, <1>8 DEF Holds

----------------------------------------------------------------------------
(* Each step keeps the invariant, and a sample is sound when it is added.  *)

\* The invariant speaks of these only.
sampleVars == <<machine, counter, cyc_hi, cyc_lo, tms_utime, start_tick, cyc_per_tick,
                compensate, samples, time, step, took, inside, around>>

\* A step that changes none of these keeps the invariant.
LEMMA SampleStutter == SampleInv /\ UNCHANGED sampleVars => SampleInv'
BY DEF SampleInv, sampleVars, ClockTypes, SampleTypes, Counting, NotYet, Ticks, Counted,
       Holds, Elapsed

\* Between samples there is nothing to keep but the types.
LEMMA NoSample ==
  ASSUME ClockTypes', SampleTypes', step' \in {"idle", "clear", "exit"}
  PROVE  SampleInv'
BY DEF SampleInv, Counting, NotYet, Ticks, Counted

\* Add_sample ends a sample.
LEMMA AddStep ==
  ASSUME SampleInv, NEW val \in Int, add_sample(val), UNCHANGED clockVars, UNCHANGED parameters,
         UNCHANGED <<took, interrupts>>, time' \in Int
  PROVE  SampleInv' /\ samples' = Append(samples, val) /\ Last(samples') = val
<1>1. samples' = Append(samples, val) /\ step' \in {"idle", "clear"}
  BY DEF add_sample
<1>2. samples \in Seq(Int)
  BY DEF SampleInv, SampleTypes
<1>3. samples' \in Seq(Int) /\ Last(samples') = val
  BY <1>1, <1>2 DEF Last
<1>4. ClockTypes'
  BY DEF SampleInv, ClockTypes, clockVars, counters
<1>5. SampleTypes'
  BY <1>1, <1>3 DEF SampleInv, SampleTypes, parameters, interrupts
<1> QED BY <1>1, <1>3, <1>4, <1>5, NoSample

\* The setters are used between samples.
LEMMA SetStep == SampleInv /\ Set => SampleInv'
<1> SUFFICES ASSUME SampleInv, Set PROVE SampleInv'
  OBVIOUS
<1>1. /\ step' = "idle" /\ compensate' \in BOOLEAN /\ samples' = <<>>
      /\ UNCHANGED <<clockVars, time, took, inside, around>>
  BY DEF Set, interrupts
<1>2. ClockTypes' /\ SampleTypes'
  BY <1>1 DEF SampleInv, ClockTypes, SampleTypes, clockVars, counters
<1> QED BY <1>1, <1>2, NoSample

\* The size of the buffer is no part of a sample.
LEMMA SetSizeStep ==
  ASSUME NEW bytes PROVE SampleInv /\ set_fcyc_cache_size(bytes) => SampleInv'
<1>1. set_fcyc_cache_size(bytes) => UNCHANGED sampleVars
  BY DEF set_fcyc_cache_size, sampleVars, clockVars, counters, interrupts, sampler
<1> QED BY <1>1, SampleStutter

\* A call begins without samples.
LEMMA FcycCallStep == SampleInv /\ Call => SampleInv'
<1> SUFFICES ASSUME SampleInv, Call PROVE SampleInv'
  OBVIOUS
<1>1. /\ step' = "clear" /\ samples' = <<>>
      /\ UNCHANGED <<clockVars, compensate, time, took, inside, around>>
  BY DEF Call, interrupts, parameters
<1>2. ClockTypes' /\ SampleTypes'
  BY <1>1 DEF SampleInv, ClockTypes, SampleTypes, clockVars, counters
<1> QED BY <1>1, <1>2, NoSample

\* A sample begins with nothing counted.
LEMMA ClearStep == SampleInv /\ Clear => SampleInv'
<1> SUFFICES ASSUME SampleInv, Clear PROVE SampleInv'
  OBVIOUS
<1>1. /\ step' = IF compensate THEN "times" ELSE "start"
      /\ took' = 0 /\ inside' = 0 /\ around' = 0
      /\ UNCHANGED <<clockVars, compensate, samples, time>>
  BY DEF Clear, parameters, sampler
<1>2. ClockTypes' /\ SampleTypes'
  BY <1>1 DEF SampleInv, ClockTypes, SampleTypes, clockVars, counters
<1> QED BY <1>1, <1>2 DEF SampleInv, Counting, NotYet, Ticks, Counted

\* Without memory fcyc exits.
LEMMA ClearFailsStep == SampleInv /\ ClearFails => SampleInv'
<1> SUFFICES ASSUME SampleInv, ClearFails PROVE SampleInv'
  OBVIOUS
<1>1. step' = "exit" /\ UNCHANGED <<clockVars, compensate, samples, time, took, inside, around>>
  BY DEF ClearFails, parameters, sampler, interrupts
<1>2. ClockTypes' /\ SampleTypes'
  BY <1>1 DEF SampleInv, ClockTypes, SampleTypes, clockVars, counters
<1> QED BY <1>1, <1>2, NoSample

\* Times is called before the counter starts.
LEMMA TimesStep == SampleInv /\ Times => SampleInv'
<1> SUFFICES ASSUME SampleInv, Times PROVE SampleInv'
  OBVIOUS
<1>1. /\ step = "times" /\ step' = "start" /\ start_tick' = tms_utime
      /\ cyc_per_tick' \in {0, TICK, TICK + 1}
      /\ UNCHANGED <<machine, counter, cyc_hi, cyc_lo, tms_utime, compensate, samples, time,
                     took, inside, around>>
  BY DEF Times, counters, parameters, sampler, interrupts, callibrate, SampleInv, ClockTypes
<1>2. ClockTypes' /\ SampleTypes'
  BY <1>1 DEF SampleInv, ClockTypes, SampleTypes
<1>3. inside = 0 /\ around = 0 /\ took = 0
  BY <1>1 DEF SampleInv, NotYet
<1>4. Ticks'
  BY <1>1, <1>3 DEF SampleInv, ClockTypes, Ticks
<1> QED BY <1>1, <1>2, <1>3, <1>4 DEF SampleInv, Counting, NotYet, Counted

\* Start_counter stores the two words that the counter shows.
LEMMA StartStep == SampleInv /\ Start => SampleInv'
<1> SUFFICES ASSUME SampleInv, Start PROVE SampleInv'
  OBVIOUS
<1>1. /\ step = "start"
      /\ UNCHANGED <<machine, counter, tms_utime, start_tick, cyc_per_tick, compensate,
                     samples, time, took, inside, around>>
  BY DEF Start, parameters, sampler, interrupts
<1>2. CASE machine = "other"
  <2>1. step' = "exit" /\ UNCHANGED <<cyc_hi, cyc_lo>>
    BY <1>2 DEF Start, counters
  <2>2. ClockTypes' /\ SampleTypes'
    BY <1>1, <2>1 DEF SampleInv, ClockTypes, SampleTypes
  <2> QED BY <2>1, <2>2, NoSample
<1>3. CASE machine # "other"
  <2>1. step' = "run" /\ cyc_hi' = Hi /\ cyc_lo' = Lo
    BY <1>3 DEF Start, start_counter
  <2>2. Lo \in 0 .. WORD - 1 /\ Hi \in 0 .. WORD - 1
    BY WordsType DEF SampleInv
  <2>3. ClockTypes' /\ SampleTypes'
    BY <1>1, <2>1, <2>2 DEF SampleInv, ClockTypes, SampleTypes
  <2>4. took = 0 /\ inside = 0 /\ Elapsed' = 0
    BY <1>1, ClockConstants DEF SampleInv, NotYet, Elapsed
  <2>5. Counting'
    <3>1. /\ counter \in 0 .. Span - 1 /\ counter \in Int
          /\ WORD \in Nat \ {0} /\ Span \in Nat \ {0}
      BY ClockConstants DEF SampleInv, ClockTypes
    <3>2. machine = "i386" => counter = (Hi * WORD + Lo + 0) % Span
      <4>1. CASE machine = "i386"
        <5>1. counter = Hi * WORD + Lo
          BY <3>1, <4>1, ModParts DEF Hi, Lo
        <5>2. (0 * Span + counter) % Span = counter /\ 0 * Span + counter = counter
          BY <3>1, ModUnique
        <5>3. Hi * WORD + Lo + 0 = counter
          BY <3>1, <5>1
        <5> QED BY <5>2, <5>3
      <4> QED BY <4>1
    <3>3. machine = "alpha" => Hi = 0 /\ counter % WORD = (Lo + 0) % WORD
      <4>1. (0 * WORD + Lo) % WORD = Lo /\ 0 * WORD + Lo = Lo + 0
        BY <2>2, <3>1, ModUnique
      <4> QED BY <4>1 DEF Hi, Lo
    <3> QED BY <1>1, <1>3, <2>1, <2>4, <3>2, <3>3 DEF Counting
  <2>6. Ticks'
    BY <1>1, <2>1 DEF SampleInv, Ticks
  <2> QED BY <1>1, <2>1, <2>3, <2>4, <2>5, <2>6 DEF SampleInv, NotYet, Counted
<1> QED BY <1>2, <1>3

(* Cycles go by while the sample counts: the function's, or the handler's. *)
LEMMA CountingOn ==
  ASSUME SampleInv, step \in {"run", "get"}, NEW d \in Nat,
         counter' = Later(counter, d), Elapsed' = Elapsed + d, step' \in {"run", "get"},
         UNCHANGED <<machine, cyc_hi, cyc_lo>>
  PROVE  Counting' /\ counter' \in 0 .. Span - 1
<1> DEFINE start == cyc_hi * WORD + cyc_lo + Elapsed
           low == cyc_lo + Elapsed
<1>1. /\ counter \in Nat /\ Elapsed \in Nat /\ start \in Nat /\ low \in Nat
      /\ start + d = cyc_hi * WORD + cyc_lo + (Elapsed + d) /\ low + d = cyc_lo + (Elapsed + d)
  <2>1. /\ cyc_hi \in Nat /\ cyc_lo \in Nat /\ WORD \in Nat /\ Elapsed \in Nat
        /\ counter \in Nat
    BY ClockConstants, ElapsedType DEF SampleInv, ClockTypes
  <2>2. cyc_hi * WORD \in Nat
    BY <2>1
  <2> QED BY <2>1, <2>2
<1>2. machine = "i386" => counter = start % Span
  BY DEF SampleInv, Counting
<1>3. machine = "alpha" => cyc_hi = 0 /\ counter % WORD = low % WORD
  BY DEF SampleInv, Counting
<1>4. machine # "other"
  BY DEF SampleInv, Counting
<1> HIDE DEF start, low
<1>5. /\ counter' \in 0 .. Span - 1
      /\ counter = start % Span => counter' = (start + d) % Span
      /\ counter % WORD = low % WORD => counter' % WORD = (low + d) % WORD
  BY <1>1, LaterCounts
<1>6. Counting'
  BY <1>1, <1>2, <1>3, <1>4, <1>5 DEF Counting
<1> QED BY <1>5, <1>6

\* The function takes its cycles.
LEMMA RunStep == ASSUME NEW cost \in Costs PROVE SampleInv /\ Run(cost) => SampleInv'
<1> SUFFICES ASSUME SampleInv, Run(cost) PROVE SampleInv'
  OBVIOUS
<1>1. /\ step = "run" /\ step' = "get" /\ took' = cost /\ counter' = Later(counter, cost)
      /\ UNCHANGED <<machine, cyc_hi, cyc_lo, tms_utime, start_tick, cyc_per_tick, compensate,
                     samples, time, inside, around>>
  BY DEF Run, counters, parameters, sampler, interrupts
<1>2. cost \in Nat
  BY FcycAssumption
<1>3. took = 0 /\ inside \in Nat
  BY <1>1 DEF SampleInv, NotYet, SampleTypes
<1>4. Elapsed' = Elapsed + cost
  <2>1. inside * TICK \in Nat
    BY <1>3, ClockConstants
  <2> QED BY <1>1, <1>2, <1>3, <2>1 DEF Elapsed
<1>5. Counting' /\ counter' \in 0 .. Span - 1
  BY <1>1, <1>2, <1>4, CountingOn
<1>6. ClockTypes' /\ SampleTypes'
  BY <1>1, <1>2, <1>5 DEF SampleInv, ClockTypes, SampleTypes
<1>7. Ticks'
  BY <1>1 DEF SampleInv, Ticks
<1> QED BY <1>1, <1>5, <1>6, <1>7 DEF SampleInv, NotYet, Counted

\* The handler takes TICK cycles, and they are counted while the counter runs.
LEMMA InterruptStep == SampleInv /\ Interrupt => SampleInv'
<1> SUFFICES ASSUME SampleInv, Interrupt PROVE SampleInv'
  OBVIOUS
<1>1. /\ counter' = Later(counter, TICK) /\ tms_utime' = tms_utime + 1
      /\ \/ step \in {"start", "stop"} /\ around' = around + 1 /\ inside' = inside
         \/ step \in {"run", "get"} /\ inside' = inside + 1 /\ around' = around
      /\ UNCHANGED <<machine, cyc_hi, cyc_lo, start_tick, cyc_per_tick, compensate,
                     samples, time, step, took>>
  BY DEF Interrupt, counters, parameters, sampler
<1>2. /\ inside \in Nat /\ around \in Nat /\ took \in Nat /\ counter \in Nat
      /\ TICK \in Nat /\ Span \in Nat \ {0}
  BY ClockConstants DEF SampleInv, SampleTypes, ClockTypes
<1>3. counter' \in 0 .. Span - 1
  <2>1. counter + TICK \in Int
    BY <1>2
  <2> QED BY <1>1, <1>2, <2>1, ModParts DEF Later
<1>4. ClockTypes' /\ SampleTypes'
  BY <1>1, <1>2, <1>3 DEF SampleInv, ClockTypes, SampleTypes
<1>5. Ticks'
  <2>1. tms_utime \in Nat /\ start_tick \in Nat
    BY DEF SampleInv, ClockTypes
  <2> QED BY <1>1, <1>2, <2>1 DEF SampleInv, Ticks
<1>6. CASE step \in {"start", "stop"}
  <2>1. around' = around + 1 /\ inside' = inside /\ Elapsed' = Elapsed
    BY <1>1, <1>6 DEF Elapsed
  <2> QED BY <1>1, <1>4, <1>5, <1>6, <2>1 DEF SampleInv, Counting, NotYet, Counted, Holds
<1>7. CASE step \in {"run", "get"}
  <2>1. inside' = inside + 1 /\ around' = around
    BY <1>1, <1>7
  <2>2. Elapsed' = Elapsed + TICK
    <3>1. (inside + 1) * TICK = inside * TICK + TICK /\ inside * TICK \in Nat
      BY <1>2
    <3> QED BY <1>1, <1>2, <2>1, <3>1 DEF Elapsed
  <2>3. Counting'
    BY <1>1, <1>2, <1>7, <2>2, CountingOn
  <2> QED BY <1>1, <1>4, <1>5, <1>7, <2>1, <2>3 DEF SampleInv, NotYet, Counted
<1> QED BY <1>1, <1>6, <1>7

\* Get_counter returns what has gone by to get_comp_counter.
LEMMA GetCompStep == SampleInv /\ GetComp => SampleInv'
<1> SUFFICES ASSUME SampleInv, GetComp PROVE SampleInv'
  OBVIOUS
<1>1. /\ step = "get" /\ compensate /\ time' = get_counter /\ step' = "stop"
      /\ UNCHANGED <<clockVars, compensate, samples, took, inside, around>>
  BY DEF GetComp, parameters, sampler, interrupts
<1>2. get_counter \in Int /\ (Holds => get_counter = Elapsed)
  BY <1>1, GetCounterRight DEF SampleInv
<1>3. ClockTypes' /\ SampleTypes'
  BY <1>1, <1>2 DEF SampleInv, ClockTypes, SampleTypes, clockVars, counters
<1>4. Elapsed' = Elapsed /\ Holds' = Holds
  BY <1>1 DEF Elapsed, Holds, clockVars, counters
<1>5. Counted'
  BY <1>1, <1>2, <1>4 DEF Counted
<1>6. Ticks'
  BY <1>1 DEF SampleInv, Ticks, clockVars
<1> QED BY <1>1, <1>3, <1>5, <1>6 DEF SampleInv, Counting, NotYet

(* Get without compensation: the sample is what the counter says.          *)
LEMMA GetStep == SampleInv /\ Get => SampleInv' /\ SampleIsSound
<1> SUFFICES ASSUME SampleInv, Get PROVE SampleInv' /\ SampleIsSound
  OBVIOUS
<1>1. /\ step = "get" /\ ~ compensate /\ add_sample(get_counter)
      /\ UNCHANGED clockVars /\ UNCHANGED parameters /\ UNCHANGED <<took, interrupts>>
      /\ UNCHANGED time
  BY DEF Get
<1>2. get_counter \in Int /\ (Holds => get_counter = Elapsed)
  BY <1>1, GetCounterRight DEF SampleInv
<1>3. time' \in Int
  BY <1>1 DEF SampleInv, SampleTypes
<1>4. SampleInv' /\ Last(samples') = get_counter
  BY <1>1, <1>2, <1>3, AddStep
<1>5. SampleIsSound
  BY <1>1, <1>2, <1>4 DEF SampleIsSound, Holds
<1> QED BY <1>4, <1>5

(* The compensated sample: the interrupts that times has seen are taken    *)
(* off at the price of cyc_per_tick each.                                  *)
LEMMA StopStep == SampleInv /\ Stop => SampleInv' /\ SampleIsSound
<1> SUFFICES ASSUME SampleInv, Stop PROVE SampleInv' /\ SampleIsSound
  OBVIOUS
<1> DEFINE val == time - (tms_utime - start_tick) * cyc_per_tick
<1>1. /\ step = "stop" /\ add_sample(val) /\ time' = 0
      /\ UNCHANGED clockVars /\ UNCHANGED parameters /\ UNCHANGED <<took, interrupts>>
  BY DEF Stop
<1>2. /\ compensate /\ tms_utime = start_tick + around + inside
      /\ (Holds => time = Elapsed)
  BY <1>1 DEF SampleInv, NotYet, Ticks, Counted
<1>3. /\ time \in Int /\ around \in Nat /\ inside \in Nat /\ took \in Nat
      /\ TICK \in Nat /\ cyc_per_tick \in {0, TICK, TICK + 1} /\ start_tick \in Nat
  BY ClockConstants DEF SampleInv, SampleTypes, ClockTypes
<1>4. tms_utime - start_tick = around + inside
  BY <1>2, <1>3
<1> DEFINE off == around * cyc_per_tick
           in == inside * cyc_per_tick
           tick == inside * TICK
<1>5. /\ (around + inside) * cyc_per_tick = off + in /\ off \in Nat /\ in \in Nat /\ tick \in Nat
      /\ inside * (cyc_per_tick - TICK) = in - tick
      /\ cyc_per_tick = 0 => off = 0 /\ in = 0
  BY <1>3
<1>6. cyc_per_tick > 0 => tick <= in
  <2>1. inside * (TICK + 1) = tick + inside
    BY <1>3
  <2> QED BY <1>3, <2>1
<1>7. val = time - (off + in)
  BY <1>4, <1>5
<1>8. Elapsed = took + tick
  BY DEF Elapsed
<1> HIDE DEF off, in, tick
<1>9. val \in Int
  BY <1>3, <1>5, <1>7
<1>10. SampleInv' /\ Last(samples') = val
  <2>1. time' \in Int
    BY <1>1
  <2> HIDE DEF val
  <2> QED BY <1>1, <1>9, <2>1, AddStep
<1>11. ASSUME Holds
       PROVE  IF cyc_per_tick > 0
              THEN val <= took /\ took - val <= off + inside * (cyc_per_tick - TICK)
              ELSE val = Elapsed
  <2>1. time = took + tick
    BY <1>2, <1>8, <1>11
  <2>2. CASE cyc_per_tick > 0
    BY <1>3, <1>5, <1>6, <1>7, <2>1, <2>2
  <2>3. CASE ~ (cyc_per_tick > 0)
    <3>1. cyc_per_tick = 0
      BY <1>3, <2>3
    <3> QED BY <1>3, <1>5, <1>7, <1>8, <2>1, <2>3, <3>1
  <2> QED BY <2>2, <2>3
<1>12. SampleIsSound
  <2> HIDE DEF val
  <2> QED BY <1>2, <1>10, <1>11 DEF SampleIsSound, Holds, off
<1> QED BY <1>10, <1>12

\* The first state.
LEMMA SampleInit == FcycInit => SampleInv
<1> SUFFICES ASSUME FcycInit PROVE SampleInv
  OBVIOUS
<1>1. ClockTypes
  BY ClockConstants, ClockAssumption DEF FcycInit, ClockInit, ClockTypes
<1>2. SampleTypes
  BY DEF FcycInit, SampleTypes
<1> QED BY <1>1, <1>2 DEF FcycInit, SampleInv, Counting, NotYet, Ticks, Counted

\* All other steps leave the samples alone or drop them.
LEMMA SampleStep ==
  SampleInv /\ [FcycNext]_fcycVars => SampleInv' /\ (SampleIsSound \/ UNCHANGED fcycVars)
<1> SUFFICES ASSUME SampleInv, [FcycNext]_fcycVars
             PROVE  SampleInv' /\ (SampleIsSound \/ UNCHANGED fcycVars)
  OBVIOUS
<1>1. CASE Set
  BY <1>1, SetStep DEF Set, SampleIsSound
<1>2. ASSUME NEW bytes \in CacheBytes, set_fcyc_cache_size(bytes)
      PROVE  SampleInv' /\ SampleIsSound
  BY <1>2, SetSizeStep DEF set_fcyc_cache_size, SampleIsSound, sampler
<1>3. CASE Call
  BY <1>3, FcycCallStep DEF Call, SampleIsSound
<1>4. CASE Clear
  BY <1>4, ClearStep DEF Clear, SampleIsSound, sampler
<1>5. CASE ClearFails
  BY <1>5, ClearFailsStep DEF ClearFails, SampleIsSound, sampler
<1>6. CASE Times
  BY <1>6, TimesStep DEF Times, SampleIsSound, sampler
<1>7. CASE Start
  BY <1>7, StartStep DEF Start, SampleIsSound, sampler
<1>8. ASSUME NEW cost \in Costs, Run(cost)
      PROVE  SampleInv' /\ SampleIsSound
  BY <1>8, RunStep DEF Run, SampleIsSound, sampler
<1>9. CASE Get
  BY <1>9, GetStep
<1>10. CASE GetComp
  BY <1>10, GetCompStep DEF GetComp, SampleIsSound, sampler
<1>11. CASE Stop
  BY <1>11, StopStep
<1>12. CASE Interrupt
  BY <1>12, InterruptStep DEF Interrupt, SampleIsSound, sampler
<1>13. CASE UNCHANGED fcycVars
  <2>1. UNCHANGED sampleVars
    BY <1>13 DEF fcycVars, sampleVars, clockVars, counters, parameters, sampler, interrupts
  <2> QED BY <1>13, <2>1, SampleStutter
<1> QED BY <1>1, <1>2, <1>3, <1>4, <1>5, <1>6, <1>7, <1>8, <1>9, <1>10, <1>11, <1>12, <1>13
    DEF FcycNext, Ended

(* For any word of the counter, any cost of the function and any timer:    *)
(* fcyc's samples are exact wherever the counter can hold them, and        *)
(* compensation errs by what cyc_per_tick is too large.                    *)
THEOREM SamplesAreRight == FcycSpec => SamplesAreSound
<1>1. SampleInv /\ [FcycNext]_fcycVars => SampleInv'
  BY SampleStep
<1>2. SampleInv /\ [FcycNext]_fcycVars => [SampleIsSound]_fcycVars
  BY SampleStep
<1> QED BY <1>1, <1>2, SampleInit, PTL DEF FcycSpec, SamplesAreSound

----------------------------------------------------------------------------
(* The K best samples.                                                     *)

(* A nonempty set of numbers up to n has a greatest element.               *)
LEMMA GreatestNat ==
  ASSUME NEW n \in Nat, NEW S \in SUBSET (0 .. n), S # {}
  PROVE  \E g \in S : \A m \in S : m <= g
<1> DEFINE T == {n - m : m \in S}
<1>1. T \in SUBSET Nat /\ T # {}
  <2>1. \A m \in S : m \in 0 .. n /\ n - m \in Nat
    OBVIOUS
  <2>2. PICK m \in S : TRUE
    OBVIOUS
  <2> QED BY <2>1, <2>2
<1>2. PICK t \in T : \A u \in T : t <= u
  <2> HIDE DEF T
  <2> QED BY <1>1, LeastNat
<1>3. PICK g \in S : t = n - g
  OBVIOUS
<1>4. ASSUME NEW m \in S PROVE m <= g
  <2>1. n - m \in T
    OBVIOUS
  <2>2. n - g <= n - m
    BY <1>2, <1>3, <2>1
  <2>3. g \in 0 .. n /\ m \in 0 .. n
    OBVIOUS
  <2> QED BY <2>2, <2>3
<1> QED BY <1>4

\* What the function down of Inserted is defined by.
DownIs(f, vals, pos) ==
  f = [p \in 1 .. kbest |-> IF p > 1 /\ vals[p - 1] > vals[pos] THEN f[p - 1] ELSE p]

\* Where the value at pos may stop when it moves down from p.
Stops(vals, pos, p) == {t \in 1 .. p : t = 1 \/ ~ (vals[t - 1] > vals[pos])}

\* There is such a function, so that down is it.
LEMMA MovesExists ==
  ASSUME kbest \in Nat, NEW vals, NEW pos
  PROVE  \E f : DownIs(f, vals, pos)
<1> DEFINE Far(p) == CHOOSE t \in Stops(vals, pos, p) : \A u \in Stops(vals, pos, p) : u <= t
           g == [p \in 1 .. kbest |-> Far(p)]
<1>1. ASSUME NEW p \in 1 .. kbest, p > 1, vals[p - 1] > vals[pos]
      PROVE  g[p] = g[p - 1]
  <2>1. Stops(vals, pos, p) = Stops(vals, pos, p - 1)
    BY <1>1 DEF Stops
  <2>2. p - 1 \in 1 .. kbest
    BY <1>1
  <2>3. g[p] = Far(p) /\ g[p - 1] = Far(p - 1)
    BY <2>2
  <2> QED BY <2>1, <2>3
<1>2. ASSUME NEW p \in 1 .. kbest, ~ (p > 1 /\ vals[p - 1] > vals[pos])
      PROVE  g[p] = p
  <2>1. p \in Stops(vals, pos, p) /\ \A u \in Stops(vals, pos, p) : u <= p /\ u \in Nat
    BY <1>2 DEF Stops
  <2>2. Far(p) = p
    <3> DEFINE S == Stops(vals, pos, p)
    <3>1. p \in S /\ \A u \in S : u <= p /\ u \in Nat
      BY <2>1
    <3> HIDE DEF S
    <3>2. \A t \in S : (\A u \in S : u <= t) => t = p
      BY <3>1
    <3>3. (CHOOSE t \in S : \A u \in S : u <= t) = p
      BY <3>1, <3>2
    <3> QED BY <3>3 DEF S
  <2> QED BY <2>2
<1>3. g = [p \in 1 .. kbest |-> g[p]]
  OBVIOUS
<1>4. DownIs(g, vals, pos)
  <2> HIDE DEF g
  <2> QED BY <1>1, <1>2, <1>3 DEF DownIs
<1> QED BY <1>4

Numbers(vals) == \A k \in 1 .. kbest : vals[k] \in Int

\* The value at pos is moved to the place to, below larger ones only.
MovedTo(vals, pos, to) ==
  /\ \A k \in to .. pos - 1 : vals[k] > vals[pos]
  /\ to > 1 => vals[to - 1] <= vals[pos]
  /\ Inserted(vals, pos) =
       [k \in 1 .. kbest |-> CASE k = to -> vals[pos]
                              [] k > to /\ k <= pos -> vals[k - 1]
                              [] OTHER -> vals[k]]

(* The insertion sort moves the value at pos below all larger ones that    *)
(* are next to it, and these up by one.                                    *)
LEMMA InsertedMoves ==
  ASSUME kbest \in Nat \ {0}, NEW vals, Numbers(vals), NEW pos \in 1 .. kbest
  PROVE  \E to \in 1 .. pos : MovedTo(vals, pos, to)
<1> DEFINE f == CHOOSE g : DownIs(g, vals, pos)
           Right(p) == /\ f[p] \in 1 .. p
                       /\ \A k \in f[p] .. p - 1 : vals[k] > vals[pos]
                       /\ f[p] > 1 => vals[f[p] - 1] <= vals[pos]
           Bad == {p \in 1 .. kbest : ~ Right(p)}
<1>0. \A k \in 1 .. kbest : vals[k] \in Int
  BY DEF Numbers
<1>1. DownIs(f, vals, pos)
  <2>1. kbest \in Nat
    OBVIOUS
  <2> QED BY <2>1, MovesExists
<1> HIDE DEF f
<1>2. \A p \in 1 .. kbest :
        f[p] = IF p > 1 /\ vals[p - 1] > vals[pos] THEN f[p - 1] ELSE p
  BY <1>1 DEF DownIs
<1>3. Bad = {}
  <2> SUFFICES ASSUME Bad # {} PROVE FALSE
    OBVIOUS
  <2>1. PICK p \in Bad : \A m \in Bad : p <= m
    <3>1. Bad \in SUBSET Nat
      OBVIOUS
    <3> HIDE DEF Bad
    <3> QED BY <3>1, LeastNat
  <2>2. p \in 1 .. kbest /\ ~ Right(p)
    OBVIOUS
  <2>3. CASE p > 1 /\ vals[p - 1] > vals[pos]
    <3>1. p - 1 \in 1 .. kbest /\ ~ (p <= p - 1)
      BY <2>2, <2>3
    <3>2. Right(p - 1)
      BY <2>1, <3>1
    <3>3. f[p] = f[p - 1]
      BY <1>2, <2>2, <2>3
    <3>4. f[p] \in 1 .. p /\ (f[p] > 1 => vals[f[p] - 1] <= vals[pos])
      BY <2>2, <3>1, <3>2, <3>3
    <3>5. \A k \in f[p] .. p - 1 : vals[k] > vals[pos]
      <4> SUFFICES ASSUME NEW k \in f[p] .. p - 1 PROVE vals[k] > vals[pos]
        OBVIOUS
      <4>1. k = p - 1 \/ k \in f[p - 1] .. (p - 1) - 1
        BY <2>2, <3>3, <3>4
      <4> QED BY <2>3, <3>2, <4>1
    <3> QED BY <2>2, <3>4, <3>5
  <2>4. CASE ~ (p > 1 /\ vals[p - 1] > vals[pos])
    <3>1. f[p] = p
      BY <1>2, <2>2, <2>4
    <3>2. \A k \in p .. p - 1 : vals[k] > vals[pos]
      BY <2>2
    <3>3. p > 1 => vals[p - 1] <= vals[pos]
      <4> SUFFICES ASSUME p > 1 PROVE vals[p - 1] <= vals[pos]
        OBVIOUS
      <4>1. p - 1 \in 1 .. kbest /\ pos \in 1 .. kbest
        BY <2>2
      <4>2. vals[p - 1] \in Int /\ vals[pos] \in Int
        BY <1>0, <4>1
      <4> QED BY <2>4, <4>2
    <3> QED BY <2>2, <3>1, <3>2, <3>3
  <2> QED BY <2>3, <2>4
<1>4. Right(pos)
  BY <1>3
<1>5. Inserted(vals, pos) =
        [k \in 1 .. kbest |-> CASE k = f[pos] -> vals[pos]
                               [] k > f[pos] /\ k <= pos -> vals[k - 1]
                               [] OTHER -> vals[k]]
  BY DEF Inserted, f, DownIs
<1> QED BY <1>4, <1>5 DEF MovedTo

----------------------------------------------------------------------------
(* Rankings.                                                               *)

\* p ranks the samples that are kept; all of them, as long as there is room.
Ranks(s, p) ==
  /\ p \in Smallest(KeptCount(s), s)
  /\ Len(s) < kbest => \A x \in DOMAIN s : \E i \in 1 .. Len(s) : p[i] = x

\* The row shows the smallest samples.
Shows(row, s) == \E p : Ranks(s, p) /\ row = Row(s, p)

\* What a choice of the k smallest is: distinct places, in the order of their samples.
LEMMA RankFacts ==
  ASSUME kbest \in Nat \ {0}, NEW s \in Seq(Int), NEW k \in Nat, NEW p \in Smallest(k, s)
  PROVE  /\ p \in [1 .. k -> 1 .. Len(s)]
         /\ \A i, j \in 1 .. k : p[i] = p[j] => i = j
         /\ \A i \in 1 .. k : \A x \in 1 .. Len(s) :
              (\A j \in 1 .. i : p[j] # x) => s[p[i]] <= s[x]
         /\ \A i, j \in 1 .. k : i <= j => s[p[i]] <= s[p[j]]
         /\ \A i \in 1 .. k : s[p[i]] \in Int
<1>1. p \in [1 .. k -> 1 .. Len(s)] /\ \A i, j \in 1 .. k : p[i] = p[j] => i = j
  <2>1. DOMAIN s = 1 .. Len(s)
    OBVIOUS
  <2> QED BY <2>1 DEF Smallest, Injection, IsInjective
<1>2. ASSUME NEW i \in 1 .. k, NEW x \in 1 .. Len(s), \A j \in 1 .. i : p[j] # x
      PROVE  s[p[i]] <= s[x]
  <2>1. x \in DOMAIN s \ {p[j] : j \in 1 .. i}
    BY <1>2
  <2> QED BY <2>1 DEF Smallest
<1>3. \A i \in 1 .. k : s[p[i]] \in Int
  BY <1>1
<1>4. ASSUME NEW i \in 1 .. k, NEW j \in 1 .. k, i <= j PROVE s[p[i]] <= s[p[j]]
  <2>1. CASE i = j
    BY <1>3, <2>1
  <2>2. CASE i < j
    <3>1. p[j] \in 1 .. Len(s) /\ \A l \in 1 .. i : p[l] # p[j]
      BY <1>1, <2>2
    <3> QED BY <1>2, <3>1
  <2> QED BY <1>4, <2>1, <2>2
<1> QED BY <1>1, <1>2, <1>3, <1>4

\* The converse of it.
LEMMA RankIntro ==
  ASSUME NEW s \in Seq(Int), NEW k \in Nat, NEW p \in [1 .. k -> 1 .. Len(s)],
         \A i, j \in 1 .. k : p[i] = p[j] => i = j,
         \A i \in 1 .. k : \A x \in 1 .. Len(s) :
           (\A j \in 1 .. i : p[j] # x) => s[p[i]] <= s[x]
  PROVE  p \in Smallest(k, s)
<1>1. DOMAIN s = 1 .. Len(s)
  OBVIOUS
<1>2. p \in Injection(1 .. k, DOMAIN s)
  BY <1>1 DEF Injection, IsInjective
<1>3. ASSUME NEW i \in 1 .. k, NEW x \in DOMAIN s \ {p[j] : j \in 1 .. i}
      PROVE  s[p[i]] <= s[x]
  <2>1. x \in 1 .. Len(s) /\ \A j \in 1 .. i : p[j] # x
    BY <1>1
  <2> QED BY <2>1
<1> QED BY <1>2, <1>3 DEF Smallest

(* Two choices of the k smallest end with the same value: the second one   *)
(* cannot have all the places of the first below a greater one.            *)
LEMMA LastAgrees ==
  ASSUME kbest \in Nat \ {0}, NEW s \in Seq(Int), NEW k \in Nat \ {0},
         NEW p \in Smallest(k, s), NEW q \in Smallest(k, s)
  PROVE  s[q[k]] <= s[p[k]]
<1> SUFFICES ASSUME ~ (s[q[k]] <= s[p[k]]) PROVE FALSE
  OBVIOUS
<1>1. /\ p \in [1 .. k -> 1 .. Len(s)] /\ \A i, j \in 1 .. k : p[i] = p[j] => i = j
      /\ \A i, j \in 1 .. k : i <= j => s[p[i]] <= s[p[j]]
      /\ \A i \in 1 .. k : s[p[i]] \in Int
  BY RankFacts
<1>2. /\ q \in [1 .. k -> 1 .. Len(s)] /\ \A i, j \in 1 .. k : q[i] = q[j] => i = j
      /\ \A x \in 1 .. Len(s) : (\A j \in 1 .. k : q[j] # x) => s[q[k]] <= s[x]
      /\ \A i \in 1 .. k : s[q[i]] \in Int
  <2>1. k \in 1 .. k
    OBVIOUS
  <2> QED BY <2>1, RankFacts
<1>3. \A i \in 1 .. k : s[p[i]] < s[q[k]]
  <2> SUFFICES ASSUME NEW i \in 1 .. k PROVE s[p[i]] < s[q[k]]
    OBVIOUS
  <2>1. s[p[i]] <= s[p[k]] /\ s[p[i]] \in Int /\ s[p[k]] \in Int /\ s[q[k]] \in Int
    BY <1>1, <1>2
  <2> QED BY <2>1
<1>4. \A i \in 1 .. k : \E j \in 1 .. k - 1 : q[j] = p[i]
  <2> SUFFICES ASSUME NEW i \in 1 .. k, \A j \in 1 .. k - 1 : q[j] # p[i] PROVE FALSE
    OBVIOUS
  <2>1. q[k] # p[i] /\ p[i] \in 1 .. Len(s) /\ s[p[i]] \in Int /\ s[q[k]] \in Int
    BY <1>1, <1>2, <1>3
  <2>2. \A j \in 1 .. k : q[j] # p[i]
    <3> SUFFICES ASSUME NEW j \in 1 .. k PROVE q[j] # p[i]
      OBVIOUS
    <3>1. j = k \/ j \in 1 .. k - 1
      OBVIOUS
    <3> QED BY <2>1, <3>1
  <2>3. s[q[k]] <= s[p[i]]
    BY <1>2, <2>1, <2>2
  <2> QED BY <1>3, <2>1, <2>3
<1> DEFINE f == [i \in 1 .. k |-> CHOOSE j \in 1 .. k - 1 : q[j] = p[i]]
<1>5. \A i \in 1 .. k : f[i] \in 1 .. k - 1 /\ q[f[i]] = p[i]
  BY <1>4
<1>6. f \in [1 .. k -> 1 .. k - 1]
  BY <1>5
<1>7. \A i, j \in 1 .. k : f[i] = f[j] => i = j
  <2> SUFFICES ASSUME NEW i \in 1 .. k, NEW j \in 1 .. k, f[i] = f[j] PROVE i = j
    OBVIOUS
  <2> HIDE DEF f
  <2>1. p[i] = p[j]
    BY <1>5
  <2> QED BY <1>1, <2>1
<1>8. \A n \in Nat : IsFiniteSet(1 .. n) /\ Cardinality(1 .. n) = n
  <2> SUFFICES ASSUME NEW n \in Nat PROVE IsFiniteSet(1 .. n) /\ Cardinality(1 .. n) = n
    OBVIOUS
  <2>1. /\ IsFiniteSet(1 .. n)
        /\ Cardinality(1 .. n) = IF 1 > n THEN 0 ELSE n - 1 + 1
    <3>1. 1 \in Int /\ n \in Int
      OBVIOUS
    <3> QED BY ONLY <3>1, FS_Interval
  <2> QED BY <2>1
<1> DEFINE S == 1 .. k
           T == 1 .. k - 1
<1>9. IsFiniteSet(S) /\ IsFiniteSet(T) /\ Cardinality(T) < Cardinality(S)
  <2>1. k \in Nat /\ k - 1 \in Nat /\ k - 1 < k
    OBVIOUS
  <2>2. Cardinality(S) = k /\ Cardinality(T) = k - 1 /\ IsFiniteSet(S) /\ IsFiniteSet(T)
    BY <1>8, <2>1
  <2> QED BY <2>1, <2>2
<1>10. \E i, j \in S : i # j /\ f[i] = f[j]
  <2>1. f \in [S -> T]
    BY <1>6
  <2> HIDE DEF f, S, T
  <2> QED BY <1>9, <2>1, FS_PigeonHole
<1> QED BY <1>7, <1>10

(* Hence whether the kbest smallest agree does not depend on the choice.   *)
LEMMA AgreeByChoice ==
  ASSUME kbest \in Nat \ {0}, epsilon \in Nat, NEW s \in Seq(Int), kbest <= Len(s),
         NEW p \in Smallest(kbest, s)
  PROVE  Agree(s) <=> (100 + epsilon) * s[p[1]] >= 100 * s[p[kbest]]
<1>1. \A q \in Smallest(kbest, s) : s[q[1]] = s[p[1]] /\ s[q[kbest]] = s[p[kbest]]
  <2> SUFFICES ASSUME NEW q \in Smallest(kbest, s)
               PROVE  s[q[1]] = s[p[1]] /\ s[q[kbest]] = s[p[kbest]]
    OBVIOUS
  <2>1. s[q[kbest]] <= s[p[kbest]] /\ s[p[kbest]] <= s[q[kbest]]
    BY LastAgrees
  <2>2. 1 \in 1 .. kbest /\ kbest \in 1 .. kbest
    OBVIOUS
  <2>3. /\ s[q[1]] \in Int /\ s[p[1]] \in Int /\ s[q[kbest]] \in Int /\ s[p[kbest]] \in Int
        /\ q[1] \in 1 .. Len(s) /\ p[1] \in 1 .. Len(s)
        /\ p[1] # q[1] => s[p[1]] <= s[q[1]] /\ s[q[1]] <= s[p[1]]
    <3>1. \A x \in 1 .. Len(s) : p[1] # x => s[p[1]] <= s[x]
      <4> SUFFICES ASSUME NEW x \in 1 .. Len(s), p[1] # x PROVE s[p[1]] <= s[x]
        OBVIOUS
      <4>1. \A j \in 1 .. 1 : p[j] # x
        OBVIOUS
      <4> QED BY <2>2, <4>1, RankFacts
    <3>2. \A x \in 1 .. Len(s) : q[1] # x => s[q[1]] <= s[x]
      <4> SUFFICES ASSUME NEW x \in 1 .. Len(s), q[1] # x PROVE s[q[1]] <= s[x]
        OBVIOUS
      <4>1. \A j \in 1 .. 1 : q[j] # x
        OBVIOUS
      <4> QED BY <2>2, <4>1, RankFacts
    <3>3. /\ s[q[1]] \in Int /\ s[p[1]] \in Int /\ s[q[kbest]] \in Int /\ s[p[kbest]] \in Int
          /\ q[1] \in 1 .. Len(s) /\ p[1] \in 1 .. Len(s)
      BY <2>2, RankFacts
    <3> QED BY <3>1, <3>2, <3>3
  <2>4. s[q[1]] = s[p[1]]
    BY <2>3
  <2> QED BY <2>1, <2>3, <2>4
<1> QED BY <1>1 DEF Agree

(* A new sample takes its place among the k smallest: it is not below      *)
(* those before its place, nor above any that does not precede it.         *)
LEMMA InsertRank ==
  ASSUME kbest \in Nat \ {0}, NEW s \in Seq(Int), NEW val \in Int,
         NEW k \in Nat, NEW p \in Smallest(k, s), NEW k2 \in {k, k + 1}, NEW to \in 1 .. k2,
         to > 1 => s[p[to - 1]] <= val,
         \A x \in 1 .. Len(s) : (\A j \in 1 .. to - 1 : p[j] # x) => val <= s[x],
         NEW q, q = [j \in 1 .. k2 |-> CASE j = to -> Len(s) + 1
                                         [] j > to -> p[j - 1]
                                         [] OTHER -> p[j]]
  PROVE  q \in Smallest(k2, Append(s, val))
<1> DEFINE t == Append(s, val)
           n == Len(s)
<1>1. /\ t \in Seq(Int) /\ Len(t) = n + 1 /\ n \in Nat /\ k2 \in Nat /\ to \in Nat
      /\ t[n + 1] = val /\ \A x \in 1 .. n : t[x] = s[x] /\ t[x] \in Int
  OBVIOUS
<1>2. /\ p \in [1 .. k -> 1 .. n] /\ \A i, j \in 1 .. k : p[i] = p[j] => i = j
      /\ \A i \in 1 .. k : \A x \in 1 .. n : (\A j \in 1 .. i : p[j] # x) => s[p[i]] <= s[x]
      /\ \A i, j \in 1 .. k : i <= j => s[p[i]] <= s[p[j]]
      /\ \A i \in 1 .. k : s[p[i]] \in Int
  BY RankFacts
<1>3. \A j \in 1 .. k2 : /\ j = to => q[j] = n + 1
                         /\ j > to => j - 1 \in 1 .. k /\ q[j] = p[j - 1]
                         /\ j < to => j \in 1 .. k /\ q[j] = p[j]
  BY <1>1
<1> HIDE DEF t, n
<1>10. /\ \A j \in 1 .. k : p[j] \in 1 .. n /\ p[j] # n + 1
       /\ \A j \in 1 .. k : t[p[j]] = s[p[j]]
  BY <1>1, <1>2
<1>4. \A j \in 1 .. k2 : q[j] \in 1 .. n + 1 /\ (q[j] = n + 1 <=> j = to)
  <2> SUFFICES ASSUME NEW j \in 1 .. k2
               PROVE  q[j] \in 1 .. n + 1 /\ (q[j] = n + 1 <=> j = to)
    OBVIOUS
  <2>1. n + 1 \in 1 .. n + 1 /\ \A x \in 1 .. n : x \in 1 .. n + 1
    BY <1>1
  <2>2. CASE j = to
    BY <1>3, <2>1, <2>2
  <2>3. CASE j > to
    <3>1. j - 1 \in 1 .. k /\ q[j] = p[j - 1] /\ j # to
      BY <1>1, <1>3, <2>3
    <3> QED BY <1>10, <2>1, <3>1
  <2>4. CASE j < to
    <3>1. j \in 1 .. k /\ q[j] = p[j] /\ j # to
      BY <1>1, <1>3, <2>4
    <3> QED BY <1>10, <2>1, <3>1
  <2> QED BY <1>1, <2>2, <2>3, <2>4
<1>5. q \in [1 .. k2 -> 1 .. Len(t)]
  BY <1>1, <1>4
<1>6. \A i, j \in 1 .. k2 : q[i] = q[j] => i = j
  <2> SUFFICES ASSUME NEW i \in 1 .. k2, NEW j \in 1 .. k2, q[i] = q[j] PROVE i = j
    OBVIOUS
  <2>1. CASE i = to \/ j = to
    BY <1>4, <2>1
  <2>2. CASE i > to /\ j > to
    <3>1. i - 1 = j - 1
      BY <1>2, <1>3, <2>2
    <3> QED BY <1>1, <3>1
  <2>3. CASE i < to /\ j < to
    BY <1>2, <1>3, <2>3
  <2>4. CASE i < to /\ j > to
    <3>1. i = j - 1
      BY <1>2, <1>3, <2>4
    <3> QED BY <1>1, <2>4, <3>1
  <2>5. CASE i > to /\ j < to
    <3>1. j = i - 1
      BY <1>2, <1>3, <2>5
    <3> QED BY <1>1, <2>5, <3>1
  <2> QED BY <1>1, <2>1, <2>2, <2>3, <2>4, <2>5
<1>7. ASSUME NEW i \in 1 .. k2, NEW x \in 1 .. n + 1, \A j \in 1 .. i : q[j] # x
      PROVE  t[q[i]] <= t[x]
  <2>1. CASE i < to
    <3>1. i \in 1 .. k /\ q[i] = p[i] /\ t[q[i]] = s[p[i]] /\ \A j \in 1 .. i : q[j] = p[j]
      <4>1. i \in 1 .. k /\ q[i] = p[i]
        BY <1>3, <2>1
      <4>2. ASSUME NEW j \in 1 .. i PROVE q[j] = p[j]
        <5>1. j \in 1 .. k2 /\ j < to
          BY <1>1, <2>1
        <5> QED BY <1>3, <5>1
      <4> QED BY <1>10, <4>1, <4>2
    <3>2. CASE x = n + 1
      <4>1. to > 1 /\ to - 1 \in 1 .. k /\ i <= to - 1
        BY <1>1, <2>1
      <4>2. s[p[i]] <= s[p[to - 1]] /\ s[p[to - 1]] <= val /\ t[x] = val
            /\ s[p[i]] \in Int /\ s[p[to - 1]] \in Int
        BY <1>1, <1>2, <3>1, <3>2, <4>1
      <4>3. s[p[i]] <= val
        <5> DEFINE a == s[p[i]]
                   b == s[p[to - 1]]
        <5>1. a <= b /\ b <= val /\ a \in Int /\ b \in Int
          BY <4>2
        <5> HIDE DEF a, b
        <5>2. a <= val
          BY <5>1
        <5> QED BY <5>2 DEF a
      <4> QED BY <3>1, <4>2, <4>3
    <3>3. CASE x \in 1 .. n
      <4>1. \A j \in 1 .. i : p[j] # x
        BY <1>7, <3>1
      <4>2. s[p[i]] <= s[x] /\ t[x] = s[x]
        BY <1>1, <1>2, <3>1, <3>3, <4>1
      <4> QED BY <3>1, <4>2
    <3> QED BY <1>1, <3>2, <3>3
  <2>2. CASE i = to
    <3>1. t[q[i]] = val /\ q[to] = n + 1
      BY <1>1, <1>3, <2>2
    <3>2. x \in 1 .. n
      <4>1. i \in 1 .. i /\ q[i] = n + 1
        BY <1>1, <2>2, <3>1
      <4>2. x # n + 1
        BY <1>7, <4>1
      <4> QED BY <1>1, <4>2
    <3>3. \A j \in 1 .. to - 1 : p[j] # x
      <4> SUFFICES ASSUME NEW j \in 1 .. to - 1 PROVE p[j] # x
        OBVIOUS
      <4>1. j \in 1 .. k2 /\ j < to /\ j \in 1 .. i
        BY <1>1, <2>2
      <4> QED BY <1>3, <1>7, <4>1
    <3>4. val <= s[x]
      BY <3>2, <3>3 DEF n
    <3> QED BY <1>1, <3>1, <3>2, <3>4
  <2>3. CASE i > to
    <3>1. i - 1 \in 1 .. k /\ q[i] = p[i - 1] /\ t[q[i]] = s[p[i - 1]]
      <4>1. i - 1 \in 1 .. k /\ q[i] = p[i - 1]
        BY <1>3, <2>3
      <4> QED BY <1>10, <4>1
    <3>2. x \in 1 .. n
      <4>1. q[to] = n + 1 /\ to \in 1 .. i
        BY <1>1, <1>3, <2>3
      <4> QED BY <1>1, <1>7, <4>1
    <3>3. \A j \in 1 .. i - 1 : p[j] # x
      <4> SUFFICES ASSUME NEW j \in 1 .. i - 1 PROVE p[j] # x
        OBVIOUS
      <4>1. CASE j < to
        <5>1. j \in 1 .. k2 /\ j \in 1 .. i
          BY <1>1
        <5> QED BY <1>3, <1>7, <4>1, <5>1
      <4>2. CASE j >= to
        <5>1. j + 1 \in 1 .. k2 /\ j + 1 \in 1 .. i /\ j + 1 > to /\ (j + 1) - 1 = j
          <6>1. k2 \in Nat /\ to \in Nat /\ i \in 1 .. k2 /\ j \in 1 .. i - 1
            BY <1>1
          <6> QED BY ONLY <4>2, <6>1
        <5>2. q[j + 1] = p[j]
          BY <1>3, <5>1
        <5> QED BY <1>7, <5>1, <5>2
      <4> QED BY <1>1, <4>1, <4>2
    <3>4. s[p[i - 1]] <= s[x] /\ t[x] = s[x]
      BY <1>1, <1>2, <3>1, <3>2, <3>3
    <3> QED BY <3>1, <3>4
  <2> QED BY <1>1, <2>1, <2>2, <2>3
<1>8. \A i \in 1 .. k2 : \A x \in 1 .. Len(t) :
        (\A j \in 1 .. i : q[j] # x) => t[q[i]] <= t[x]
  BY <1>1, <1>7
<1>9. q \in Smallest(k2, t)
  BY <1>1, <1>5, <1>6, <1>8, RankIntro
<1> QED BY <1>9 DEF t

\* A new sample that is not below the k smallest is not one of them.
LEMMA SkipRank ==
  ASSUME kbest \in Nat \ {0}, NEW s \in Seq(Int), NEW val \in Int,
         NEW k \in Nat \ {0}, NEW p \in Smallest(k, s), s[p[k]] <= val
  PROVE  p \in Smallest(k, Append(s, val))
<1> DEFINE t == Append(s, val)
           n == Len(s)
<1>1. /\ t \in Seq(Int) /\ Len(t) = n + 1 /\ n \in Nat /\ k \in Nat
      /\ t[n + 1] = val /\ \A x \in 1 .. n : t[x] = s[x] /\ t[x] \in Int
  OBVIOUS
<1>2. /\ p \in [1 .. k -> 1 .. n] /\ \A i, j \in 1 .. k : p[i] = p[j] => i = j
      /\ \A i \in 1 .. k : \A x \in 1 .. n : (\A j \in 1 .. i : p[j] # x) => s[p[i]] <= s[x]
      /\ \A i, j \in 1 .. k : i <= j => s[p[i]] <= s[p[j]]
      /\ \A i \in 1 .. k : s[p[i]] \in Int
  BY RankFacts
<1> HIDE DEF t, n
<1>3. p \in [1 .. k -> 1 .. Len(t)]
  BY <1>1, <1>2
<1>4. ASSUME NEW i \in 1 .. k, NEW x \in 1 .. n + 1, \A j \in 1 .. i : p[j] # x
      PROVE  t[p[i]] <= t[x]
  <2>1. t[p[i]] = s[p[i]] /\ k \in 1 .. k /\ i <= k
    BY <1>1, <1>2
  <2>2. CASE x = n + 1
    <3>1. s[p[i]] <= s[p[k]] /\ s[p[i]] \in Int /\ s[p[k]] \in Int /\ t[x] = val
      BY <1>1, <1>2, <2>1, <2>2
    <3> QED BY <2>1, <3>1
  <2>3. CASE x \in 1 .. n
    BY <1>1, <1>2, <1>4, <2>1, <2>3
  <2> QED BY <1>1, <2>2, <2>3
<1>5. \A i \in 1 .. k : \A x \in 1 .. Len(t) :
        (\A j \in 1 .. i : p[j] # x) => t[p[i]] <= t[x]
  BY <1>1, <1>4
<1>6. p \in Smallest(k, t)
  BY <1>1, <1>2, <1>3, <1>5, RankIntro
<1> QED BY <1>6 DEF t

\* The sample is put at pos: behind the others, or for the largest.
GoesIn(s, p, val, pos) ==
  \/ pos = Len(s) + 1
  \/ Len(s) >= kbest /\ pos = kbest /\ val < s[p[kbest]]

(* Where a sample goes that is among the kbest smallest: at to, as the     *)
(* insertion sort finds it, whether the row grows or its last one drops.   *)
LEMMA SortedAt ==
  ASSUME kbest \in Nat \ {0}, NEW s \in Seq(Int), NEW val \in Int, NEW p, Ranks(s, p),
         NEW pos \in 1 .. kbest, GoesIn(s, p, val, pos)
  PROVE  Shows(Inserted([Row(s, p) EXCEPT ![pos] = val], pos), Append(s, val))
<1> DEFINE vals == [Row(s, p) EXCEPT ![pos] = val]
           n == Len(s)
           k == KeptCount(s)
           t == Append(s, val)
<1>1. /\ t \in Seq(Int) /\ Len(t) = n + 1 /\ n \in Nat
      /\ t[n + 1] = val /\ \A x \in 1 .. n : t[x] = s[x] /\ s[x] \in Int
      /\ DOMAIN s = 1 .. n
  OBVIOUS
<1>2. /\ k \in Nat /\ pos \in {k, k + 1} /\ KeptCount(t) = pos /\ k <= n
      /\ pos = k + 1 => n = k /\ n < kbest
      /\ pos = k => k = kbest /\ n >= kbest /\ val < s[p[kbest]]
  <2>1. k = IF n < kbest THEN n ELSE kbest
    BY DEF KeptCount
  <2>2. KeptCount(t) = IF n + 1 < kbest THEN n + 1 ELSE kbest
    BY <1>1 DEF KeptCount
  <2>5. n \in Nat /\ (pos = n + 1 \/ (n >= kbest /\ pos = kbest /\ val < s[p[kbest]]))
    <3>1. pos = n + 1 \/ (n >= kbest /\ pos = kbest /\ val < s[p[kbest]])
      BY DEF GoesIn
    <3> HIDE DEF n
    <3> QED BY <1>1, <3>1
  <2> HIDE DEF n, k, t
  <2>3. CASE pos = n + 1
    <3>1. n < kbest /\ k = n /\ KeptCount(t) = n + 1
      BY <2>1, <2>2, <2>3, <2>5
    <3> QED BY <2>3, <2>5, <3>1
  <2>4. CASE n >= kbest /\ pos = kbest /\ val < s[p[kbest]]
    <3>1. k = kbest /\ KeptCount(t) = kbest /\ kbest # kbest + 1
      BY <2>1, <2>2, <2>4, <2>5
    <3> QED BY <2>4, <2>5, <3>1
  <2> QED BY <2>3, <2>4, <2>5
<1>3. /\ p \in Smallest(k, s)
      /\ n < kbest => \A x \in 1 .. n : \E i \in 1 .. n : p[i] = x
  BY <1>1 DEF Ranks
<1> HIDE DEF n, k, t
<1>4. /\ p \in [1 .. k -> 1 .. n]
      /\ \A i \in 1 .. k : \A x \in 1 .. n : (\A j \in 1 .. i : p[j] # x) => s[p[i]] <= s[x]
      /\ \A i \in 1 .. k : s[p[i]] \in Int
  BY <1>2, <1>3, RankFacts DEF n
<1>5. /\ \A i \in 1 .. kbest : vals[i] = IF i = pos THEN val ELSE IF i \in 1 .. k THEN s[p[i]] ELSE 0
      /\ DOMAIN p = 1 .. k
  BY <1>4 DEF Row
<1> HIDE DEF vals
<1>6. Numbers(vals)
  BY <1>4, <1>5 DEF Numbers
<1>7. PICK to \in 1 .. pos : MovedTo(vals, pos, to)
  BY <1>6, InsertedMoves
<1>18. /\ \A i \in to .. pos - 1 : vals[i] > vals[pos]
       /\ to > 1 => vals[to - 1] <= vals[pos]
       /\ Inserted(vals, pos) =
            [i \in 1 .. kbest |-> CASE i = to -> vals[pos]
                                   [] i > to /\ i <= pos -> vals[i - 1]
                                   [] OTHER -> vals[i]]
  BY <1>7 DEF MovedTo
<1>8. vals[pos] = val /\ \A i \in 1 .. pos - 1 : i \in 1 .. k /\ vals[i] = s[p[i]]
  BY <1>2, <1>5
<1>9. to > 1 => s[p[to - 1]] <= val
  BY <1>2, <1>18, <1>8
<1>10. ASSUME NEW x \in 1 .. n, \A j \in 1 .. to - 1 : p[j] # x PROVE val <= s[x]
  <2>1. CASE to \in 1 .. k
    <3>1. val < s[p[to]]
      <4>1. CASE to < pos
        <5>1. to \in to .. pos - 1 /\ to \in 1 .. pos - 1
          BY <4>1
        <5> QED BY <1>18, <1>8, <5>1
      <4>2. CASE to = pos
        BY <1>2, <2>1, <4>2
      <4> QED BY <4>1, <4>2
    <3>2. s[p[to]] \in Int /\ s[x] \in Int
      BY <1>1, <1>4, <2>1
    <3>3. CASE p[to] = x
      BY <3>1, <3>2, <3>3
    <3>4. CASE p[to] # x
      <4>1. \A j \in 1 .. to : p[j] # x
        <5> SUFFICES ASSUME NEW j \in 1 .. to PROVE p[j] # x
          OBVIOUS
        <5>1. j = to \/ j \in 1 .. to - 1
          BY <2>1
        <5> QED BY <1>10, <3>4, <5>1
      <4>2. s[p[to]] <= s[x]
        BY <1>4, <2>1, <4>1
      <4> QED BY <3>1, <3>2, <4>2
    <3> QED BY <3>3, <3>4
  <2>2. CASE to \notin 1 .. k
    <3>1. pos = k + 1 /\ to = k + 1 /\ n = k /\ n < kbest
      BY <1>2, <2>2
    <3>2. PICK i \in 1 .. n : p[i] = x
      BY <1>3, <3>1
    <3>3. i \in 1 .. to - 1
      BY <1>1, <3>1
    <3> QED BY <1>10, <3>2, <3>3
  <2> QED BY <2>1, <2>2
<1> DEFINE q == [j \in 1 .. pos |-> CASE j = to -> Len(s) + 1
                                      [] j > to -> p[j - 1]
                                      [] OTHER -> p[j]]
<1>11. q \in Smallest(KeptCount(t), t)
  <2>1. \A x \in 1 .. Len(s) : (\A j \in 1 .. to - 1 : p[j] # x) => val <= s[x]
    BY <1>10 DEF n
  <2>3. q = [j \in 1 .. pos |-> CASE j = to -> Len(s) + 1
                                  [] j > to -> p[j - 1]
                                  [] OTHER -> p[j]]
    OBVIOUS
  <2> HIDE DEF q
  <2>2. q \in Smallest(pos, t)
    <3>1. k \in Nat /\ pos \in {k, k + 1} /\ p \in Smallest(k, s)
      BY <1>2, <1>3
    <3> QED BY <1>9, <2>1, <2>3, <3>1, InsertRank DEF t
  <2> QED BY <1>2, <2>2
<1>12. \A j \in 1 .. pos : q[j] = CASE j = to -> n + 1 [] j > to -> p[j - 1] [] OTHER -> p[j]
  BY DEF n
<1>13. DOMAIN q = 1 .. pos
  OBVIOUS
<1> HIDE DEF q
<1>14. ASSUME Len(t) < kbest, NEW x \in 1 .. Len(t) PROVE \E i \in 1 .. Len(t) : q[i] = x
  <2>1. pos = n + 1 /\ Len(t) = n + 1 /\ n = k /\ n < kbest
    BY <1>1, <1>2, <1>14
  <2>2. CASE x = n + 1
    <3>1. to \in 1 .. n + 1 /\ q[to] = n + 1
      BY <1>12, <2>1
    <3> QED BY <2>1, <2>2, <3>1
  <2>3. CASE x \in 1 .. n
    <3>1. PICK i \in 1 .. n : p[i] = x
      BY <1>3, <2>1, <2>3
    <3>2. CASE i < to
      <4>1. i \in 1 .. n + 1 /\ q[i] = p[i]
        BY <1>12, <2>1, <3>2
      <4> QED BY <2>1, <3>1, <4>1
    <3>3. CASE i >= to
      <4>1. i + 1 \in 1 .. n + 1 /\ i + 1 > to /\ (i + 1) - 1 = i /\ i + 1 # to
        BY <1>1, <3>3
      <4>2. q[i + 1] = p[i]
        BY <1>12, <2>1, <4>1
      <4> QED BY <2>1, <3>1, <4>1, <4>2
    <3> QED BY <3>2, <3>3
  <2> QED BY <2>1, <2>2, <2>3, <1>1
<1>15. Ranks(t, q)
  <2>1. DOMAIN t = 1 .. Len(t)
    BY <1>1
  <2> QED BY <1>11, <1>14, <2>1 DEF Ranks
<1>16. ASSUME NEW i \in 1 .. kbest PROVE Inserted(vals, pos)[i] = Row(t, q)[i]
  <2>1. Row(t, q)[i] = IF i \in 1 .. pos THEN t[q[i]] ELSE 0
    BY <1>13 DEF Row
  <2>2. Inserted(vals, pos)[i] = CASE i = to -> vals[pos]
                                   [] i > to /\ i <= pos -> vals[i - 1]
                                   [] OTHER -> vals[i]
    BY <1>18
  <2>3. CASE i = to
    BY <1>1, <1>8, <1>12, <2>1, <2>2, <2>3
  <2>4. CASE i > to /\ i <= pos
    <3>1. i - 1 \in 1 .. pos - 1 /\ i # to /\ i \in 1 .. pos
      BY <2>4
    <3>2. q[i] = p[i - 1] /\ p[i - 1] \in 1 .. n /\ vals[i - 1] = s[p[i - 1]]
      BY <1>4, <1>8, <1>12, <2>4, <3>1
    <3> QED BY <1>1, <2>1, <2>2, <2>4, <3>1, <3>2
  <2>5. CASE i < to
    <3>1. i \in 1 .. pos - 1 /\ i # to /\ ~ (i > to) /\ i \in 1 .. pos
      BY <2>5
    <3>2. q[i] = p[i] /\ p[i] \in 1 .. n /\ vals[i] = s[p[i]]
      BY <1>4, <1>8, <1>12, <2>5, <3>1
    <3> QED BY <1>1, <2>1, <2>2, <2>5, <3>1, <3>2
  <2>6. CASE i > pos
    <3>1. i # to /\ ~ (i > to /\ i <= pos) /\ i \notin 1 .. pos /\ i # pos /\ i \notin 1 .. k
      BY <1>2, <2>6
    <3> QED BY <1>5, <2>1, <2>2, <3>1
  <2> QED BY <2>3, <2>4, <2>5, <2>6
<1>17. Inserted(vals, pos) = Row(t, q)
  <2>1. Inserted(vals, pos) = [i \in 1 .. kbest |-> Inserted(vals, pos)[i]]
    BY <1>18
  <2>2. Row(t, q) = [i \in 1 .. kbest |-> Row(t, q)[i]]
    BY DEF Row
  <2> QED BY <1>16, <2>1, <2>2
<1> QED BY <1>15, <1>17 DEF t, vals, Shows

(* After add_sample has sorted it in, the row is that of the new ranking.  *)
LEMMA SortedRow ==
  ASSUME kbest \in Nat \ {0}, NEW s \in Seq(Int), samplecount = Len(s), NEW val \in Int,
         Shows(values, s)
  PROVE  Shows(SortedIn(val), Append(s, val))
<1>0. PICK p : Ranks(s, p) /\ values = Row(s, p)
  BY DEF Shows
<1>1. Len(s) \in Nat
  OBVIOUS
<1>2. CASE samplecount < kbest
  <2>1. samplecount + 1 \in 1 .. kbest
    BY <1>1, <1>2
  <2>2. SortedIn(val) = Inserted([values EXCEPT ![samplecount + 1] = val], samplecount + 1)
    BY <1>2 DEF SortedIn, Placed
  <2>4. samplecount + 1 = Len(s) + 1
    OBVIOUS
  <2>6. GoesIn(s, p, val, samplecount + 1)
    BY <2>4 DEF GoesIn
  <2>5. Shows(Inserted([Row(s, p) EXCEPT ![samplecount + 1] = val], samplecount + 1),
              Append(s, val))
    BY <1>0, <2>1, <2>6, SortedAt
  <2> QED BY <1>0, <2>2, <2>5
<1>3. CASE samplecount >= kbest
  <2>1. p \in Smallest(kbest, s) /\ kbest \in Nat /\ kbest \in 1 .. kbest /\ ~ (samplecount < kbest)
    BY <1>0, <1>1, <1>3 DEF Ranks, KeptCount
  <2>2. p \in [1 .. kbest -> 1 .. Len(s)] /\ s[p[kbest]] \in Int
    BY <2>1, RankFacts
  <2>3. values[kbest] = s[p[kbest]]
    BY <1>0, <2>1, <2>2 DEF Row
  <2>4. CASE val < s[p[kbest]]
    <3>1. SortedIn(val) = Inserted([values EXCEPT ![kbest] = val], kbest)
      BY <1>3, <2>1, <2>3, <2>4 DEF SortedIn, Placed
    <3>2. GoesIn(s, p, val, kbest)
      BY <1>3, <2>4 DEF GoesIn
    <3>3. Shows(Inserted([Row(s, p) EXCEPT ![kbest] = val], kbest), Append(s, val))
      BY <1>0, <2>1, <3>2, SortedAt
    <3> QED BY <1>0, <3>1, <3>3
  <2>5. CASE ~ (val < s[p[kbest]])
    <3>1. SortedIn(val) = Inserted(values, 1)
      BY <1>3, <2>1, <2>3, <2>5 DEF SortedIn, Placed
    <3>2. /\ values = [i \in 1 .. kbest |-> s[p[i]]]
          /\ \A i \in 1 .. kbest : values[i] \in Int
      <4>1. \A i \in 1 .. kbest : s[p[i]] \in Int
        BY <2>1, RankFacts
      <4> QED BY <1>0, <2>2, <4>1 DEF Row
    <3>3. Inserted(values, 1) = values
      <4>1. 1 \in 1 .. kbest
        OBVIOUS
      <4>2. PICK to \in 1 .. 1 : MovedTo(values, 1, to)
        BY <3>2, <4>1, InsertedMoves DEF Numbers
      <4>3. Inserted(values, 1) = [i \in 1 .. kbest |-> values[i]]
        BY <4>2 DEF MovedTo
      <4> QED BY <3>2, <4>3
    <3>4. p \in Smallest(kbest, Append(s, val))
      BY <2>1, <2>2, <2>5, SkipRank
    <3>5. Row(Append(s, val), p) = values
      <4>1. \A i \in 1 .. kbest : Append(s, val)[p[i]] = s[p[i]]
        BY <2>2
      <4> QED BY <2>2, <3>2, <4>1 DEF Row
    <3>6. Ranks(Append(s, val), p)
      <4>1. Len(Append(s, val)) = Len(s) + 1 /\ KeptCount(Append(s, val)) = kbest
        BY <1>1, <1>3 DEF KeptCount
      <4> QED BY <1>0, <1>1, <1>3, <3>4, <4>1 DEF Ranks
    <3> QED BY <3>1, <3>3, <3>5, <3>6 DEF Shows
  <2> QED BY <2>4, <2>5
<1> QED BY <1>1, <1>2, <1>3

----------------------------------------------------------------------------
(* The inductive invariant of the row, and that each step keeps it.        *)

ParameterTypes ==
  kbest \in Nat \ {0} /\ maxsamples \in Nat /\ epsilon \in Nat /\ cache_bytes \in Nat \ {0}

\* As long as fcyc runs it has reason to.
InProgress ==
  step \notin {"idle", "exit"} =>
    /\ samplecount = Len(samples) /\ ~ Agree(samples)
    /\ samples # <<>> => Len(samples) < maxsamples

Showing == IF step = "idle" THEN values = <<>> ELSE Shows(values, samples)

\* It has returned the smallest sample, with reason to stop.
Returned ==
  step = "idle" /\ samples # <<>> =>
    /\ Agree(samples) \/ Len(samples) >= maxsamples
    /\ \E p \in Smallest(1, samples) : result = samples[p[1]]

RowInv == InProgress /\ Showing /\ Returned

Buffer == cache_buf \in {NoBuffer, cache_bytes}

BestInv == SampleInv /\ ParameterTypes /\ RowInv /\ Buffer

\* Steps within a sample leave the row alone.
LEMMA RowSame ==
  ASSUME RowInv, UNCHANGED <<kbest, maxsamples, epsilon, sampler>>,
         step' = step \/ (step \notin {"idle", "exit"} /\ step' # "idle")
  PROVE  RowInv'
<1>1. Agree(samples)' <=> Agree(samples)
  BY DEF Agree, sampler
<1>2. Shows(values, samples) => Shows(values, samples)'
  BY DEF Shows, Ranks, KeptCount, Row, sampler
<1>3. InProgress'
  BY <1>1 DEF RowInv, InProgress, sampler
<1>4. Showing'
  BY <1>2 DEF RowInv, Showing, sampler
<1>5. Returned'
  BY <1>1 DEF RowInv, Returned, sampler
<1> QED BY <1>3, <1>4, <1>5 DEF RowInv

(* A sample is added: the row shows one sample more, it has converged just *)
(* when the kbest smallest agree, and its first element is the smallest.   *)
LEMMA ConvergedAgrees ==
  ASSUME ParameterTypes, NEW t \in Seq(Int), NEW row, Shows(row, t)
  PROVE  has_converged(row, Len(t)) <=> Agree(t)
<1>1. Len(t) \in Nat /\ kbest \in Nat \ {0} /\ epsilon \in Nat
  BY DEF ParameterTypes
<1>2. CASE Len(t) >= kbest
  <2>1. PICK q : Ranks(t, q) /\ row = Row(t, q)
    BY DEF Shows
  <2>2. q \in Smallest(kbest, t)
    BY <1>1, <1>2, <2>1 DEF Ranks, KeptCount
  <2>3. q \in [1 .. kbest -> 1 .. Len(t)] /\ 1 \in 1 .. kbest /\ kbest \in 1 .. kbest
    BY <1>1, <2>2, RankFacts
  <2>4. row[1] = t[q[1]] /\ row[kbest] = t[q[kbest]]
    BY <2>1, <2>3 DEF Row
  <2>5. Agree(t) <=> (100 + epsilon) * t[q[1]] >= 100 * t[q[kbest]]
    BY <1>1, <1>2, <2>2, AgreeByChoice
  <2> QED BY <1>2, <2>4, <2>5 DEF has_converged
<1>3. CASE ~ (Len(t) >= kbest)
  BY <1>3 DEF has_converged, Agree
<1> QED BY <1>2, <1>3

\* The first element of the row is the smallest sample.
LEMMA FirstIsSmallest ==
  ASSUME ParameterTypes, NEW t \in Seq(Int), t # <<>>, NEW row, Shows(row, t)
  PROVE  \E p \in Smallest(1, t) : row[1] = t[p[1]]
<1>1. Len(t) \in Nat \ {0} /\ kbest \in Nat \ {0}
  BY DEF ParameterTypes
<1>2. PICK q : Ranks(t, q) /\ row = Row(t, q)
  BY DEF Shows
<1> DEFINE k == KeptCount(t)
<1>3. k \in Nat /\ 1 \in 1 .. k /\ 1 \in 1 .. kbest /\ q \in Smallest(k, t)
  BY <1>1, <1>2 DEF Ranks, KeptCount
<1> HIDE DEF k
<1>4. /\ q \in [1 .. k -> 1 .. Len(t)]
      /\ \A i \in 1 .. k : \A x \in 1 .. Len(t) : (\A j \in 1 .. i : q[j] # x) => t[q[i]] <= t[x]
  BY <1>1, <1>3, RankFacts
<1>5. row[1] = t[q[1]]
  BY <1>2, <1>3, <1>4 DEF Row
<1> DEFINE p == [i \in 1 .. 1 |-> q[1]]
<1>6. p \in [1 .. 1 -> 1 .. Len(t)] /\ p[1] = q[1]
  BY <1>3, <1>4
<1>7. \A i, j \in 1 .. 1 : p[i] = p[j] => i = j
  OBVIOUS
<1> HIDE DEF p
<1>8. ASSUME NEW i \in 1 .. 1, NEW x \in 1 .. Len(t), \A j \in 1 .. i : p[j] # x
      PROVE  t[p[i]] <= t[x]
  <2>1. i = 1 /\ \A j \in 1 .. 1 : q[j] # x
    BY <1>6, <1>8
  <2> QED BY <1>3, <1>4, <1>6, <2>1
<1>9. p \in Smallest(1, t)
  <2>1. 1 \in Nat
    OBVIOUS
  <2> QED BY <1>6, <1>7, <1>8, <2>1, RankIntro
<1> QED BY <1>5, <1>6, <1>9

\* Add_sample keeps the row, and goes on or returns as it should.
LEMMA RowAdd ==
  ASSUME RowInv, ParameterTypes, samples \in Seq(Int), step \notin {"idle", "exit"},
         NEW val \in Int, add_sample(val), UNCHANGED <<kbest, maxsamples, epsilon>>
  PROVE  RowInv'
<1> DEFINE t == Append(samples, val)
           row == SortedIn(val)
<1>1. t \in Seq(Int) /\ Len(t) = Len(samples) + 1 /\ t # <<>> /\ Len(t) \in Nat
  <2>1. t \in Seq(Int) /\ Len(t) = Len(samples) + 1 /\ Len(samples) \in Nat
    OBVIOUS
  <2>2. Len(<<>>) = 0 /\ Len(samples) + 1 # 0
    BY <2>1
  <2> HIDE DEF t
  <2> QED BY <2>1, <2>2
<1>2. samplecount = Len(samples) /\ Shows(values, samples)
  BY DEF RowInv, InProgress, Showing
<1>3. Shows(row, t)
  BY <1>2, SortedRow DEF ParameterTypes
<1>4. has_converged(row, Len(t)) <=> Agree(t)
  <2> HIDE DEF t, row
  <2> QED BY <1>1, <1>3, ConvergedAgrees
<1>5. /\ samples' = t /\ samplecount' = Len(t)
      /\ IF ~ has_converged(row, Len(t)) /\ Len(t) < maxsamples
         THEN values' = row /\ step' = "clear"
         ELSE values' = <<>> /\ step' = "idle" /\ result' = row[1]
  BY <1>1, <1>2 DEF add_sample
<1>6. \E p \in Smallest(1, t) : row[1] = t[p[1]]
  <2> HIDE DEF t, row
  <2> QED BY <1>1, <1>3, FirstIsSmallest
<1> HIDE DEF t, row
<1>7. Agree(samples)' <=> Agree(t)
  BY <1>5 DEF Agree
<1>8. CASE ~ has_converged(row, Len(t)) /\ Len(t) < maxsamples
  <2>1. Shows(values, samples)'
    BY <1>3, <1>5, <1>8 DEF Shows, Ranks, KeptCount, Row
  <2> QED BY <1>1, <1>4, <1>5, <1>7, <1>8, <2>1 DEF RowInv, InProgress, Showing, Returned
<1>9. CASE ~ (~ has_converged(row, Len(t)) /\ Len(t) < maxsamples)
  <2>1. Agree(t) \/ Len(t) >= maxsamples
    BY <1>1, <1>4, <1>9 DEF ParameterTypes
  <2> QED BY <1>1, <1>5, <1>6, <1>7, <1>9, <2>1 DEF RowInv, InProgress, Showing, Returned
<1> QED BY <1>8, <1>9

\* Init_sampler: no sample is there yet.
LEMMA RowCall == RowInv /\ ParameterTypes /\ Call => RowInv'
<1> SUFFICES ASSUME RowInv, ParameterTypes, Call PROVE RowInv'
  OBVIOUS
<1>1. /\ values' = [k \in 1 .. kbest |-> 0] /\ samplecount' = 0 /\ samples' = <<>>
      /\ step' = "clear" /\ kbest' = kbest
  BY DEF Call, parameters
<1>2. kbest' \in Nat \ {0} /\ Len(samples') = 0
  BY <1>1 DEF ParameterTypes
<1>3. ~ Agree(samples)'
  BY <1>2 DEF Agree
<1>4. Shows(values, samples)'
  <2> DEFINE p == [i \in 1 .. 0 |-> 0]
  <2>1. Smallest(KeptCount(samples), samples)' = Smallest(0, <<>>)
    BY <1>1, <1>2 DEF KeptCount
  <2>2. p \in Smallest(0, <<>>)
    BY DEF Smallest, Injection, IsInjective
  <2>3. DOMAIN p = {} /\ DOMAIN samples' = {}
    BY <1>1
  <2> HIDE DEF p
  <2>4. Ranks(samples, p)'
    BY <2>1, <2>2, <2>3 DEF Ranks
  <2>5. values' = Row(samples, p)'
    BY <1>1, <2>3 DEF Row
  <2> QED BY <2>4, <2>5 DEF Shows
<1> QED BY <1>1, <1>2, <1>3, <1>4 DEF RowInv, InProgress, Showing, Returned

\* Each step of fcyc keeps the row, and the parameters while it runs.
LEMMA BestStep == BestInv /\ [FcycNext]_fcycVars => BestInv'
<1> SUFFICES ASSUME BestInv, [FcycNext]_fcycVars PROVE BestInv'
  OBVIOUS
<1>0. SampleInv' /\ SampleInv /\ ParameterTypes /\ RowInv /\ Buffer /\ samples \in Seq(Int)
  BY SampleStep DEF BestInv, SampleInv, SampleTypes
<1> SUFFICES ParameterTypes' /\ RowInv' /\ Buffer'
  BY <1>0 DEF BestInv
<1>1. CASE Set
  <2>1. ParameterTypes' /\ Buffer'
    BY <1>0, <1>1, FcycAssumption DEF Set, ParameterTypes, Buffer
  <2>2. RowInv'
    BY <1>0, <1>1 DEF Set, RowInv, InProgress, Showing, Returned
  <2> QED BY <2>1, <2>2
<1>2. ASSUME NEW bytes \in CacheBytes, set_fcyc_cache_size(bytes)
      PROVE  ParameterTypes' /\ RowInv' /\ Buffer'
  <2>1. ParameterTypes' /\ Buffer'
    BY <1>0, <1>2, FcycAssumption
       DEF set_fcyc_cache_size, ParameterTypes, Buffer, BufferAfter
  <2>2. RowInv'
    BY <1>0, <1>2, RowSame DEF set_fcyc_cache_size
  <2> QED BY <2>1, <2>2
<1>3. CASE Call
  <2>1. ParameterTypes' /\ Buffer'
    BY <1>0, <1>3 DEF Call, parameters, ParameterTypes, Buffer
  <2> QED BY <1>0, <1>3, <2>1, RowCall
<1>4. ASSUME UNCHANGED <<parameters, sampler>>,
             step' = step \/ (step \notin {"idle", "exit"} /\ step' # "idle"),
             cache_buf' \in {cache_buf, cache_bytes}
      PROVE  ParameterTypes' /\ RowInv' /\ Buffer'
  <2>1. ParameterTypes' /\ Buffer'
    BY <1>0, <1>4 DEF parameters, ParameterTypes, Buffer
  <2>2. RowInv'
    BY <1>0, <1>4, RowSame DEF parameters
  <2> QED BY <2>1, <2>2
<1>5. CASE Clear
  BY <1>4, <1>5 DEF Clear
<1>6. CASE ClearFails
  BY <1>4, <1>6 DEF ClearFails
<1>7. CASE Times
  BY <1>4, <1>7 DEF Times
<1>8. CASE Start
  BY <1>4, <1>8 DEF Start
<1>9. ASSUME NEW cost \in Costs, Run(cost)
      PROVE  ParameterTypes' /\ RowInv' /\ Buffer'
  BY <1>4, <1>9 DEF Run
<1>10. ASSUME NEW val \in Int, add_sample(val), step \in {"get", "stop"},
              UNCHANGED <<parameters, cache_buf>>
       PROVE  ParameterTypes' /\ RowInv' /\ Buffer'
  <2>1. ParameterTypes' /\ Buffer'
    BY <1>0, <1>10 DEF parameters, ParameterTypes, Buffer
  <2>2. RowInv'
    BY <1>0, <1>10, RowAdd DEF parameters
  <2> QED BY <2>1, <2>2
<1>11. CASE Get
  <2>1. get_counter \in Int
    BY <1>0, GetCounterRight DEF SampleInv
  <2> QED BY <1>10, <1>11, <2>1 DEF Get
<1>12. CASE GetComp
  BY <1>4, <1>12 DEF GetComp
<1>13. CASE Stop
  <2>1. time - (tms_utime - start_tick) * cyc_per_tick \in Int
    <3>1. time \in Int /\ tms_utime - start_tick \in Int /\ cyc_per_tick \in Int
      BY <1>0, ClockConstants DEF SampleInv, SampleTypes, ClockTypes
    <3> QED BY <3>1
  <2> QED BY <1>10, <1>13, <2>1 DEF Stop
<1>14. CASE Interrupt
  BY <1>4, <1>14 DEF Interrupt
<1>15. CASE UNCHANGED fcycVars
  BY <1>4, <1>15 DEF fcycVars
<1> QED BY <1>1, <1>2, <1>3, <1>5, <1>6, <1>7, <1>8, <1>9, <1>11, <1>12, <1>13, <1>14, <1>15
    DEF FcycNext, Ended

\* The first state.
LEMMA BestInit == FcycInit => BestInv
<1> SUFFICES ASSUME FcycInit PROVE BestInv
  OBVIOUS
<1>1. SampleInv
  BY SampleInit
<1>2. ParameterTypes
  BY FcycAssumption DEF FcycInit, ParameterTypes
<1> QED BY <1>1, <1>2 DEF FcycInit, BestInv, RowInv, InProgress, Showing, Returned, Buffer

\* The invariant says what the property does.
LEMMA BestOfRow == BestInv => BestOfSamples
<1> SUFFICES ASSUME BestInv PROVE BestOfSamples
  OBVIOUS
<1>1. values # <<>> => \E p \in Smallest(KeptCount(samples), samples) : values = Row(samples, p)
  BY DEF BestInv, RowInv, Showing, Shows, Ranks
<1> QED BY <1>1 DEF BestInv, RowInv, InProgress, Returned, Buffer, BestOfSamples

(* For every number of samples kept, every tolerance, every bound and any  *)
(* costs: fcyc keeps the smallest samples in their order, stops just when  *)
(* it should, and returns the smallest.                                    *)
THEOREM BestAreKept == FcycSpec => []BestOfSamples
<1> QED BY BestInit, BestStep, BestOfRow, PTL DEF FcycSpec

\* The types, the count of the samples among them.
LEMMA CountStep == samplecount \in Nat /\ [FcycNext]_fcycVars => (samplecount \in Nat)'
<1> SUFFICES ASSUME samplecount \in Nat, [FcycNext]_fcycVars PROVE samplecount' \in Nat
  OBVIOUS
<1>1. CASE Set \/ Call \/ \E bytes \in CacheBytes : set_fcyc_cache_size(bytes)
  BY <1>1 DEF Set, Call, set_fcyc_cache_size, sampler
<1>2. CASE Clear \/ ClearFails \/ Times \/ Start \/ GetComp \/ Interrupt
  BY <1>2 DEF Clear, ClearFails, Times, Start, GetComp, Interrupt, sampler
<1>3. CASE \E cost \in Costs : Run(cost)
  BY <1>3 DEF Run, sampler
<1>4. CASE Get \/ Stop
  BY <1>4 DEF Get, Stop, add_sample
<1>5. CASE UNCHANGED fcycVars
  BY <1>5 DEF fcycVars, sampler
<1> QED BY <1>1, <1>2, <1>3, <1>4, <1>5 DEF FcycNext, Ended

LEMMA TypesOfRow == BestInv /\ samplecount \in Nat => FcycTypeOK
<1> SUFFICES ASSUME BestInv, samplecount \in Nat PROVE FcycTypeOK
  OBVIOUS
<1>1. ClockTypes /\ SampleTypes /\ kbest \in Nat \ {0} /\ Showing
  BY DEF BestInv, SampleInv, ParameterTypes, RowInv
<1>2. CASE step = "idle"
  BY <1>1, <1>2 DEF Showing, FcycTypeOK, ClockTypes, SampleTypes
<1>3. CASE step # "idle"
  <2>1. samples \in Seq(Int)
    BY <1>1 DEF SampleTypes
  <2>2. PICK p : p \in Smallest(KeptCount(samples), samples) /\ values = Row(samples, p)
    BY <1>1, <1>3 DEF Showing, Shows, Ranks
  <2>3. PICK k \in Nat : k = KeptCount(samples)
    BY <1>1, <2>1 DEF KeptCount
  <2>4. p \in [1 .. k -> 1 .. Len(samples)] /\ \A nth \in 1 .. k : samples[p[nth]] \in Int
    BY <1>1, <2>1, <2>2, <2>3, RankFacts
  <2>5. values \in [1 .. kbest -> Int]
    BY <2>2, <2>4 DEF Row
  <2>6. values \in Seq(Int) /\ Len(values) = kbest
    BY <1>1, <2>5
  <2> QED BY <1>1, <2>6 DEF FcycTypeOK, ClockTypes, SampleTypes
<1> QED BY <1>2, <1>3

\* The types hold in every state of fcyc.
LEMMA FcycTypes == FcycSpec => []FcycTypeOK
<1>1. FcycInit => samplecount \in Nat
  BY DEF FcycInit
<1> QED BY <1>1, BestInit, BestStep, CountStep, TypesOfRow, PTL DEF FcycSpec
=============================================================================
