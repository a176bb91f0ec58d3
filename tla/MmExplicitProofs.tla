-------------------------- MODULE MmExplicitProofs --------------------------
(***************************************************************************)
(* Proofs about the allocator of mm.c (modules MmExplicit and MmCaller),   *)
(* for every heap size, every set of requests and every data of the        *)
(* caller: first the tags, then the walk along the free list, then what    *)
(* inserting, removing and splitting do to a heap with such a list, then   *)
(* the theorems.  After them, about the driver with either allocator       *)
(* (module Mdriver), for every trace of any length: what both promise it,  *)
(* its tables and totals, and the theorems; what follows for the programs  *)
(* of the lab together; and at the end that a later pass of the driver     *)
(* repeats its check, step by step with the heap that the check had.       *)
(***************************************************************************)
EXTENDS MCMalloclab, MalloclabProofs, FiniteSetTheorems, SequenceTheorems

----------------------------------------------------------------------------
(* Words.                                                                  *)

\* Addresses are natural numbers below MAX_HEAP.
LEMMA AddressFacts ==
  /\ MAX_HEAP \in Nat /\ MAX_HEAP >= 8 /\ Requests \subseteq Nat /\ Fills \subseteq Nat
  /\ \A a : a \in Addresses <=> a \in Nat /\ a < MAX_HEAP
<1>1. /\ CHUNKSIZE \in Nat /\ CHUNKSIZE >= 4 /\ MAX_HEAP \in Nat /\ MAX_HEAP >= 4 + CHUNKSIZE
      /\ Requests \subseteq Nat /\ Fills \subseteq Nat
  BY MmAssumption
<1> QED BY <1>1 DEF Addresses

----------------------------------------------------------------------------
(* The walk along the next pointers.                                       *)

IsWalk(node, m, bp) ==
  node = [k \in 0 .. MAX_HEAP |-> IF k = 0 THEN bp ELSE m[node[k - 1]]]

(* The recursion that defines a walk has a solution.                       *)
LEMMA WalkExists ==
  ASSUME NEW m, NEW bp
  PROVE  \E node : IsWalk(node, m, bp)
<1> DEFINE Step(g, n) == IF n = 0 THEN bp ELSE m[g[n - 1]]
           Good(g, l) == g = [n \in 0 .. l |-> Step(g, n)]
           Bad == {l \in 0 .. MAX_HEAP : ~ \E g : Good(g, l)}
<1>1. MAX_HEAP \in Nat
  BY AddressFacts
<1>2. Bad = {}
  <2> SUFFICES ASSUME Bad # {} PROVE FALSE
    OBVIOUS
  <2>1. PICK l \in Bad : \A k \in Bad : l <= k
    <3>1. Bad \in SUBSET Nat
      BY <1>1
    <3> HIDE DEF Bad
    <3> QED BY <3>1, LeastNat
  <2>2. l \in 0 .. MAX_HEAP /\ ~ \E g : Good(g, l)
    OBVIOUS
  <2>3. CASE l = 0
    <3> DEFINE g == [n \in 0 .. 0 |-> bp]
    <3>1. Good(g, 0)
      OBVIOUS
    <3> QED BY <2>2, <2>3, <3>1
  <2>4. CASE l # 0
    <3>1. l - 1 \in 0 .. MAX_HEAP /\ ~ (l <= l - 1) /\ l \in Nat
      BY <1>1, <2>2, <2>4
    <3>2. PICK g : Good(g, l - 1)
      <4>1. l - 1 \notin Bad
        <5> HIDE DEF Bad
        <5> QED BY <2>1, <3>1
      <4> QED BY <3>1, <4>1
    <3> DEFINE h == [n \in 0 .. l |-> IF n = l THEN Step(g, l) ELSE g[n]]
    <3>3. \A n \in 0 .. l - 1 : g[n] = Step(g, n)
      BY <3>2
    <3>4. ASSUME NEW n \in 0 .. l PROVE h[n] = Step(h, n)
      <4>1. CASE n = 0
        <5>1. n \in 0 .. l - 1 /\ n # l
          BY <2>4, <3>1, <4>1
        <5> QED BY <3>3, <4>1, <5>1
      <4>2. CASE n # 0
        <5>1. n - 1 \in 0 .. l /\ n - 1 # l
          BY <3>1, <4>2
        <5>2. h[n - 1] = g[n - 1]
          BY <5>1
        <5>3. Step(h, n) = Step(g, n)
          <6> HIDE DEF h
          <6> QED BY <5>2
        <5>4. h[n] = Step(g, n)
          <6>1. CASE n = l
            BY <6>1
          <6>2. CASE n # l
            <7>1. n \in 0 .. l - 1
              BY <3>1, <6>2
            <7>2. h[n] = g[n]
              BY <6>2
            <7> QED BY <3>3, <7>1, <7>2
          <6> QED BY <6>1, <6>2
        <5> QED BY <5>3, <5>4
      <4> QED BY <4>1, <4>2
    <3>5. h = [n \in 0 .. l |-> h[n]]
      OBVIOUS
    <3> HIDE DEF h, Step
    <3>6. h = [n \in 0 .. l |-> Step(h, n)]
      BY <3>4, <3>5
    <3> QED BY <2>2, <3>6
  <2> QED BY <2>3, <2>4
<1>3. \E g : Good(g, MAX_HEAP)
  <2>1. MAX_HEAP \in 0 .. MAX_HEAP
    BY <1>1
  <2> QED BY <1>2, <2>1
<1> QED BY <1>3 DEF IsWalk

\* It begins at bp and goes on along the next pointers.
LEMMA WalkSteps ==
  ASSUME NEW h, NEW bp
  PROVE  /\ Mm!Walk(h, bp)[0] = bp
         /\ \A k \in 1 .. MAX_HEAP : Mm!Walk(h, bp)[k] = h.mem[Mm!Walk(h, bp)[k - 1]]
<1> DEFINE w == Mm!Walk(h, bp)
<1>1. IsWalk(w, h.mem, bp)
  <2>1. w = CHOOSE node : IsWalk(node, h.mem, bp)
    BY DEF IsWalk, Mm!Walk, Mm!NEXT_PTR
  <2>2. \E node : IsWalk(node, h.mem, bp)
    BY WalkExists
  <2> HIDE DEF w
  <2> QED BY <2>1, <2>2
<1> HIDE DEF w
<1>2. MAX_HEAP \in Nat
  BY AddressFacts
<1>3. w[0] = bp
  BY <1>1, <1>2 DEF IsWalk
<1>4. \A k \in 1 .. MAX_HEAP : w[k] = h.mem[w[k - 1]]
  BY <1>1, <1>2 DEF IsWalk
<1> QED BY <1>3, <1>4 DEF w

(* The macros as the routines of mm.c use them are those of BoundaryTags.  *)
LEMMA SameMacros ==
  /\ Mm!NULL = NULL
  /\ \A h, b : Mm!SizeIn(h, b) = Size(h.mem, b)
  /\ \A m, b, size, alloc : Mm!PutTags(m, b, size, alloc) = PutTags(m, b, size, alloc)
  /\ \A size : Mm!adjusted(size) = adjusted(size) /\ Mm!Spurious(size) = Spurious(size)
  /\ Mm!PACK(0, 1) = PACK(0, 1)
  /\ \A m : Mm!FirstWords(m) = FirstWords(m)
<1>1. Mm!NULL = NULL
  BY DEF Mm!NULL, NULL
<1>2. ASSUME NEW h, NEW b PROVE Mm!SizeIn(h, b) = Size(h.mem, b)
  BY DEF Mm!SizeIn, Mm!Size, Mm!GET_SIZE, Mm!HDRP, Size, GET_SIZE, HDRP
<1>3. ASSUME NEW m, NEW b, NEW size, NEW alloc
      PROVE  Mm!PutTags(m, b, size, alloc) = PutTags(m, b, size, alloc)
  BY DEF Mm!PutTags, Mm!PACK, PutTags, PACK
<1>4. ASSUME NEW size
      PROVE  Mm!adjusted(size) = adjusted(size) /\ Mm!Spurious(size) = Spurious(size)
  BY DEF Mm!adjusted, Mm!Spurious, adjusted, Spurious
<1>5. Mm!PACK(0, 1) = PACK(0, 1)
  BY DEF Mm!PACK, PACK
<1>6. ASSUME NEW m PROVE Mm!FirstWords(m) = FirstWords(m)
  BY DEF Mm!FirstWords, Mm!PACK, FirstWords, PACK
<1> QED BY <1>1, <1>2, <1>3, <1>4, <1>5, <1>6

----------------------------------------------------------------------------
(* The free list.                                                          *)

(* f has the n blocks of the free list of h, as in Linked.                 *)
Chain(h, f, n) ==
  /\ n \in Nat /\ f \in [1 .. n -> Addresses \ {NULL}]
  /\ IF n = 0 THEN h.root = NULL /\ h.end = NULL ELSE h.root = f[1] /\ h.end = f[n]
  /\ \A nth \in 1 .. n - 1 : h.mem[f[nth]] = f[nth + 1] /\ h.mem[f[nth + 1] + 1] = f[nth]
  /\ \A nth, j \in 1 .. n : nth < j => f[nth] # f[j] /\ Size(h.mem, f[nth]) <= Size(h.mem, f[j])

Members(f, n) == {f[nth] : nth \in 1 .. n}

(* A list has fewer blocks than the heap has words.                        *)
LEMMA ChainIsShort ==
  ASSUME NEW h, NEW f, NEW n, Chain(h, f, n)
  PROVE  n \in Nat /\ n < MAX_HEAP
<1>1. /\ n \in Nat /\ f \in [1 .. n -> Addresses \ {NULL}]
      /\ \A nth, j \in 1 .. n : nth < j => f[nth] # f[j]
  BY DEF Chain
<1>2. MAX_HEAP \in Nat /\ MAX_HEAP >= 8
  BY AddressFacts
<1>3. Addresses \ {NULL} = 1 .. MAX_HEAP - 1
  BY AddressFacts DEF NULL
<1>4. /\ IsFiniteSet(1 .. n) /\ Cardinality(1 .. n) = n
      /\ IsFiniteSet(1 .. MAX_HEAP - 1) /\ Cardinality(1 .. MAX_HEAP - 1) = MAX_HEAP - 1
  <2>1. 1 \in Int /\ n \in Int /\ MAX_HEAP - 1 \in Int
    BY <1>1, <1>2
  <2>2. Cardinality(1 .. n) = IF 1 > n THEN 0 ELSE n - 1 + 1
    BY <2>1, FS_Interval
  <2>3. Cardinality(1 .. MAX_HEAP - 1)
          = IF 1 > MAX_HEAP - 1 THEN 0 ELSE MAX_HEAP - 1 - 1 + 1
    BY <2>1, FS_Interval
  <2> QED BY <1>1, <1>2, <2>1, <2>2, <2>3, FS_Interval
<1>5. ~ (n >= MAX_HEAP)
  <2> SUFFICES ASSUME n >= MAX_HEAP PROVE FALSE
    OBVIOUS
  <2>1. MAX_HEAP - 1 < n
    BY <1>1, <1>2
  <2>2. f \in [1 .. n -> 1 .. MAX_HEAP - 1]
    BY <1>1, <1>3
  <2>3. \E x, y \in 1 .. n : x # y /\ f[x] = f[y]
    BY <1>4, <2>1, <2>2, FS_PigeonHole
  <2>4. \A x, y \in 1 .. n : x # y => x < y \/ y < x
    BY <1>1
  <2> QED BY <1>1, <2>3, <2>4
<1> QED BY <1>1, <1>2, <1>5

(* The walk from the root visits the blocks in order.                      *)
LEMMA WalkVisits ==
  ASSUME NEW h, NEW f, NEW n, Chain(h, f, n), n # 0
  PROVE  \A k \in 1 .. n : Mm!Walk(h, h.root)[k - 1] = f[k]
<1> DEFINE w == Mm!Walk(h, h.root)
           Bad == {k \in 1 .. n : w[k - 1] # f[k]}
<1>1. /\ n \in Nat /\ n < MAX_HEAP /\ MAX_HEAP \in Nat
      /\ h.root = f[1]
      /\ \A nth \in 1 .. n - 1 : h.mem[f[nth]] = f[nth + 1]
  BY ChainIsShort, AddressFacts DEF Chain
<1>2. /\ w[0] = h.root
      /\ \A k \in 1 .. MAX_HEAP : w[k] = h.mem[w[k - 1]]
  BY WalkSteps
<1> HIDE DEF w
<1>3. Bad = {}
  <2> SUFFICES ASSUME Bad # {} PROVE FALSE
    OBVIOUS
  <2>1. PICK k \in Bad : \A l \in Bad : k <= l
    <3>1. Bad \in SUBSET Nat
      BY <1>1
    <3> HIDE DEF Bad
    <3> QED BY <3>1, LeastNat
  <2>2. k \in 1 .. n /\ w[k - 1] # f[k] /\ k # 1
    BY <1>1, <1>2
  <2>3. k - 1 \in 1 .. n - 1 /\ k - 1 \in 1 .. n /\ k - 1 \in 1 .. MAX_HEAP /\ ~ (k <= k - 1)
    BY <1>1, <2>2
  <2>4. w[k - 1 - 1] = f[k - 1]
    <3>1. k - 1 \notin Bad
      <4> HIDE DEF Bad
      <4> QED BY <2>1, <2>3
    <3> QED BY <2>3, <3>1
  <2>5. w[k - 1] = h.mem[f[k - 1]] /\ h.mem[f[k - 1]] = f[k - 1 + 1]
    BY <1>1, <1>2, <2>3, <2>4
  <2>6. k - 1 + 1 = k
    BY <2>2, <1>1
  <2> QED BY <2>2, <2>5, <2>6
<1> QED BY <1>3 DEF w

(* find_fit returns the first block that is large enough.                  *)
LEMMA FindFit ==
  ASSUME NEW h, NEW f, NEW n, Chain(h, f, n), NEW size, NEW k \in 1 .. n,
         size <= Size(h.mem, f[k]), \A nth \in 1 .. k - 1 : ~ (size <= Size(h.mem, f[nth]))
  PROVE  Mm!find_fit(h, size, h.root) = f[k]
<1> DEFINE w == Mm!Walk(h, h.root)
           Ends(l) == w[l] = Mm!NULL \/ size <= Mm!SizeIn(h, w[l])
           LastStep(l) == l \in 0 .. MAX_HEAP /\ Ends(l) /\ \A j \in 0 .. l - 1 : ~ Ends(j)
<1>1. /\ n \in Nat /\ n < MAX_HEAP /\ MAX_HEAP \in Nat /\ n # 0 /\ k \in Nat
      /\ \A nth \in 1 .. n : f[nth] # NULL
  <2>1. n \in Nat /\ n < MAX_HEAP /\ MAX_HEAP \in Nat
    BY ChainIsShort, AddressFacts
  <2>2. f \in [1 .. n -> Addresses \ {NULL}]
    BY DEF Chain
  <2> QED BY <2>1, <2>2
<1>2. \A nth \in 1 .. n : w[nth - 1] = f[nth]
  BY <1>1, WalkVisits
<1>3. Mm!find_fit(h, size, h.root) = w[CHOOSE l \in 0 .. MAX_HEAP :
                                          Ends(l) /\ \A j \in 0 .. l - 1 : ~ Ends(j)]
  BY DEF Mm!find_fit
<1> HIDE DEF w
<1>4. LastStep(k - 1)
  <2>1. k - 1 \in 0 .. MAX_HEAP
    BY <1>1
  <2>2. Ends(k - 1)
    BY <1>2, SameMacros
  <2>3. ASSUME NEW j \in 0 .. k - 1 - 1 PROVE ~ Ends(j)
    <3>1. j + 1 \in 1 .. k - 1 /\ j + 1 \in 1 .. n /\ j + 1 - 1 = j
      BY <1>1
    <3>2. w[j] = f[j + 1] /\ f[j + 1] # NULL
      BY <1>1, <1>2, <3>1
    <3> QED BY <3>1, <3>2, SameMacros
  <2> QED BY <2>1, <2>2, <2>3
<1>5. \A l : LastStep(l) => l = k - 1
  <2> SUFFICES ASSUME NEW l, LastStep(l) PROVE l = k - 1
    OBVIOUS
  <2> HIDE DEF Ends
  <2>1. l \in Nat /\ k - 1 \in Nat
    BY <1>1
  <2>2. ~ (l < k - 1)
    <3>1. l < k - 1 => l \in 0 .. k - 1 - 1
      BY <2>1
    <3> QED BY <1>4, <3>1
  <2>3. ~ (k - 1 < l)
    <3>1. k - 1 < l => k - 1 \in 0 .. l - 1
      BY <2>1
    <3> QED BY <1>4, <3>1
  <2> QED BY <2>1, <2>2, <2>3
<1>6. (CHOOSE l \in 0 .. MAX_HEAP : Ends(l) /\ \A j \in 0 .. l - 1 : ~ Ends(j)) = k - 1
  <2> HIDE DEF Ends
  <2> QED BY <1>4, <1>5
<1> HIDE DEF Ends, LastStep
<1> QED BY <1>2, <1>3, <1>6

(* FreeList is the list.                                                   *)
LEMMA FreeListIs ==
  ASSUME NEW h, NEW f, NEW n, Chain(h, f, n)
  PROVE  Mm!FreeList(h) = f
<1> DEFINE w == Mm!Walk(h, h.root)
           Ends(l) == (l > 0 /\ w[l - 1] = h.end) \/ w[l] = Mm!NULL
           LastStep(l) == l \in 0 .. MAX_HEAP /\ Ends(l) /\ \A j \in 0 .. l - 1 : ~ Ends(j)
           count == CHOOSE l \in 0 .. MAX_HEAP : Ends(l) /\ \A j \in 0 .. l - 1 : ~ Ends(j)
<1>1. /\ n \in Nat /\ n < MAX_HEAP /\ MAX_HEAP \in Nat
      /\ f \in [1 .. n -> Addresses \ {NULL}]
      /\ n = 0 => h.root = NULL
      /\ n # 0 => h.end = f[n]
      /\ \A nth, j \in 1 .. n : nth < j => f[nth] # f[j]
  BY ChainIsShort, AddressFacts DEF Chain
<1>2. n # 0 => \A nth \in 1 .. n : w[nth - 1] = f[nth]
  BY WalkVisits
<1>3. w[0] = h.root
  BY WalkSteps
<1>4. Mm!FreeList(h) = [k \in 1 .. count |-> w[k - 1]]
  BY DEF Mm!FreeList
<1> HIDE DEF w
<1>5. LastStep(n)
  <2>1. n \in 0 .. MAX_HEAP
    BY <1>1
  <2>2. Ends(n)
    <3>1. CASE n = 0
      BY <1>1, <1>3, <3>1, SameMacros
    <3>2. CASE n # 0
      <4>1. n \in 1 .. n /\ n > 0
        BY <1>1, <3>2
      <4> QED BY <1>1, <1>2, <3>2, <4>1
    <3> QED BY <3>1, <3>2
  <2>3. ASSUME NEW j \in 0 .. n - 1 PROVE ~ Ends(j)
    <3>1. n # 0 /\ j + 1 \in 1 .. n /\ j + 1 - 1 = j
      BY <1>1
    <3>2. w[j] = f[j + 1] /\ f[j + 1] # NULL
      BY <1>1, <1>2, <3>1
    <3>3. j > 0 => w[j - 1] = f[j] /\ f[j] # f[n]
      <4>1. j > 0 => j \in 1 .. n /\ j < n /\ n \in 1 .. n
        BY <1>1
      <4> QED BY <1>1, <1>2, <3>1, <4>1
    <3> QED BY <1>1, <3>1, <3>2, <3>3, SameMacros
  <2> QED BY <2>1, <2>2, <2>3
<1>6. \A l : LastStep(l) => l = n
  <2> SUFFICES ASSUME NEW l, LastStep(l) PROVE l = n
    OBVIOUS
  <2> HIDE DEF Ends
  <2>1. l \in Nat
    BY <1>1
  <2>2. ~ (l < n)
    <3>1. l < n => l \in 0 .. n - 1
      BY <1>1, <2>1
    <3> QED BY <1>5, <3>1
  <2>3. ~ (n < l)
    <3>1. n < l => n \in 0 .. l - 1
      BY <1>1, <2>1
    <3> QED BY <1>5, <3>1
  <2> QED BY <1>1, <2>1, <2>2, <2>3
<1>7. count = n
  <2> HIDE DEF Ends
  <2> QED BY <1>5, <1>6
<1> HIDE DEF Ends, LastStep, count
<1>8. Mm!FreeList(h) = [k \in 1 .. n |-> w[k - 1]]
  BY <1>4, <1>7
<1>9. \A k \in 1 .. n : w[k - 1] = f[k]
  BY <1>1, <1>2
<1> QED BY <1>1, <1>8, <1>9

----------------------------------------------------------------------------
(* Blocks and what is written to them.                                     *)

HeapType(h) ==
  /\ h \in [mem : [Addresses -> Nat], brk : 4 .. MAX_HEAP, root : Addresses, end : Addresses]
  /\ h.brk % 2 = 0

\* The words of the block b, tags included.
Words(m, b) == b - 1 .. b + Size(m, b) - 2

(* What a block is, in numbers.                                            *)
LEMMA MmBlockFacts ==
  ASSUME NEW m \in [Addresses -> Nat], NEW brk \in 4 .. MAX_HEAP, NEW B,
         BlocksOf(m, brk, B), NEW b \in B
  PROVE  /\ brk \in Nat /\ brk <= MAX_HEAP /\ MAX_HEAP \in Nat
         /\ b \in Nat /\ b >= 4 /\ b % 2 = 0
         /\ Size(m, b) \in Nat /\ Size(m, b) >= 4 /\ Size(m, b) % 2 = 0
         /\ b + Size(m, b) <= brk
         /\ {b - 1, b, b + 1, b + Size(m, b) - 2} \subseteq Addresses
         /\ m[b + Size(m, b) - 2] = m[b - 1]
         /\ \A c \in B : b < c => b + Size(m, b) <= c
<1>1. /\ MAX_HEAP \in Nat /\ \A a : a \in Addresses <=> a \in Nat /\ a < MAX_HEAP
  BY AddressFacts
<1>2. /\ brk \in Nat /\ brk <= MAX_HEAP
      /\ b \in Nat /\ b >= 4 /\ b < brk /\ b % 2 = 0
  BY <1>1 DEF BlocksOf
<1>3. b - 1 \in Addresses
  BY <1>1, <1>2
<1>4. m[b - 1] \in Nat
  BY <1>3
<1>5. Size(m, b) \in Nat /\ Size(m, b) % 2 = 0
  BY <1>4, WordParts DEF Size, HDRP
<1>6. Size(m, b) >= 4 /\ b + Size(m, b) <= brk
  BY DEF BlocksOf, NEXT_BLKP
<1>7. {b - 1, b, b + 1, b + Size(m, b) - 2} \subseteq Addresses
  <2>1. /\ b \in Nat /\ b < MAX_HEAP /\ b + 1 \in Nat /\ b + 1 < MAX_HEAP
        /\ b + Size(m, b) - 2 \in Nat /\ b + Size(m, b) - 2 < MAX_HEAP
    BY <1>1, <1>2, <1>5, <1>6
  <2> QED BY <1>1, <1>3, <2>1
<1>8. /\ m[b + Size(m, b) - 2] = m[b - 1]
      /\ \A c \in B : b < c => b + Size(m, b) <= c
  BY DEF BlocksOf, FTRP, HDRP, NEXT_BLKP
<1> QED BY <1>1, <1>2, <1>5, <1>6, <1>7, <1>8

(* Blocks share no word.                                                   *)
LEMMA WordsApart ==
  ASSUME NEW m \in [Addresses -> Nat], NEW brk \in 4 .. MAX_HEAP, NEW B,
         BlocksOf(m, brk, B), NEW b \in B, NEW c \in B, b # c
  PROVE  \A a \in Words(m, b) : a \notin Words(m, c)
<1>1. /\ b \in Nat /\ Size(m, b) \in Nat /\ c \in Nat /\ Size(m, c) \in Nat
      /\ b < c => b + Size(m, b) <= c
      /\ c < b => c + Size(m, c) <= b
  BY MmBlockFacts
<1>2. ASSUME NEW a \in Words(m, b), a \in Words(m, c) PROVE FALSE
  <2>1. a \in Int /\ a >= b - 1 /\ a <= b + Size(m, b) - 2
    BY <1>1 DEF Words
  <2>2. a >= c - 1 /\ a <= c + Size(m, c) - 2
    BY <1>1, <1>2 DEF Words
  <2> HIDE DEF Words
  <2> QED BY <1>1, <2>1, <2>2
<1> QED BY <1>2

\* Tags and links of a block are words of it, and the links are no tags.
LEMMA WordsHas ==
  ASSUME NEW m \in [Addresses -> Nat], NEW brk \in 4 .. MAX_HEAP, NEW B,
         BlocksOf(m, brk, B), NEW b \in B
  PROVE  /\ {b - 1, b, b + 1, b + Size(m, b) - 2} \subseteq Words(m, b)
         /\ b - 1 \notin {b, b + 1} /\ b + Size(m, b) - 2 \notin {b, b + 1}
         /\ Words(m, b) \subseteq Addresses
<1>1. /\ MAX_HEAP \in Nat /\ \A a : a \in Addresses <=> a \in Nat /\ a < MAX_HEAP
  BY AddressFacts
<1>2. /\ b \in Nat /\ b >= 4 /\ Size(m, b) \in Nat /\ Size(m, b) >= 4
      /\ b + Size(m, b) <= MAX_HEAP
  BY <1>1, MmBlockFacts
<1>3. {b - 1, b, b + 1, b + Size(m, b) - 2} \subseteq Words(m, b)
  BY <1>2 DEF Words
<1>4. Words(m, b) \subseteq Addresses
  <2> SUFFICES ASSUME NEW a \in Words(m, b) PROVE a \in Addresses
    OBVIOUS
  <2>1. a \in Int /\ a >= b - 1 /\ a <= b + Size(m, b) - 2
    BY <1>2 DEF Words
  <2> QED BY <1>1, <1>2, <2>1
<1> QED BY <1>2, <1>3, <1>4

SameExcept(m, n, W) ==
  n \in [Addresses -> Nat] /\ \A a \in Addresses : a \notin W => n[a] = m[a]

LinkWords(F) == F \cup {b + 1 : b \in F}

TagsSame(m, n, b) ==
  n[b - 1] = m[b - 1] /\ n[b + Size(m, b) - 2] = m[b + Size(m, b) - 2]

(* Tags decide size and flag.                                              *)
LEMMA SizeSame ==
  ASSUME NEW m, NEW n, NEW b, n[b - 1] = m[b - 1]
  PROVE  Size(n, b) = Size(m, b) /\ Allocated(n, b) = Allocated(m, b)
BY DEF Size, Allocated, HDRP

LEMMA BlocksSame ==
  ASSUME NEW m, NEW n, NEW brk, NEW B, BlocksOf(m, brk, B), \A b \in B : TagsSame(m, n, b)
  PROVE  BlocksOf(n, brk, B)
<1>1. ASSUME NEW b \in B
      PROVE  /\ Size(n, b) = Size(m, b) /\ NEXT_BLKP(n, b) = NEXT_BLKP(m, b)
             /\ n[FTRP(n, b)] = n[HDRP(b)]
  <2>1. n[b - 1] = m[b - 1] /\ n[b + Size(m, b) - 2] = m[b + Size(m, b) - 2]
    BY DEF TagsSame
  <2>2. Size(n, b) = Size(m, b)
    BY <2>1, SizeSame
  <2>3. m[b + Size(m, b) - 2] = m[b - 1]
    BY DEF BlocksOf, FTRP, HDRP
  <2> QED BY <2>1, <2>2, <2>3 DEF NEXT_BLKP, FTRP, HDRP
<1> QED BY <1>1 DEF BlocksOf

(* Writing links leaves all tags alone, and the words of other blocks.     *)
LEMMA LinksKeep ==
  ASSUME NEW m \in [Addresses -> Nat], NEW brk \in 4 .. MAX_HEAP, NEW B,
         BlocksOf(m, brk, B), NEW F \in SUBSET B, NEW n, SameExcept(m, n, LinkWords(F))
  PROVE  /\ \A b \in B : TagsSame(m, n, b)
         /\ \A b \in B \ F : \A a \in Words(m, b) : n[a] = m[a]
         /\ BlocksOf(n, brk, B)
<1>1. ASSUME NEW b \in B, NEW c \in F, NEW a \in Words(m, b), a \in {c, c + 1}
      PROVE  c = b
  <2>1. a \in Words(m, c)
    BY <1>1, WordsHas
  <2> QED BY <2>1, WordsApart
<1>2. ASSUME NEW b \in B, NEW a \in Words(m, b), a \notin {b, b + 1}
      PROVE  n[a] = m[a]
  <2>1. a \notin LinkWords(F)
    BY <1>1, <1>2 DEF LinkWords
  <2>2. a \in Addresses
    BY WordsHas
  <2> QED BY <2>1, <2>2 DEF SameExcept
<1>3. \A b \in B : TagsSame(m, n, b)
  <2> SUFFICES ASSUME NEW b \in B PROVE TagsSame(m, n, b)
    OBVIOUS
  <2> QED BY <1>2, WordsHas DEF TagsSame
<1>4. ASSUME NEW b \in B \ F, NEW a \in Words(m, b) PROVE n[a] = m[a]
  <2>1. a \notin LinkWords(F)
    BY <1>1, <1>4 DEF LinkWords
  <2>2. a \in Addresses
    BY WordsHas
  <2> QED BY <2>1, <2>2 DEF SameExcept
<1> QED BY <1>3, <1>4, BlocksSame

(* A heap with the free list f of n blocks among its blocks B.             *)
Heap(h, f, n, B) ==
  /\ HeapType(h) /\ Chain(h, f, n) /\ BlocksOf(h.mem, h.brk, B)
  /\ Members(f, n) \subseteq B
  /\ \A b \in Members(f, n) : ~ Allocated(h.mem, b)

LEMMA HeapParts ==
  ASSUME NEW h, NEW f, NEW n, NEW B, Heap(h, f, n, B)
  PROVE  /\ h.mem \in [Addresses -> Nat] /\ h.brk \in 4 .. MAX_HEAP /\ h.brk % 2 = 0
         /\ h.root \in Addresses /\ h.end \in Addresses
         /\ BlocksOf(h.mem, h.brk, B) /\ Chain(h, f, n) /\ Members(f, n) \in SUBSET B
         /\ n \in Nat /\ f \in [1 .. n -> Addresses \ {NULL}]
         /\ \A nth \in 1 .. n : f[nth] \in B
         /\ \A nth, j \in 1 .. n : f[nth] = f[j] => nth = j
<1>1. HeapType(h) /\ Chain(h, f, n) /\ BlocksOf(h.mem, h.brk, B) /\ Members(f, n) \in SUBSET B
  BY DEF Heap
<1>2. \A nth \in 1 .. n : f[nth] \in B
  BY <1>1 DEF Members
<1>3. ASSUME NEW nth \in 1 .. n, NEW j \in 1 .. n, f[nth] = f[j] PROVE nth = j
  <2>1. n \in Nat /\ \A x, y \in 1 .. n : x < y => f[x] # f[y]
    BY <1>1 DEF Chain
  <2>2. nth < j \/ j < nth \/ nth = j
    BY <2>1
  <2> QED BY <1>3, <2>1, <2>2
<1> QED BY <1>1, <1>2, <1>3 DEF HeapType, Chain

(* A list stays a list while the links and sizes of its blocks stay.       *)
LEMMA ChainSame ==
  ASSUME NEW h, NEW f, NEW n, Chain(h, f, n), NEW g, g.root = h.root, g.end = h.end,
         \A nth \in 1 .. n : /\ g.mem[f[nth]] = h.mem[f[nth]]
                           /\ g.mem[f[nth] + 1] = h.mem[f[nth] + 1]
                           /\ Size(g.mem, f[nth]) = Size(h.mem, f[nth])
  PROVE  Chain(g, f, n)
<1>1. n \in Nat
  BY DEF Chain
<1>2. ASSUME NEW nth \in 1 .. n - 1
      PROVE  g.mem[f[nth]] = f[nth + 1] /\ g.mem[f[nth + 1] + 1] = f[nth]
  <2>1. nth \in 1 .. n /\ nth + 1 \in 1 .. n
    BY <1>1
  <2> QED BY <2>1 DEF Chain
<1>3. \A nth, j \in 1 .. n : nth < j => f[nth] # f[j] /\ Size(g.mem, f[nth]) <= Size(g.mem, f[j])
  BY DEF Chain
<1> HIDE DEF Members
<1> QED BY <1>1, <1>2, <1>3 DEF Chain

----------------------------------------------------------------------------
(* Insertion.                                                              *)

\* f with bp as its kth block.
InsertedAt(f, n, k, bp) ==
  [nth \in 1 .. n + 1 |-> IF nth < k THEN f[nth] ELSE IF nth = k THEN bp ELSE f[nth - 1]]

(* The words of g are those of h but for the links around bp, which is now *)
(* the kth block.                                                          *)
Spliced(h, g, f, n, k, bp) ==
  /\ g.mem \in [Addresses -> Nat] /\ g.brk = h.brk
  /\ g.root = (IF k = 1 THEN bp ELSE f[1])
  /\ g.end = (IF k = n + 1 THEN bp ELSE f[n])
  /\ k <= n => g.mem[bp] = f[k] /\ g.mem[f[k] + 1] = bp
  /\ k > 1 => g.mem[bp + 1] = f[k - 1] /\ g.mem[f[k - 1]] = bp
  /\ \A a \in Addresses :
       (/\ a # bp /\ a # bp + 1
        /\ k <= n => a # f[k] + 1
        /\ k > 1 => a # f[k - 1]) => g.mem[a] = h.mem[a]

\* The blocks of the new list.
LEMMA InsertedMembers ==
  ASSUME NEW f, NEW n \in Nat, NEW k \in 1 .. n + 1, NEW bp
  PROVE  Members(InsertedAt(f, n, k, bp), n + 1) = Members(f, n) \cup {bp}
<1> DEFINE g == InsertedAt(f, n, k, bp)
<1>1. \A nth \in 1 .. n + 1 : g[nth] = IF nth < k THEN f[nth] ELSE IF nth = k THEN bp ELSE f[nth - 1]
  BY DEF InsertedAt
<1> HIDE DEF g
<1>2. ASSUME NEW nth \in 1 .. n + 1 PROVE g[nth] \in Members(f, n) \cup {bp}
  <2>1. CASE nth < k
    <3>1. nth \in 1 .. n
      BY <2>1
    <3> QED BY <1>1, <2>1, <3>1 DEF Members
  <2>2. CASE nth = k
    BY <1>1, <2>2
  <2>3. CASE nth > k
    <3>1. nth - 1 \in 1 .. n /\ ~ (nth < k) /\ nth # k
      BY <2>3
    <3> QED BY <1>1, <3>1 DEF Members
  <2> QED BY <2>1, <2>2, <2>3
<1>3. ASSUME NEW nth \in 1 .. n PROVE f[nth] \in Members(g, n + 1)
  <2>1. CASE nth < k
    <3>1. nth \in 1 .. n + 1
      OBVIOUS
    <3> QED BY <1>1, <2>1, <3>1 DEF Members
  <2>2. CASE nth >= k
    <3>1. nth + 1 \in 1 .. n + 1 /\ ~ (nth + 1 < k) /\ nth + 1 # k /\ nth + 1 - 1 = nth
      BY <2>2
    <3>2. g[nth + 1] = f[nth]
      BY <1>1, <3>1
    <3> QED BY <3>1, <3>2 DEF Members
  <2> QED BY <2>1, <2>2
<1>4. bp \in Members(g, n + 1)
  BY <1>1 DEF Members
<1> QED BY <1>2, <1>3, <1>4 DEF Members, g

(* A splice writes links only.                                             *)
LEMMA SplicedLinks ==
  ASSUME NEW h, NEW g, NEW f, NEW n \in Nat, NEW k \in 1 .. n + 1, NEW bp,
         Spliced(h, g, f, n, k, bp)
  PROVE  SameExcept(h.mem, g.mem, LinkWords(Members(f, n) \cup {bp}))
<1> DEFINE F == Members(f, n) \cup {bp}
<1>1. ASSUME NEW a \in Addresses, a \notin LinkWords(F) PROVE g.mem[a] = h.mem[a]
  <2>1. a # bp /\ a # bp + 1
    BY <1>1 DEF LinkWords
  <2>2. k <= n => a # f[k] + 1
    <3>1. k <= n => f[k] \in F
      BY DEF Members
    <3> QED BY <1>1, <3>1 DEF LinkWords
  <2>3. k > 1 => a # f[k - 1]
    <3>1. k > 1 => k - 1 \in 1 .. n
      OBVIOUS
    <3>2. k > 1 => f[k - 1] \in F
      BY <3>1 DEF Members
    <3> QED BY <1>1, <3>2 DEF LinkWords
  <2> QED BY <2>1, <2>2, <2>3 DEF Spliced
<1> QED BY <1>1 DEF SameExcept, Spliced

(* The links of the new list: those beside bp are new, the others have not *)
(* changed.                                                                *)
LEMMA InsertedLinks ==
  ASSUME NEW h, NEW g, NEW f, NEW n, NEW B, Heap(h, f, n, B), NEW k \in 1 .. n + 1,
         NEW bp \in B \ Members(f, n), Spliced(h, g, f, n, k, bp), NEW nth \in 1 .. n
  PROVE  LET e == InsertedAt(f, n, k, bp)
         IN  g.mem[e[nth]] = e[nth + 1] /\ g.mem[e[nth + 1] + 1] = e[nth]
<1> DEFINE e == InsertedAt(f, n, k, bp)
<1> SUFFICES g.mem[e[nth]] = e[nth + 1] /\ g.mem[e[nth + 1] + 1] = e[nth]
  OBVIOUS
<1>1. /\ h.mem \in [Addresses -> Nat] /\ h.brk \in 4 .. MAX_HEAP
      /\ BlocksOf(h.mem, h.brk, B) /\ Chain(h, f, n)
      /\ n \in Nat /\ \A j \in 1 .. n : f[j] \in B
      /\ \A x, y \in 1 .. n : f[x] = f[y] => x = y
  BY HeapParts
<1>2. \A j \in 1 .. n + 1 : e[j] = IF j < k THEN f[j] ELSE IF j = k THEN bp ELSE f[j - 1]
  BY DEF InsertedAt
<1>3. \A b \in B : /\ b \in Nat /\ b % 2 = 0 /\ b \in Addresses /\ b + 1 \in Addresses
  BY <1>1, MmBlockFacts
<1>4. \A b, c \in B : b # c + 1
  BY <1>3
<1>5. \A j \in 1 .. n : f[j] # bp
  BY DEF Members
<1>6. \A j \in 1 .. n - 1 : h.mem[f[j]] = f[j + 1] /\ h.mem[f[j + 1] + 1] = f[j]
  BY <1>1 DEF Chain
<1>7. \A j \in 1 .. n : ~ (k > 1 /\ j = k - 1) => g.mem[f[j]] = h.mem[f[j]]
  <2> SUFFICES ASSUME NEW j \in 1 .. n, ~ (k > 1 /\ j = k - 1)
               PROVE  g.mem[f[j]] = h.mem[f[j]]
    OBVIOUS
  <2>1. f[j] \in Addresses /\ f[j] # bp /\ f[j] # bp + 1
    BY <1>1, <1>3, <1>4, <1>5
  <2>2. k <= n => f[j] # f[k] + 1
    BY <1>1, <1>4
  <2>3. k > 1 => f[j] # f[k - 1]
    <3>1. k > 1 => k - 1 \in 1 .. n /\ k - 1 # j
      BY <1>1
    <3> QED BY <1>1, <3>1
  <2> QED BY <2>1, <2>2, <2>3 DEF Spliced
<1>8. \A j \in 1 .. n : j # k => g.mem[f[j] + 1] = h.mem[f[j] + 1]
  <2> SUFFICES ASSUME NEW j \in 1 .. n, j # k
               PROVE  g.mem[f[j] + 1] = h.mem[f[j] + 1]
    OBVIOUS
  <2>1. f[j] + 1 \in Addresses /\ f[j] + 1 # bp /\ f[j] + 1 # bp + 1
    <3>1. f[j] \in B /\ bp \in B /\ f[j] # bp
      BY <1>1, <1>5
    <3> QED BY <1>3, <1>4, <3>1
  <2>2. k <= n => f[j] + 1 # f[k] + 1
    <3>1. k <= n => k \in 1 .. n
      BY <1>1
    <3>2. k <= n => f[j] # f[k] /\ f[j] \in Nat /\ f[k] \in Nat
      BY <1>1, <1>3, <3>1
    <3> QED BY <3>2
  <2>3. k > 1 => f[j] + 1 # f[k - 1]
    <3>1. k > 1 => k - 1 \in 1 .. n
      BY <1>1
    <3> QED BY <1>1, <1>4, <3>1
  <2> QED BY <2>1, <2>2, <2>3 DEF Spliced
<1>9. nth \in 1 .. n + 1 /\ nth + 1 \in 1 .. n + 1 /\ nth + 1 - 1 = nth
  BY <1>1
<1>10. CASE nth + 1 < k
  <2>1. e[nth] = f[nth] /\ e[nth + 1] = f[nth + 1]
    BY <1>1, <1>2, <1>9, <1>10
  <2>2. nth \in 1 .. n - 1 /\ nth + 1 \in 1 .. n /\ nth # k - 1 /\ nth + 1 # k
    BY <1>1, <1>10
  <2>3. g.mem[f[nth]] = h.mem[f[nth]] /\ g.mem[f[nth + 1] + 1] = h.mem[f[nth + 1] + 1]
    BY <1>7, <1>8, <2>2
  <2> HIDE DEF e
  <2> QED BY <1>6, <2>1, <2>2, <2>3
<1>11. CASE nth + 1 = k
  <2>1. e[nth] = f[nth] /\ e[nth + 1] = bp /\ k > 1 /\ k - 1 = nth
    BY <1>1, <1>2, <1>9, <1>11
  <2> HIDE DEF e
  <2> QED BY <2>1 DEF Spliced
<1>12. CASE nth = k
  <2>1. e[nth] = bp /\ e[nth + 1] = f[nth] /\ k <= n
    BY <1>1, <1>2, <1>9, <1>12
  <2> HIDE DEF e
  <2> QED BY <1>12, <2>1 DEF Spliced
<1>13. CASE nth > k
  <2>1. e[nth] = f[nth - 1] /\ e[nth + 1] = f[nth]
    BY <1>1, <1>2, <1>9, <1>13
  <2>2. nth - 1 \in 1 .. n - 1 /\ nth - 1 \in 1 .. n /\ nth - 1 # k - 1 /\ nth # k /\ nth - 1 + 1 = nth
    BY <1>1, <1>13
  <2>3. g.mem[f[nth - 1]] = h.mem[f[nth - 1]] /\ g.mem[f[nth] + 1] = h.mem[f[nth] + 1]
    BY <1>7, <1>8, <2>2
  <2> HIDE DEF e
  <2> QED BY <1>6, <2>1, <2>2, <2>3
<1> HIDE DEF e
<1>14. nth + 1 < k \/ nth + 1 = k \/ nth = k \/ nth > k
  BY <1>1
<1> QED BY <1>10, <1>11, <1>12, <1>13, <1>14

\* Two blocks of the new list differ and are in order.
LEMMA InsertedOrder ==
  ASSUME NEW f, NEW n \in Nat, NEW k \in 1 .. n + 1, NEW bp, NEW s,
         \A nth \in 1 .. n : f[nth] # bp,
         \A nth, j \in 1 .. n : nth < j => f[nth] # f[j] /\ s[f[nth]] <= s[f[j]],
         \A nth \in 1 .. n : nth < k => s[f[nth]] <= s[bp],
         \A nth \in 1 .. n : nth >= k => s[bp] <= s[f[nth]],
         NEW nth \in 1 .. n + 1, NEW j \in 1 .. n + 1, nth < j
  PROVE  LET e == InsertedAt(f, n, k, bp)
         IN  e[nth] # e[j] /\ s[e[nth]] <= s[e[j]]
<1> DEFINE e == InsertedAt(f, n, k, bp)
<1>1. \A l \in 1 .. n + 1 : e[l] = IF l < k THEN f[l] ELSE IF l = k THEN bp ELSE f[l - 1]
  BY DEF InsertedAt
<1> HIDE DEF e
<1>2. CASE j < k
  <2>1. e[nth] = f[nth] /\ e[j] = f[j] /\ nth \in 1 .. n /\ j \in 1 .. n
    BY <1>1, <1>2
  <2> QED BY <2>1 DEF e
<1>3. CASE j = k
  <2>1. e[nth] = f[nth] /\ e[j] = bp /\ nth \in 1 .. n /\ nth < k
    BY <1>1, <1>3
  <2> QED BY <2>1 DEF e
<1>4. CASE j > k /\ nth < k
  <2>1. e[nth] = f[nth] /\ e[j] = f[j - 1] /\ nth \in 1 .. n /\ j - 1 \in 1 .. n /\ nth < j - 1
    BY <1>1, <1>4
  <2> QED BY <2>1 DEF e
<1>5. CASE j > k /\ nth = k
  <2>1. e[nth] = bp /\ e[j] = f[j - 1] /\ j - 1 \in 1 .. n /\ j - 1 >= k
    BY <1>1, <1>5
  <2> QED BY <2>1 DEF e
<1>6. CASE j > k /\ nth > k
  <2>1. e[nth] = f[nth - 1] /\ e[j] = f[j - 1] /\ nth - 1 \in 1 .. n /\ j - 1 \in 1 .. n /\ nth - 1 < j - 1
    BY <1>1, <1>6
  <2> QED BY <2>1 DEF e
<1>7. j < k \/ j = k \/ (j > k /\ nth < k) \/ (j > k /\ nth = k) \/ (j > k /\ nth > k)
  OBVIOUS
<1>8. e[nth] # e[j] /\ s[e[nth]] <= s[e[j]]
  BY <1>2, <1>3, <1>4, <1>5, <1>6, <1>7 DEF e
<1> QED BY <1>8 DEF e

(* A block that is spliced in where its size belongs makes a longer list.  *)
LEMMA Splicing ==
  ASSUME NEW h, NEW g, NEW f, NEW n, NEW B, Heap(h, f, n, B), NEW k \in 1 .. n + 1,
         NEW bp \in B \ Members(f, n), ~ Allocated(h.mem, bp),
         Spliced(h, g, f, n, k, bp), HeapType(g),
         \A nth \in 1 .. n : nth < k => Size(h.mem, f[nth]) <= Size(h.mem, bp),
         \A nth \in 1 .. n : nth >= k => Size(h.mem, bp) <= Size(h.mem, f[nth])
  PROVE  Heap(g, InsertedAt(f, n, k, bp), n + 1, B)
<1> DEFINE e == InsertedAt(f, n, k, bp)
           F == Members(f, n) \cup {bp}
<1>1. /\ h.mem \in [Addresses -> Nat] /\ h.brk \in 4 .. MAX_HEAP
      /\ BlocksOf(h.mem, h.brk, B) /\ Chain(h, f, n) /\ Members(f, n) \in SUBSET B
      /\ n \in Nat /\ f \in [1 .. n -> Addresses \ {NULL}]
      /\ \A nth \in 1 .. n : f[nth] \in B
  BY HeapParts
<1>2. SameExcept(h.mem, g.mem, LinkWords(F)) /\ F \in SUBSET B
  BY <1>1, SplicedLinks
<1>3. Members(e, n + 1) = F
  BY <1>1, InsertedMembers
<1>4. BlocksOf(g.mem, h.brk, B) /\ \A b \in B : TagsSame(h.mem, g.mem, b)
  <2> HIDE DEF F
  <2> QED BY <1>1, <1>2, LinksKeep
<1>5. \A b \in B : Size(g.mem, b) = Size(h.mem, b) /\ Allocated(g.mem, b) = Allocated(h.mem, b)
  BY <1>4, SizeSame DEF TagsSame
<1>6. g.brk = h.brk /\ g.mem \in [Addresses -> Nat]
  BY DEF Spliced
<1>7. \A b \in F : ~ Allocated(g.mem, b)
  <2>1. \A b \in Members(f, n) : ~ Allocated(h.mem, b)
    BY DEF Heap
  <2> QED BY <1>2, <1>5, <2>1
<1>8. n + 1 \in Nat /\ e \in [1 .. n + 1 -> Addresses \ {NULL}]
  <2>1. \A b \in B : b \in Addresses \ {NULL}
    <3>1. \A b \in B : b \in Addresses /\ b >= 4
      BY <1>1, MmBlockFacts
    <3> QED BY <3>1 DEF NULL
  <2>2. \A nth \in 1 .. n + 1 : e[nth] \in B
    <3>1. \A nth \in 1 .. n + 1 : e[nth] \in Members(e, n + 1)
      BY DEF Members
    <3> QED BY <1>2, <1>3, <3>1
  <2>3. e = [nth \in 1 .. n + 1 |-> e[nth]]
    BY DEF InsertedAt
  <2> HIDE DEF e
  <2> QED BY <1>1, <2>1, <2>2, <2>3
<1>9. g.root = e[1] /\ g.end = e[n + 1]
  <2>1. \A nth \in 1 .. n + 1 : e[nth] = IF nth < k THEN f[nth] ELSE IF nth = k THEN bp ELSE f[nth - 1]
    BY DEF InsertedAt
  <2> HIDE DEF e
  <2>2. 1 \in 1 .. n + 1 /\ n + 1 \in 1 .. n + 1 /\ n + 1 - 1 = n
    BY <1>1
  <2>3. e[1] = IF k = 1 THEN bp ELSE f[1]
    BY <1>1, <2>1, <2>2
  <2>4. e[n + 1] = IF k = n + 1 THEN bp ELSE f[n]
    BY <1>1, <2>1, <2>2
  <2> QED BY <2>3, <2>4 DEF Spliced
<1>10. \A nth \in 1 .. n : g.mem[e[nth]] = e[nth + 1] /\ g.mem[e[nth + 1] + 1] = e[nth]
  BY InsertedLinks
<1>11. ASSUME NEW nth \in 1 .. n + 1, NEW j \in 1 .. n + 1, nth < j
       PROVE  e[nth] # e[j] /\ Size(g.mem, e[nth]) <= Size(g.mem, e[j])
  <2> DEFINE s == [b \in B |-> Size(g.mem, b)]
  <2>1. \A l \in 1 .. n : f[l] # bp
    BY DEF Members
  <2>2. \A x, y \in 1 .. n : x < y => f[x] # f[y] /\ Size(h.mem, f[x]) <= Size(h.mem, f[y])
    BY <1>1 DEF Chain
  <2>3. /\ \A x, y \in 1 .. n : x < y => f[x] # f[y] /\ s[f[x]] <= s[f[y]]
        /\ \A x \in 1 .. n : x < k => s[f[x]] <= s[bp]
        /\ \A x \in 1 .. n : x >= k => s[bp] <= s[f[x]]
    BY <1>1, <1>5, <2>2
  <2>4. e[nth] \in B /\ e[j] \in B
    <3>1. e[nth] \in Members(e, n + 1) /\ e[j] \in Members(e, n + 1)
      BY DEF Members
    <3> QED BY <1>2, <1>3, <3>1
  <2> HIDE DEF s, e
  <2>5. e[nth] # e[j] /\ s[e[nth]] <= s[e[j]]
    BY <1>1, <1>11, <2>1, <2>3, InsertedOrder DEF e
  <2> QED BY <2>4, <2>5 DEF s
<1>12. Chain(g, e, n + 1)
  <2> HIDE DEF e
  <2>1. n + 1 # 0
    BY <1>1
  <2>2. \A nth, j \in 1 .. n + 1 :
          nth < j => e[nth] # e[j] /\ Size(g.mem, e[nth]) <= Size(g.mem, e[j])
    BY <1>11
  <2>3. IF n + 1 = 0 THEN g.root = NULL /\ g.end = NULL
        ELSE g.root = e[1] /\ g.end = e[n + 1]
    BY <1>9, <2>1
  <2>4. PICK l \in Nat : l = n + 1
    BY <1>1
  <2>5. e \in [1 .. l -> Addresses \ {NULL}]
    BY <1>8, <2>4
  <2>7. \A nth \in 1 .. l - 1 : g.mem[e[nth]] = e[nth + 1] /\ g.mem[e[nth + 1] + 1] = e[nth]
    <3>1. 1 .. l - 1 = 1 .. n
      BY <1>1, <2>4
    <3> QED BY <1>10, <3>1
  <2>8. \A nth, j \in 1 .. l : nth < j => e[nth] # e[j] /\ Size(g.mem, e[nth]) <= Size(g.mem, e[j])
    BY <2>2, <2>4
  <2>9. IF l = 0 THEN g.root = NULL /\ g.end = NULL ELSE g.root = e[1] /\ g.end = e[l]
    BY <2>3, <2>4
  <2>6. Chain(g, e, l)
    BY <2>5, <2>7, <2>8, <2>9 DEF Chain
  <2> QED BY <2>4, <2>6
<1> HIDE DEF e, F
<1>13. Heap(g, e, n + 1, B)
  BY <1>2, <1>3, <1>4, <1>6, <1>7, <1>12 DEF Heap
<1> QED BY <1>13 DEF e

\* The record of a heap.
LEMMA HeapFields ==
  ASSUME NEW h, HeapType(h)
  PROVE  /\ h.mem \in [Addresses -> Nat] /\ h.brk \in 4 .. MAX_HEAP /\ h.brk % 2 = 0
         /\ h.root \in Addresses /\ h.end \in Addresses
BY DEF HeapType

\* The four ways in which add_free_block writes a heap.
LEMMA AloneWrites ==
  ASSUME NEW h, HeapType(h), NEW bp \in Addresses
  PROVE  LET g == Mm!Alone(h, bp)
         IN  HeapType(g) /\ g.mem = h.mem /\ g.brk = h.brk /\ g.root = bp /\ g.end = bp
BY DEF HeapType, Mm!Alone

LEMMA AsRootWrites ==
  ASSUME NEW h, HeapType(h), NEW bp \in Addresses
  PROVE  LET g == Mm!AsRoot(h, bp)
         IN  /\ HeapType(g) /\ g.brk = h.brk /\ g.root = bp /\ g.end = h.end
             /\ g.mem = [h.mem EXCEPT ![bp] = h.root, ![h.root + 1] = bp]
<1>1. \A a \in Addresses : a \in Nat
  BY AddressFacts
<1> QED BY <1>1 DEF HeapType, Mm!AsRoot

LEMMA AsEndWrites ==
  ASSUME NEW h, HeapType(h), NEW bp \in Addresses
  PROVE  LET g == Mm!AsEnd(h, bp)
         IN  /\ HeapType(g) /\ g.brk = h.brk /\ g.root = h.root /\ g.end = bp
             /\ g.mem = [h.mem EXCEPT ![bp + 1] = h.end, ![h.end] = bp]
<1>1. \A a \in Addresses : a \in Nat
  BY AddressFacts
<1> QED BY <1>1 DEF HeapType, Mm!AsEnd

LEMMA BeforeWrites ==
  ASSUME NEW h, HeapType(h), NEW bp \in Addresses, NEW spot \in Addresses,
         NEW prev \in Addresses, h.mem[spot + 1] = prev
  PROVE  LET g == Mm!Before(h, spot, bp)
         IN  /\ HeapType(g) /\ g.brk = h.brk /\ g.root = h.root /\ g.end = h.end
             /\ g.mem = [h.mem EXCEPT ![bp] = spot, ![bp + 1] = prev, ![prev] = bp,
                                      ![spot + 1] = bp]
<1>1. \A a \in Addresses : a \in Nat
  BY AddressFacts
<1> QED BY <1>1 DEF HeapType, Mm!Before, Mm!PREV_PTR

\* Each of them is a splice: into the empty list, ...
LEMMA SplicesAlone ==
  ASSUME NEW h, NEW f, NEW n, NEW B, Heap(h, f, n, B), n = 0, NEW bp \in B
  PROVE  Spliced(h, Mm!Alone(h, bp), f, n, 1, bp)
<1>1. HeapType(h)
  BY DEF Heap
<1>2. h.mem \in [Addresses -> Nat] /\ h.brk \in 4 .. MAX_HEAP /\ BlocksOf(h.mem, h.brk, B)
  BY HeapParts
<1>3. bp \in Addresses
  BY <1>2, MmBlockFacts
<1>4. LET g == Mm!Alone(h, bp)
      IN  g.mem = h.mem /\ g.brk = h.brk /\ g.root = bp /\ g.end = bp
  BY <1>1, <1>3, AloneWrites
<1> QED BY <1>2, <1>4 DEF Spliced

\* ... before the first block, ...
LEMMA SplicesRoot ==
  ASSUME NEW h, NEW f, NEW n, NEW B, Heap(h, f, n, B), n # 0, NEW bp \in B \ Members(f, n)
  PROVE  Spliced(h, Mm!AsRoot(h, bp), f, n, 1, bp)
<1> DEFINE g == Mm!AsRoot(h, bp)
<1>1. HeapType(h)
  BY DEF Heap
<1>2. /\ h.mem \in [Addresses -> Nat] /\ h.brk \in 4 .. MAX_HEAP /\ BlocksOf(h.mem, h.brk, B)
      /\ n \in Nat /\ \A nth \in 1 .. n : f[nth] \in B
  BY HeapParts
<1>3. /\ bp \in Addresses /\ bp + 1 \in Addresses /\ bp % 2 = 0 /\ bp \in Nat
      /\ f[1] \in Addresses /\ f[1] + 1 \in Addresses /\ f[1] % 2 = 0 /\ f[1] \in Nat
      /\ h.root = f[1] /\ h.end = f[n]
  <2>1. 1 \in 1 .. n
    BY <1>2
  <2>2. h.root = f[1] /\ h.end = f[n]
    BY DEF Heap, Chain
  <2> QED BY <1>2, <2>1, <2>2, MmBlockFacts
<1>4. /\ HeapType(g) /\ g.brk = h.brk /\ g.root = bp /\ g.end = h.end
      /\ g.mem = [h.mem EXCEPT ![bp] = f[1], ![f[1] + 1] = bp]
  BY <1>1, <1>3, AsRootWrites
<1> HIDE DEF g
<1>5. bp # f[1] + 1
  BY <1>3
<1>6. g.mem[bp] = f[1] /\ g.mem[f[1] + 1] = bp
  BY <1>2, <1>3, <1>4, <1>5
<1>7. \A a \in Addresses : a # bp /\ a # f[1] + 1 => g.mem[a] = h.mem[a]
  BY <1>2, <1>4
<1>8. 1 # n + 1 /\ 1 <= n /\ g.mem \in [Addresses -> Nat]
  <2>1. g.mem \in [Addresses -> Nat]
    BY <1>4, HeapFields
  <2> QED BY <1>2, <2>1
<1>9. Spliced(h, g, f, n, 1, bp)
  BY <1>3, <1>4, <1>6, <1>7, <1>8 DEF Spliced
<1> QED BY <1>9 DEF g

\* ... behind the last one, ...
LEMMA SplicesEnd ==
  ASSUME NEW h, NEW f, NEW n, NEW B, Heap(h, f, n, B), n # 0, NEW bp \in B \ Members(f, n)
  PROVE  Spliced(h, Mm!AsEnd(h, bp), f, n, n + 1, bp)
<1> DEFINE g == Mm!AsEnd(h, bp)
<1>1. HeapType(h)
  BY DEF Heap
<1>2. /\ h.mem \in [Addresses -> Nat] /\ h.brk \in 4 .. MAX_HEAP /\ BlocksOf(h.mem, h.brk, B)
      /\ n \in Nat /\ \A nth \in 1 .. n : f[nth] \in B
  BY HeapParts
<1>3. /\ bp \in Addresses /\ bp + 1 \in Addresses /\ bp % 2 = 0 /\ bp \in Nat
      /\ f[n] \in Addresses /\ f[n] % 2 = 0 /\ f[n] \in Nat
      /\ h.root = f[1] /\ h.end = f[n]
  <2>1. n \in 1 .. n
    BY <1>2
  <2>2. h.root = f[1] /\ h.end = f[n]
    BY DEF Heap, Chain
  <2> QED BY <1>2, <2>1, <2>2, MmBlockFacts
<1>4. /\ HeapType(g) /\ g.brk = h.brk /\ g.root = h.root /\ g.end = bp
      /\ g.mem = [h.mem EXCEPT ![bp + 1] = f[n], ![f[n]] = bp]
  BY <1>1, <1>3, AsEndWrites
<1> HIDE DEF g
<1>5. bp + 1 # f[n]
  BY <1>3
<1>6. g.mem[bp + 1] = f[n] /\ g.mem[f[n]] = bp
  BY <1>2, <1>3, <1>4, <1>5
<1>7. \A a \in Addresses : a # bp + 1 /\ a # f[n] => g.mem[a] = h.mem[a]
  BY <1>2, <1>4
<1>8. n + 1 # 1 /\ ~ (n + 1 <= n) /\ n + 1 > 1 /\ n + 1 - 1 = n /\ g.mem \in [Addresses -> Nat]
  <2>1. g.mem \in [Addresses -> Nat]
    BY <1>4, HeapFields
  <2> QED BY <1>2, <2>1
<1>10. PICK k : k = n + 1
  OBVIOUS
<1>9. Spliced(h, g, f, n, k, bp)
  <2>1. k # 1 /\ k = n + 1 /\ ~ (k <= n) /\ f[k - 1] = f[n] /\ g.mem \in [Addresses -> Nat]
    <3>1. k \in Nat /\ k - 1 = n
      BY <1>2, <1>10
    <3> QED BY <1>2, <1>8, <1>10, <3>1
  <2>2. k <= n => g.mem[bp] = f[k] /\ g.mem[f[k] + 1] = bp
    BY <2>1
  <2>3. \A a \in Addresses :
          (/\ a # bp /\ a # bp + 1
           /\ k <= n => a # f[k] + 1
           /\ k > 1 => a # f[k - 1]) => g.mem[a] = h.mem[a]
    BY <1>7, <1>8, <1>10, <2>1
  <2> HIDE DEF g
  <2> QED BY <1>3, <1>4, <1>6, <2>1, <2>2, <2>3 DEF Spliced
<1> QED BY <1>9, <1>10 DEF g

\* ... or between two.
LEMMA SplicesBefore ==
  ASSUME NEW h, NEW f, NEW n, NEW B, Heap(h, f, n, B), NEW k \in 2 .. n,
         NEW bp \in B \ Members(f, n)
  PROVE  Spliced(h, Mm!Before(h, f[k], bp), f, n, k, bp)
<1> DEFINE g == Mm!Before(h, f[k], bp)
<1>1. HeapType(h) /\ Chain(h, f, n)
  BY DEF Heap
<1>2. /\ h.mem \in [Addresses -> Nat] /\ h.brk \in 4 .. MAX_HEAP /\ BlocksOf(h.mem, h.brk, B)
      /\ n \in Nat /\ \A nth \in 1 .. n : f[nth] \in B
      /\ \A nth, j \in 1 .. n : f[nth] = f[j] => nth = j
  BY HeapParts
<1>3. k \in 1 .. n /\ k - 1 \in 1 .. n /\ k - 1 \in 1 .. n - 1 /\ k - 1 + 1 = k /\ k # k - 1
      /\ n # 0
  BY <1>2
<1>4. PICK spot, prev : spot = f[k] /\ prev = f[k - 1]
  OBVIOUS
<1>5. /\ bp \in Addresses /\ bp + 1 \in Addresses /\ bp % 2 = 0 /\ bp \in Nat
      /\ spot \in Addresses /\ spot + 1 \in Addresses /\ spot % 2 = 0 /\ spot \in Nat
      /\ prev \in Addresses /\ prev % 2 = 0 /\ prev \in Nat
  <2>1. spot \in B /\ prev \in B
    BY <1>2, <1>3, <1>4
  <2> QED BY <1>2, <2>1, MmBlockFacts
<1>6. h.mem[spot + 1] = prev /\ h.root = f[1] /\ h.end = f[n]
  BY <1>1, <1>3, <1>4 DEF Chain
<1>7. /\ HeapType(g) /\ g.brk = h.brk /\ g.root = h.root /\ g.end = h.end
      /\ g.mem = [h.mem EXCEPT ![bp] = spot, ![bp + 1] = prev, ![prev] = bp,
                               ![spot + 1] = bp]
  <2>1. g = Mm!Before(h, spot, bp)
    BY <1>4
  <2> QED BY <1>1, <1>5, <1>6, <2>1, BeforeWrites
<1> HIDE DEF g
<1>8. bp # prev /\ bp # spot /\ prev # spot
  BY <1>2, <1>3, <1>4 DEF Members
<1>9. /\ g.mem[bp] = spot /\ g.mem[spot + 1] = bp
      /\ g.mem[bp + 1] = prev /\ g.mem[prev] = bp
  <2>1. /\ bp # bp + 1 /\ bp # spot + 1 /\ bp + 1 # prev /\ bp + 1 # spot + 1
        /\ prev # spot + 1
    BY ONLY <1>5, <1>8
  <2> QED BY <1>2, <1>5, <1>7, <1>8, <2>1
<1>10. \A a \in Addresses : a # bp /\ a # bp + 1 /\ a # prev /\ a # spot + 1
         => g.mem[a] = h.mem[a]
  BY <1>2, <1>7
<1>11. k # 1 /\ k # n + 1 /\ k <= n /\ k > 1 /\ g.mem \in [Addresses -> Nat]
  <2>1. g.mem \in [Addresses -> Nat]
    BY <1>7, HeapFields
  <2> QED BY <1>2, <2>1
<1>12. Spliced(h, g, f, n, k, bp)
  BY <1>4, <1>6, <1>7, <1>9, <1>10, <1>11 DEF Spliced
<1> QED BY <1>12 DEF g

(* Where add_free_block puts a block bp: the sizes decide.                 *)
Spot(m, f, n, bp) ==
  LET Large == {nth \in 1 .. n : Size(m, bp) <= Size(m, f[nth])}
  IN  IF n = 0 THEN 1
      ELSE IF Size(m, bp) <= Size(m, f[1]) THEN 1
      ELSE IF Size(m, bp) >= Size(m, f[n]) THEN n + 1
      ELSE CHOOSE k \in Large : \A nth \in Large : k <= nth

AddedAt(h, g, f, n, k, bp) ==
  /\ k \in 1 .. n + 1 /\ HeapType(g) /\ Spliced(h, g, f, n, k, bp)
  /\ \A nth \in 1 .. n : nth < k => Size(h.mem, f[nth]) <= Size(h.mem, bp)
  /\ \A nth \in 1 .. n : nth >= k => Size(h.mem, bp) <= Size(h.mem, f[nth])

LEMMA AddsAt ==
  ASSUME NEW h, NEW f, NEW n, NEW B, Heap(h, f, n, B), NEW bp \in B \ Members(f, n),
         NEW g, g = Mm!add_free_block(h, bp), NEW at, at = Spot(h.mem, f, n, bp)
  PROVE  AddedAt(h, g, f, n, at, bp)
<1> DEFINE size == Size(h.mem, bp)
<1>1. /\ HeapType(h) /\ Chain(h, f, n)
  BY DEF Heap
<1>2. /\ h.mem \in [Addresses -> Nat] /\ h.brk \in 4 .. MAX_HEAP /\ BlocksOf(h.mem, h.brk, B)
      /\ n \in Nat /\ \A nth \in 1 .. n : f[nth] \in B
  BY HeapParts
<1>3. /\ bp \in Addresses /\ size \in Nat
      /\ \A nth \in 1 .. n : f[nth] \in Addresses \ {NULL} /\ Size(h.mem, f[nth]) \in Nat
  <2>1. \A b \in B : b \in Addresses /\ b >= 4 /\ Size(h.mem, b) \in Nat
    BY <1>2, MmBlockFacts
  <2> QED BY <1>2, <2>1 DEF NULL
<1>4. \A nth, j \in 1 .. n : nth < j => Size(h.mem, f[nth]) <= Size(h.mem, f[j])
  BY <1>1 DEF Chain
<1>5. g = IF h.root = NULL /\ h.end = NULL THEN Mm!Alone(h, bp)
          ELSE IF size <= Size(h.mem, h.root) THEN Mm!AsRoot(h, bp)
          ELSE IF size >= Size(h.mem, h.end) THEN Mm!AsEnd(h, bp)
          ELSE Mm!Before(h, Mm!find_fit(h, size, h.root), bp)
  BY SameMacros DEF Mm!add_free_block
<1>7. CASE n = 0
  <2>1. g = Mm!Alone(h, bp)
    BY <1>1, <1>5, <1>7 DEF Chain
  <2>2. HeapType(g) /\ Spliced(h, g, f, n, 1, bp)
    BY <1>1, <1>3, <1>7, <2>1, AloneWrites, SplicesAlone
  <2>3. 1 \in 1 .. n + 1 /\ \A nth \in 1 .. n : FALSE
    BY <1>7
  <2>4. at = 1
    BY <1>7 DEF Spot
  <2> QED BY <2>2, <2>3, <2>4 DEF AddedAt
<1>8. CASE n # 0
  <2>1. /\ h.root = f[1] /\ h.end = f[n] /\ 1 \in 1 .. n /\ n \in 1 .. n
        /\ 1 \in 1 .. n + 1 /\ n + 1 \in 1 .. n + 1
    BY <1>1, <1>2, <1>8 DEF Chain
  <2>2. CASE size <= Size(h.mem, f[1])
    <3>1. g = Mm!AsRoot(h, bp)
      BY <1>3, <1>5, <2>1, <2>2
    <3>2. HeapType(g) /\ Spliced(h, g, f, n, 1, bp)
      <4>1. HeapType(Mm!AsRoot(h, bp))
        BY <1>1, <1>3, AsRootWrites
      <4>2. Spliced(h, Mm!AsRoot(h, bp), f, n, 1, bp)
        BY <1>8, SplicesRoot
      <4> QED BY <3>1, <4>1, <4>2
    <3>3. \A nth \in 1 .. n : nth >= 1 => size <= Size(h.mem, f[nth])
      <4> SUFFICES ASSUME NEW nth \in 1 .. n PROVE size <= Size(h.mem, f[nth])
        OBVIOUS
      <4>1. nth = 1 \/ 1 < nth
        OBVIOUS
      <4>2. Size(h.mem, f[1]) <= Size(h.mem, f[nth])
        BY <1>3, <1>4, <2>1, <4>1
      <4> HIDE DEF size
      <4> QED BY <1>3, <2>1, <2>2, <4>2
    <3>4. \A nth \in 1 .. n : ~ (nth < 1)
      OBVIOUS
    <3>5. at = 1
      BY <2>2 DEF Spot
    <3> QED BY <2>1, <3>2, <3>3, <3>4, <3>5 DEF AddedAt
  <2>3. CASE ~ (size <= Size(h.mem, f[1])) /\ size >= Size(h.mem, f[n])
    <3>1. g = Mm!AsEnd(h, bp)
      BY <1>3, <1>5, <2>1, <2>3
    <3>2. HeapType(g) /\ Spliced(h, g, f, n, n + 1, bp)
      <4>1. HeapType(Mm!AsEnd(h, bp))
        BY <1>1, <1>3, AsEndWrites
      <4>2. Spliced(h, Mm!AsEnd(h, bp), f, n, n + 1, bp)
        BY <1>8, SplicesEnd
      <4> QED BY <3>1, <4>1, <4>2
    <3>3. \A nth \in 1 .. n : nth < n + 1 => Size(h.mem, f[nth]) <= size
      <4> SUFFICES ASSUME NEW nth \in 1 .. n PROVE Size(h.mem, f[nth]) <= size
        OBVIOUS
      <4>1. nth = n \/ nth < n
        BY <1>2
      <4>2. Size(h.mem, f[nth]) <= Size(h.mem, f[n])
        BY <1>3, <1>4, <2>1, <4>1
      <4> HIDE DEF size
      <4> QED BY <1>3, <2>1, <2>3, <4>2
    <3>4. \A nth \in 1 .. n : ~ (nth >= n + 1)
      BY <1>2
    <3>5. at = n + 1
      BY <1>8, <2>3 DEF Spot
    <3> QED BY <2>1, <3>2, <3>3, <3>4, <3>5 DEF AddedAt
  <2>4. CASE ~ (size <= Size(h.mem, f[1])) /\ ~ (size >= Size(h.mem, f[n]))
    <3> DEFINE Large == {nth \in 1 .. n : size <= Size(h.mem, f[nth])}
    <3>1. PICK low \in Large : \A nth \in Large : low <= nth
      <4>1. n \in Large
        BY <1>3, <2>1, <2>4
      <4>2. Large \in SUBSET Nat
        BY <1>2
      <4> HIDE DEF Large
      <4> QED BY <4>1, <4>2, LeastNat
    <3>2. PICK k \in 1 .. n : /\ k = at /\ size <= Size(h.mem, f[k])
                             /\ \A nth \in 1 .. k - 1 : ~ (size <= Size(h.mem, f[nth]))
      <4>1. at = CHOOSE x \in Large : \A nth \in Large : x <= nth
        BY <1>8, <2>4 DEF Spot
      <4>2. at \in Large /\ \A nth \in Large : at <= nth
        <5> HIDE DEF Large
        <5> QED BY <3>1, <4>1
      <4>3. at \in 1 .. n /\ size <= Size(h.mem, f[at])
        BY <4>2
      <4>4. ASSUME NEW nth \in 1 .. at - 1 PROVE ~ (size <= Size(h.mem, f[nth]))
        <5>1. nth \in 1 .. n /\ ~ (at <= nth)
          BY <1>2, <4>3
        <5>2. nth \notin Large
          <6> HIDE DEF Large
          <6> QED BY <4>2, <5>1
        <5> QED BY <5>1, <5>2
      <4> HIDE DEF Large
      <4> QED BY <4>3, <4>4
    <3>3. k \in 2 .. n /\ k \in 1 .. n + 1
      <4>1. k # 1
        BY <2>4, <3>2
      <4> QED BY <1>2, <3>2, <4>1
    <3>4. \A nth \in 1 .. k - 1 : ~ (size <= Size(h.mem, f[nth]))
      BY <3>2
    <3>5. Mm!find_fit(h, size, h.root) = f[k]
      <4>1. \A j \in 1 .. k - 1 : ~ (size <= Size(h.mem, f[j]))
        BY <3>4
      <4> HIDE DEF size, Large
      <4> QED BY ONLY <1>1, <3>2, <4>1, FindFit, k \in 1 .. n
    <3>6. g = Mm!Before(h, f[k], bp)
      <4>1. ~ (h.root = NULL /\ h.end = NULL)
        BY <1>3, <2>1
      <4> HIDE DEF Large
      <4> QED BY <1>3, <1>5, <2>1, <2>4, <3>5, <4>1
    <3>7. Spliced(h, g, f, n, k, bp)
      <4> HIDE DEF Large
      <4> QED BY <3>3, <3>6, SplicesBefore
    <3>8. HeapType(g)
      <4>1. PICK spot, prev : spot = f[k] /\ prev = f[k - 1]
        OBVIOUS
      <4>2. k - 1 \in 1 .. n /\ k - 1 \in 1 .. n - 1 /\ k - 1 + 1 = k
        BY <1>2, <3>3
      <4>3. spot \in Addresses /\ prev \in Addresses
        BY <1>3, <3>2, <4>1, <4>2
      <4>4. h.mem[spot + 1] = prev
        BY <1>1, <4>1, <4>2 DEF Chain
      <4>5. g = Mm!Before(h, spot, bp)
        BY <3>6, <4>1
      <4>6. HeapType(Mm!Before(h, spot, bp))
        <5> HIDE DEF Large
        <5> QED BY ONLY <1>1, <1>3, <4>3, <4>4, BeforeWrites
      <4> QED BY ONLY <4>5, <4>6
    <3>9. \A nth \in 1 .. n : nth < k => Size(h.mem, f[nth]) <= size
      <4> SUFFICES ASSUME NEW nth \in 1 .. n, nth < k PROVE Size(h.mem, f[nth]) <= size
        OBVIOUS
      <4>1. nth \in 1 .. k - 1
        BY <3>2
      <4>2. ~ (size <= Size(h.mem, f[nth])) /\ Size(h.mem, f[nth]) \in Nat
        BY <1>3, <3>4, <4>1
      <4> HIDE DEF size, Large
      <4> QED BY <1>3, <4>2
    <3>10. \A nth \in 1 .. n : nth >= k => size <= Size(h.mem, f[nth])
      <4> SUFFICES ASSUME NEW nth \in 1 .. n, nth >= k PROVE size <= Size(h.mem, f[nth])
        OBVIOUS
      <4>1. nth = k \/ k < nth
        BY <3>2
      <4>2. Size(h.mem, f[k]) <= Size(h.mem, f[nth])
        BY <1>3, <1>4, <3>2, <4>1
      <4> HIDE DEF size, Large
      <4> QED BY <1>3, <3>2, <4>2
    <3> HIDE DEF Large
    <3> QED BY <3>2, <3>3, <3>7, <3>8, <3>9, <3>10 DEF AddedAt
  <2> QED BY <2>2, <2>3, <2>4
<1> QED BY <1>7, <1>8

(* add_free_block puts a free block on the list, and writes only links.    *)
LEMMA AddsBlock ==
  ASSUME NEW h, NEW f, NEW n, NEW B, Heap(h, f, n, B), NEW bp \in B \ Members(f, n),
         ~ Allocated(h.mem, bp),
         NEW g, g = Mm!add_free_block(h, bp), NEW e, e = InsertedAt(f, n, Spot(h.mem, f, n, bp), bp)
  PROVE  /\ Heap(g, e, n + 1, B) /\ Members(e, n + 1) = Members(f, n) \cup {bp}
         /\ SameExcept(h.mem, g.mem, LinkWords(Members(f, n) \cup {bp})) /\ g.brk = h.brk
<1>1. PICK k : k = Spot(h.mem, f, n, bp)
  OBVIOUS
<1>2. AddedAt(h, g, f, n, k, bp)
  BY <1>1, AddsAt
<1>3. /\ k \in 1 .. n + 1 /\ HeapType(g) /\ Spliced(h, g, f, n, k, bp)
      /\ \A nth \in 1 .. n : nth < k => Size(h.mem, f[nth]) <= Size(h.mem, bp)
      /\ \A nth \in 1 .. n : nth >= k => Size(h.mem, bp) <= Size(h.mem, f[nth])
  BY <1>2 DEF AddedAt
<1>4. n \in Nat
  BY HeapParts
<1>5. Heap(g, InsertedAt(f, n, k, bp), n + 1, B)
  BY <1>3, Splicing
<1>6. Members(InsertedAt(f, n, k, bp), n + 1) = Members(f, n) \cup {bp}
  BY <1>3, <1>4, InsertedMembers
<1>7. SameExcept(h.mem, g.mem, LinkWords(Members(f, n) \cup {bp}))
  BY <1>3, <1>4, SplicedLinks
<1> QED BY <1>1, <1>3, <1>5, <1>6, <1>7 DEF Spliced

----------------------------------------------------------------------------
(* Removal.                                                                *)

\* f without its kth block.
Removed(f, n, k) == [nth \in 1 .. n - 1 |-> IF nth < k THEN f[nth] ELSE f[nth + 1]]

(* The words of g are those of h but for the links across the kth block of *)
(* several.                                                                *)
Unspliced(h, g, f, n, k) ==
  /\ g.mem \in [Addresses -> Nat] /\ g.brk = h.brk
  /\ g.root = (IF k = 1 THEN f[2] ELSE f[1])
  /\ g.end = (IF k = n THEN f[n - 1] ELSE f[n])
  /\ k > 1 /\ k < n => g.mem[f[k - 1]] = f[k + 1] /\ g.mem[f[k + 1] + 1] = f[k - 1]
  /\ \A a \in Addresses :
       (/\ k > 1 => a # f[k - 1]
        /\ k < n => a # f[k + 1] + 1) => g.mem[a] = h.mem[a]

\* The blocks of the shorter list.
LEMMA RemovedMembers ==
  ASSUME NEW f, NEW n \in Nat, NEW k \in 1 .. n, \A nth, j \in 1 .. n : f[nth] = f[j] => nth = j
  PROVE  Members(Removed(f, n, k), n - 1) = Members(f, n) \ {f[k]}
<1> DEFINE g == Removed(f, n, k)
<1>1. \A nth \in 1 .. n - 1 : g[nth] = IF nth < k THEN f[nth] ELSE f[nth + 1]
  BY DEF Removed
<1> HIDE DEF g
<1>2. ASSUME NEW nth \in 1 .. n - 1 PROVE g[nth] \in Members(f, n) \ {f[k]}
  <2>1. CASE nth < k
    <3>1. nth \in 1 .. n /\ nth # k
      BY <2>1
    <3> QED BY <1>1, <2>1, <3>1 DEF Members
  <2>2. CASE ~ (nth < k)
    <3>1. nth + 1 \in 1 .. n /\ nth + 1 # k
      BY <2>2
    <3> QED BY <1>1, <2>2, <3>1 DEF Members
  <2> QED BY <2>1, <2>2
<1>3. ASSUME NEW nth \in 1 .. n, nth # k PROVE f[nth] \in Members(g, n - 1)
  <2>1. CASE nth < k
    <3>1. nth \in 1 .. n - 1
      BY <2>1
    <3> QED BY <1>1, <2>1, <3>1 DEF Members
  <2>2. CASE ~ (nth < k)
    <3>1. nth - 1 \in 1 .. n - 1 /\ ~ (nth - 1 < k) /\ nth - 1 + 1 = nth
      BY <1>3, <2>2
    <3>2. g[nth - 1] = f[nth]
      BY <1>1, <3>1
    <3> QED BY <3>1, <3>2 DEF Members
  <2> QED BY <2>1, <2>2
<1>4. \A nth \in 1 .. n : f[nth] # f[k] => nth # k
  OBVIOUS
<1> QED BY <1>2, <1>3, <1>4 DEF Members, g

(* Only links are written.                                                 *)
LEMMA UnsplicedLinks ==
  ASSUME NEW h, NEW g, NEW f, NEW n \in Nat, NEW k \in 1 .. n, Unspliced(h, g, f, n, k)
  PROVE  SameExcept(h.mem, g.mem, LinkWords(Members(f, n)))
<1> DEFINE F == Members(f, n)
<1>1. ASSUME NEW a \in Addresses, a \notin LinkWords(F) PROVE g.mem[a] = h.mem[a]
  <2>1. k < n => a # f[k + 1] + 1
    <3>1. k < n => k + 1 \in 1 .. n
      OBVIOUS
    <3>2. k < n => f[k + 1] \in F
      BY <3>1 DEF Members
    <3> QED BY <1>1, <3>2 DEF LinkWords
  <2>2. k > 1 => a # f[k - 1]
    <3>1. k > 1 => k - 1 \in 1 .. n
      OBVIOUS
    <3>2. k > 1 => f[k - 1] \in F
      BY <3>1 DEF Members
    <3> QED BY <1>1, <3>2 DEF LinkWords
  <2> QED BY <2>1, <2>2 DEF Unspliced
<1> QED BY <1>1 DEF SameExcept, Unspliced

\* The links between the ith block of the list e and the next one.
LinkedAt(g, e, nth) == g.mem[e[nth]] = e[nth + 1] /\ g.mem[e[nth + 1] + 1] = e[nth]

(* The links of the shorter list.                                          *)
LEMMA RemovedLinks ==
  ASSUME NEW h, NEW g, NEW f, NEW n, NEW B, Heap(h, f, n, B), NEW k \in 1 .. n,
         Unspliced(h, g, f, n, k), NEW nth \in 1 .. n - 2
  PROVE  LinkedAt(g, Removed(f, n, k), nth)
<1> DEFINE e == Removed(f, n, k)
<1> SUFFICES g.mem[e[nth]] = e[nth + 1] /\ g.mem[e[nth + 1] + 1] = e[nth]
  BY DEF LinkedAt
<1>1. /\ h.mem \in [Addresses -> Nat] /\ h.brk \in 4 .. MAX_HEAP
      /\ BlocksOf(h.mem, h.brk, B) /\ Chain(h, f, n)
      /\ n \in Nat /\ \A j \in 1 .. n : f[j] \in B
      /\ \A x, y \in 1 .. n : f[x] = f[y] => x = y
  BY HeapParts
<1>2. \A j \in 1 .. n - 1 : e[j] = IF j < k THEN f[j] ELSE f[j + 1]
  BY DEF Removed
<1> HIDE DEF e
<1>3. \A b \in B : /\ b \in Nat /\ b % 2 = 0 /\ b \in Addresses /\ b + 1 \in Addresses
  BY <1>1, MmBlockFacts
<1>4. \A b, c \in B : b # c + 1
  BY <1>3
<1>5. \A j \in 1 .. n - 1 : h.mem[f[j]] = f[j + 1] /\ h.mem[f[j + 1] + 1] = f[j]
  BY <1>1 DEF Chain
<1>6. ASSUME NEW j \in 1 .. n, j # k - 1 PROVE g.mem[f[j]] = h.mem[f[j]]
  <2>1. f[j] \in Addresses
    BY <1>1, <1>3
  <2>2. k < n => f[j] # f[k + 1] + 1
    <3>1. k < n => k + 1 \in 1 .. n
      BY <1>1
    <3> QED BY <1>1, <1>4, <3>1
  <2>3. k > 1 => f[j] # f[k - 1]
    <3>1. k > 1 => k - 1 \in 1 .. n /\ k - 1 # j
      BY <1>1, <1>6
    <3> QED BY <1>1, <3>1
  <2> QED BY <2>1, <2>2, <2>3 DEF Unspliced
<1>7. ASSUME NEW j \in 1 .. n, j # k + 1 PROVE g.mem[f[j] + 1] = h.mem[f[j] + 1]
  <2>1. f[j] + 1 \in Addresses
    BY <1>1, <1>3
  <2>2. k < n => f[j] + 1 # f[k + 1] + 1
    <3>1. k < n => k + 1 \in 1 .. n
      BY <1>1
    <3>2. k < n => f[j] # f[k + 1] /\ f[j] \in Nat /\ f[k + 1] \in Nat
      BY <1>1, <1>3, <1>7, <3>1
    <3> QED BY <3>2
  <2>3. k > 1 => f[j] + 1 # f[k - 1]
    <3>1. k > 1 => k - 1 \in 1 .. n
      BY <1>1
    <3> QED BY <1>1, <1>4, <3>1
  <2> QED BY <2>1, <2>2, <2>3 DEF Unspliced
<1>8. nth \in 1 .. n - 1 /\ nth + 1 \in 1 .. n - 1 /\ nth \in 1 .. n /\ nth + 1 \in 1 .. n
      /\ nth + 1 + 1 \in 1 .. n
  BY <1>1
<1>9. CASE nth + 1 < k
  <2>1. e[nth] = f[nth] /\ e[nth + 1] = f[nth + 1]
    BY <1>1, <1>2, <1>8, <1>9
  <2>2. nth # k - 1 /\ nth + 1 # k + 1
    BY <1>1, <1>9
  <2>3. g.mem[f[nth]] = h.mem[f[nth]] /\ g.mem[f[nth + 1] + 1] = h.mem[f[nth + 1] + 1]
    BY <1>6, <1>7, <1>8, <2>2
  <2> QED BY <1>5, <1>8, <2>1, <2>3
<1>10. CASE nth + 1 = k
  <2>1. e[nth] = f[nth] /\ e[nth + 1] = f[nth + 1 + 1]
    BY <1>1, <1>2, <1>8, <1>10
  <2>2. k > 1 /\ k < n /\ k - 1 = nth /\ k + 1 = nth + 1 + 1
    BY <1>1, <1>10
  <2>3. g.mem[f[k - 1]] = f[k + 1] /\ g.mem[f[k + 1] + 1] = f[k - 1]
    BY <2>2 DEF Unspliced
  <2> QED BY <2>1, <2>2, <2>3
<1>11. CASE nth >= k
  <2>1. e[nth] = f[nth + 1] /\ e[nth + 1] = f[nth + 1 + 1]
    BY <1>1, <1>2, <1>8, <1>11
  <2>2. nth + 1 # k - 1 /\ nth + 1 + 1 # k + 1
    BY <1>1, <1>11
  <2>3. /\ g.mem[f[nth + 1]] = h.mem[f[nth + 1]]
        /\ g.mem[f[nth + 1 + 1] + 1] = h.mem[f[nth + 1 + 1] + 1]
    BY <1>6, <1>7, <1>8, <2>2
  <2> QED BY <1>5, <1>8, <2>1, <2>3
<1>12. nth + 1 < k \/ nth + 1 = k \/ nth >= k
  BY <1>1
<1> QED BY <1>9, <1>10, <1>11, <1>12

(* What is left after a removal is a list.                                 *)
LEMMA Unsplicing ==
  ASSUME NEW h, NEW g, NEW f, NEW n, NEW B, Heap(h, f, n, B), n # 1, NEW k \in 1 .. n,
         Unspliced(h, g, f, n, k), HeapType(g)
  PROVE  Heap(g, Removed(f, n, k), n - 1, B)
<1> DEFINE e == Removed(f, n, k)
           F == Members(f, n)
<1> SUFFICES Heap(g, e, n - 1, B)
  OBVIOUS
<1>1. /\ h.mem \in [Addresses -> Nat] /\ h.brk \in 4 .. MAX_HEAP
      /\ BlocksOf(h.mem, h.brk, B) /\ Chain(h, f, n) /\ F \in SUBSET B
      /\ n \in Nat /\ f \in [1 .. n -> Addresses \ {NULL}]
      /\ \A nth \in 1 .. n : f[nth] \in B
      /\ \A nth, j \in 1 .. n : f[nth] = f[j] => nth = j
  BY HeapParts
<1>2. PICK l \in Nat : l = n - 1 /\ l # 0 /\ n = l + 1
  BY <1>1
<1>3. \A nth \in 1 .. l : e[nth] = IF nth < k THEN f[nth] ELSE f[nth + 1]
  BY <1>2 DEF Removed
<1>4. e \in [1 .. l -> Addresses \ {NULL}]
  <2>1. ASSUME NEW nth \in 1 .. l PROVE e[nth] \in Addresses \ {NULL}
    <3>1. nth \in 1 .. n /\ nth + 1 \in 1 .. n
      BY <1>2
    <3> HIDE DEF e
    <3> QED BY <1>1, <1>3, <3>1
  <2>2. e = [nth \in 1 .. l |-> e[nth]]
    BY <1>2 DEF Removed
  <2> HIDE DEF e
  <2> QED BY <2>1, <2>2
<1>5. Members(e, l) = F \ {f[k]}
  BY <1>1, <1>2, RemovedMembers
<1>16. \A nth \in 1 .. n - 2 : g.mem[e[nth]] = e[nth + 1] /\ g.mem[e[nth + 1] + 1] = e[nth]
  <2>1. ASSUME NEW nth \in 1 .. n - 2 PROVE LinkedAt(g, e, nth)
    BY RemovedLinks
  <2> HIDE DEF e
  <2> QED BY <2>1 DEF LinkedAt
<1> HIDE DEF e
<1>6. SameExcept(h.mem, g.mem, LinkWords(F))
  BY <1>1, UnsplicedLinks
<1>7. BlocksOf(g.mem, h.brk, B) /\ \A b \in B : TagsSame(h.mem, g.mem, b)
  <2> HIDE DEF F
  <2> QED BY <1>1, <1>6, LinksKeep
<1>8. \A b \in B : Size(g.mem, b) = Size(h.mem, b) /\ Allocated(g.mem, b) = Allocated(h.mem, b)
  BY <1>7, SizeSame DEF TagsSame
<1>9. g.brk = h.brk
  BY DEF Unspliced
<1>10. \A b \in Members(e, l) : ~ Allocated(g.mem, b)
  <2>1. \A b \in F : ~ Allocated(h.mem, b)
    BY DEF Heap
  <2> QED BY <1>1, <1>5, <1>8, <2>1
<1>11. g.root = e[1] /\ g.end = e[l]
  <2>1. 1 \in 1 .. l /\ l \in 1 .. l /\ 1 + 1 = 2 /\ l + 1 = n /\ n - 1 = l
    BY <1>2
  <2>2. e[1] = IF k = 1 THEN f[2] ELSE f[1]
    <3>1. 1 < k <=> k # 1
      BY <1>1
    <3> QED BY <1>3, <2>1, <3>1
  <2>3. e[l] = IF k = n THEN f[n - 1] ELSE f[n]
    <3>1. l < k <=> k = n
      BY <1>1, <1>2
    <3> QED BY <1>3, <2>1, <3>1
  <2> QED BY <2>2, <2>3 DEF Unspliced
<1>12. \A nth \in 1 .. l - 1 : g.mem[e[nth]] = e[nth + 1] /\ g.mem[e[nth + 1] + 1] = e[nth]
  <2>1. 1 .. l - 1 = 1 .. n - 2
    BY <1>2
  <2> QED BY <1>16, <2>1
<1>13. ASSUME NEW nth \in 1 .. l, NEW j \in 1 .. l, nth < j
       PROVE  e[nth] # e[j] /\ Size(g.mem, e[nth]) <= Size(g.mem, e[j])
  <2>1. \A x, y \in 1 .. n : x < y => f[x] # f[y] /\ Size(h.mem, f[x]) <= Size(h.mem, f[y])
    BY <1>1 DEF Chain
  <2>2. PICK x \in 1 .. n : x = (IF nth < k THEN nth ELSE nth + 1) /\ e[nth] = f[x]
    BY <1>2, <1>3
  <2>3. PICK y \in 1 .. n : y = (IF j < k THEN j ELSE j + 1) /\ e[j] = f[y]
    BY <1>2, <1>3
  <2>4. x < y
    BY <1>1, <1>13, <2>2, <2>3
  <2>5. f[x] # f[y] /\ Size(h.mem, f[x]) <= Size(h.mem, f[y]) /\ f[x] \in B /\ f[y] \in B
    BY <1>1, <2>1, <2>4
  <2> QED BY <1>8, <2>2, <2>3, <2>5
<1>14. Chain(g, e, l)
  BY <1>2, <1>4, <1>11, <1>12, <1>13 DEF Chain
<1> HIDE DEF F
<1>15. Heap(g, e, l, B)
  BY <1>1, <1>5, <1>7, <1>9, <1>10, <1>14 DEF Heap
<1> QED BY <1>2, <1>15

\* The four ways in which remove_free_block writes a heap with a list.
LEMMA OnlyWrites ==
  ASSUME NEW h, HeapType(h)
  PROVE  LET g == [h EXCEPT !.root = NULL, !.end = NULL]
         IN  HeapType(g) /\ g.mem = h.mem /\ g.brk = h.brk /\ g.root = NULL /\ g.end = NULL
<1>1. NULL \in Addresses
  BY AddressFacts DEF NULL
<1> QED BY <1>1 DEF HeapType

LEMMA FirstWrites ==
  ASSUME NEW h, HeapType(h), NEW next \in Addresses
  PROVE  LET g == [h EXCEPT !.root = next, !.mem[next + 1] = NULL]
         IN  /\ HeapType(g) /\ g.brk = h.brk /\ g.root = next /\ g.end = h.end
             /\ g.mem = [h.mem EXCEPT ![next + 1] = NULL]
BY DEF HeapType, NULL

LEMMA LastWrites ==
  ASSUME NEW h, HeapType(h), NEW prev \in Addresses
  PROVE  LET g == [h EXCEPT !.end = prev, !.mem[prev] = NULL]
         IN  /\ HeapType(g) /\ g.brk = h.brk /\ g.root = h.root /\ g.end = prev
             /\ g.mem = [h.mem EXCEPT ![prev] = NULL]
BY DEF HeapType, NULL

Across(h, prev, next) == [h EXCEPT !.mem[prev] = next, !.mem[next + 1] = prev]

LEMMA BetweenWrites ==
  ASSUME NEW h, HeapType(h), NEW prev \in Addresses, NEW next \in Addresses
  PROVE  LET g == Across(h, prev, next)
         IN  /\ HeapType(g) /\ g.brk = h.brk /\ g.root = h.root /\ g.end = h.end
             /\ g.mem = [h.mem EXCEPT ![prev] = next, ![next + 1] = prev]
<1>1. \A a \in Addresses : a \in Nat
  BY AddressFacts
<1> QED BY <1>1 DEF HeapType, Across

\* What the neighbours of the kth block of a list are.
LEMMA Neighbours ==
  ASSUME NEW h, NEW f, NEW n, NEW B, Heap(h, f, n, B), NEW k \in 1 .. n
  PROVE  /\ f[k] # NULL /\ f[k] \in B
         /\ h.root = f[1] /\ h.end = f[n]
         /\ k < n => k + 1 \in 1 .. n /\ h.mem[f[k]] = f[k + 1]
         /\ k > 1 => k - 1 \in 1 .. n /\ h.mem[f[k] + 1] = f[k - 1]
         /\ h.root = h.end <=> n = 1
         /\ f[k] = h.root <=> k = 1
         /\ f[k] = h.end <=> k = n
<1>1. /\ Chain(h, f, n) /\ n \in Nat /\ f \in [1 .. n -> Addresses \ {NULL}]
      /\ \A nth \in 1 .. n : f[nth] \in B
      /\ \A nth, j \in 1 .. n : f[nth] = f[j] => nth = j
  BY HeapParts
<1>2. n # 0 /\ 1 \in 1 .. n /\ n \in 1 .. n
  BY <1>1
<1>3. h.root = f[1] /\ h.end = f[n]
  BY <1>1, <1>2 DEF Chain
<1>4. \A nth \in 1 .. n - 1 : h.mem[f[nth]] = f[nth + 1] /\ h.mem[f[nth + 1] + 1] = f[nth]
  BY <1>1 DEF Chain
<1>5. k < n => k + 1 \in 1 .. n /\ h.mem[f[k]] = f[k + 1]
  BY <1>1, <1>4
<1>6. k > 1 => k - 1 \in 1 .. n /\ h.mem[f[k] + 1] = f[k - 1]
  <2>1. k > 1 => k - 1 \in 1 .. n /\ k - 1 \in 1 .. n - 1 /\ k - 1 + 1 = k
    BY <1>1
  <2> QED BY <1>4, <2>1
<1> QED BY <1>1, <1>2, <1>3, <1>5, <1>6

\* Each of them takes the kth block out: the first, ...
LEMMA UnsplicesFirst ==
  ASSUME NEW h, NEW f, NEW n, NEW B, Heap(h, f, n, B), n # 1, NEW k \in 1 .. n, k = 1
  PROVE  LET g == Mm!remove_free_block(h, f[k])
         IN  HeapType(g) /\ Unspliced(h, g, f, n, k)
<1> DEFINE g == Mm!remove_free_block(h, f[k])
<1>1. HeapType(h)
  BY DEF Heap
<1>2. /\ h.mem \in [Addresses -> Nat] /\ h.brk \in 4 .. MAX_HEAP /\ BlocksOf(h.mem, h.brk, B)
      /\ n \in Nat /\ \A nth \in 1 .. n : f[nth] \in B
  BY HeapParts
<1>3. 2 \in 1 .. n /\ k < n /\ ~ (k > 1) /\ k # n /\ k + 1 = 2
  BY <1>2
<1>4. PICK next : next = f[2]
  OBVIOUS
<1>5. next \in Addresses /\ next + 1 \in Addresses
  BY <1>2, <1>3, <1>4, MmBlockFacts
<1>6. h.mem[f[k]] = next /\ f[k] # NULL /\ h.root # h.end /\ f[k] = h.root /\ h.end = f[n]
  BY <1>3, <1>4, Neighbours
<1>7. g = [h EXCEPT !.root = next, !.mem[next + 1] = NULL]
  BY <1>6, SameMacros DEF Mm!remove_free_block, Mm!NEXT_PTR
<1>8. /\ HeapType(g) /\ g.brk = h.brk /\ g.root = next /\ g.end = h.end
      /\ g.mem = [h.mem EXCEPT ![next + 1] = NULL]
  <2> HIDE DEF g
  <2>1. g = [h EXCEPT !.root = next, !.mem[next + 1] = NULL]
    BY <1>7
  <2> QED BY <1>1, <1>5, <2>1, FirstWrites
<1> HIDE DEF g
<1>9. \A a \in Addresses : a # next + 1 => g.mem[a] = h.mem[a]
  BY <1>2, <1>8
<1>10. g.mem \in [Addresses -> Nat]
  BY <1>8, HeapFields
<1>11. Unspliced(h, g, f, n, k)
  BY <1>3, <1>4, <1>6, <1>8, <1>9, <1>10 DEF Unspliced
<1> QED BY <1>8, <1>11 DEF g

\* ... the last ...
LEMMA UnsplicesLast ==
  ASSUME NEW h, NEW f, NEW n, NEW B, Heap(h, f, n, B), n # 1, NEW k \in 1 .. n, k = n
  PROVE  LET g == Mm!remove_free_block(h, f[k])
         IN  HeapType(g) /\ Unspliced(h, g, f, n, k)
<1> DEFINE g == Mm!remove_free_block(h, f[k])
<1>1. HeapType(h)
  BY DEF Heap
<1>2. /\ h.mem \in [Addresses -> Nat] /\ h.brk \in 4 .. MAX_HEAP /\ BlocksOf(h.mem, h.brk, B)
      /\ n \in Nat /\ \A nth \in 1 .. n : f[nth] \in B
  BY HeapParts
<1>3. k - 1 \in 1 .. n /\ ~ (k < n) /\ k > 1 /\ k # 1
  BY <1>2
<1>4. PICK prev : prev = f[k - 1]
  OBVIOUS
<1>5. prev \in Addresses
  BY <1>2, <1>3, <1>4, MmBlockFacts
<1>6. /\ h.mem[f[k] + 1] = prev /\ f[k] # NULL /\ h.root # h.end /\ f[k] # h.root
      /\ f[k] = h.end /\ h.root = f[1]
  BY <1>3, <1>4, Neighbours
<1>7. g = [h EXCEPT !.end = prev, !.mem[prev] = NULL]
  BY <1>6, SameMacros DEF Mm!remove_free_block, Mm!PREV_PTR
<1>8. /\ HeapType(g) /\ g.brk = h.brk /\ g.root = h.root /\ g.end = prev
      /\ g.mem = [h.mem EXCEPT ![prev] = NULL]
  <2> HIDE DEF g
  <2>1. g = [h EXCEPT !.end = prev, !.mem[prev] = NULL]
    BY <1>7
  <2> QED BY <1>1, <1>5, <2>1, LastWrites
<1> HIDE DEF g
<1>9. \A a \in Addresses : a # prev => g.mem[a] = h.mem[a]
  BY <1>2, <1>8
<1>10. g.mem \in [Addresses -> Nat]
  BY <1>8, HeapFields
<1>11. Unspliced(h, g, f, n, k)
  BY <1>3, <1>4, <1>6, <1>8, <1>9, <1>10 DEF Unspliced
<1> QED BY <1>8, <1>11 DEF g

\* ... or one between two.
LEMMA UnsplicesBetween ==
  ASSUME NEW h, NEW f, NEW n, NEW B, Heap(h, f, n, B), NEW k \in 2 .. n - 1
  PROVE  LET g == Mm!remove_free_block(h, f[k])
         IN  HeapType(g) /\ Unspliced(h, g, f, n, k)
<1> DEFINE g == Mm!remove_free_block(h, f[k])
<1>1. HeapType(h)
  BY DEF Heap
<1>2. /\ h.mem \in [Addresses -> Nat] /\ h.brk \in 4 .. MAX_HEAP /\ BlocksOf(h.mem, h.brk, B)
      /\ n \in Nat /\ \A nth \in 1 .. n : f[nth] \in B
      /\ \A nth, j \in 1 .. n : f[nth] = f[j] => nth = j
  BY HeapParts
<1>3. /\ k \in 1 .. n /\ k - 1 \in 1 .. n /\ k + 1 \in 1 .. n /\ k < n /\ k > 1
      /\ k # 1 /\ k # n /\ k - 1 # k + 1 /\ n # 1
  BY <1>2
<1>4. PICK prev, next : prev = f[k - 1] /\ next = f[k + 1]
  OBVIOUS
<1>5. /\ prev \in Addresses /\ prev \in Nat /\ prev % 2 = 0
      /\ next \in Addresses /\ next \in Nat /\ next % 2 = 0 /\ next + 1 \in Addresses
  BY <1>2, <1>3, <1>4, MmBlockFacts
<1>6. /\ h.mem[f[k] + 1] = prev /\ h.mem[f[k]] = next
      /\ f[k] # NULL /\ h.root # h.end /\ f[k] # h.root /\ f[k] # h.end
      /\ h.root = f[1] /\ h.end = f[n]
  BY <1>3, <1>4, Neighbours
<1>7. g = Across(h, prev, next)
  BY <1>6, SameMacros DEF Mm!remove_free_block, Mm!PREV_PTR, Mm!NEXT_PTR, Across
<1>8. /\ HeapType(g) /\ g.brk = h.brk /\ g.root = h.root /\ g.end = h.end
      /\ g.mem = [h.mem EXCEPT ![prev] = next, ![next + 1] = prev]
  <2> HIDE DEF g
  <2>1. g = Across(h, prev, next)
    BY <1>7
  <2> QED BY <1>1, <1>5, <2>1, BetweenWrites
<1> HIDE DEF g
<1>9. prev # next + 1
  BY <1>5
<1>10. g.mem[prev] = next /\ g.mem[next + 1] = prev
  BY <1>2, <1>5, <1>8, <1>9
<1>11. \A a \in Addresses : a # prev /\ a # next + 1 => g.mem[a] = h.mem[a]
  BY <1>2, <1>8
<1>12. g.mem \in [Addresses -> Nat]
  BY <1>8, HeapFields
<1>13. Unspliced(h, g, f, n, k)
  BY <1>3, <1>4, <1>6, <1>8, <1>10, <1>11, <1>12 DEF Unspliced
<1> QED BY <1>8, <1>13 DEF g

(* remove_free_block takes a block off the list, and writes only links.    *)
LEMMA RemovesBlock ==
  ASSUME NEW h, NEW f, NEW n, NEW B, Heap(h, f, n, B), NEW k \in 1 .. n
  PROVE  LET g == Mm!remove_free_block(h, f[k]) IN
         /\ Heap(g, Removed(f, n, k), n - 1, B)
         /\ Members(Removed(f, n, k), n - 1) = Members(f, n) \ {f[k]}
         /\ SameExcept(h.mem, g.mem, LinkWords(Members(f, n))) /\ g.brk = h.brk
<1> DEFINE g == Mm!remove_free_block(h, f[k])
<1>1. /\ HeapType(h) /\ h.mem \in [Addresses -> Nat] /\ BlocksOf(h.mem, h.brk, B)
      /\ n \in Nat /\ \A nth, j \in 1 .. n : f[nth] = f[j] => nth = j
  BY HeapParts DEF Heap
<1>2. CASE n = 1
  <2>1. k = 1 /\ f[k] # NULL /\ h.root = h.end
    BY <1>2, Neighbours
  <2>2. g = [h EXCEPT !.root = NULL, !.end = NULL]
    BY <2>1, SameMacros DEF Mm!remove_free_block
  <2>3. HeapType(g) /\ g.mem = h.mem /\ g.brk = h.brk /\ g.root = NULL /\ g.end = NULL
    <3> HIDE DEF g
    <3>1. g = [h EXCEPT !.root = NULL, !.end = NULL]
      BY <2>2
    <3> QED BY <1>1, <3>1, OnlyWrites
  <2> HIDE DEF g
  <2>10. PICK e : e = Removed(f, n, k) /\ e \in [1 .. 0 -> Addresses \ {NULL}]
    <3>1. n - 1 = 0 /\ 1 .. 0 = {}
      BY <1>2
    <3>2. Removed(f, n, k) = [nth \in 1 .. 0 |-> IF nth < k THEN f[nth] ELSE f[nth + 1]]
      BY <3>1 DEF Removed
    <3>3. [nth \in 1 .. 0 |-> IF nth < k THEN f[nth] ELSE f[nth + 1]]
          \in [1 .. 0 -> Addresses \ {NULL}]
      BY <3>1
    <3> QED BY <3>2, <3>3
  <2>4. Members(e, 0) = {} /\ Members(f, n) \ {f[k]} = {}
    BY <1>2, <2>1 DEF Members
  <2>5. Chain(g, e, 0)
    BY <2>3, <2>10 DEF Chain
  <2>6. Heap(g, e, 0, B)
    BY <1>1, <2>3, <2>4, <2>5 DEF Heap
  <2>7. SameExcept(h.mem, g.mem, LinkWords(Members(f, n)))
    BY <1>1, <2>3 DEF SameExcept
  <2>8. n - 1 = 0
    BY <1>2
  <2> QED BY <2>3, <2>4, <2>6, <2>7, <2>8, <2>10 DEF g
<1>3. CASE n # 1
  <2>1. HeapType(g) /\ Unspliced(h, g, f, n, k)
    <3>1. k = 1 \/ k = n \/ k \in 2 .. n - 1
      BY <1>1
    <3> QED BY <1>3, <3>1, UnsplicesFirst, UnsplicesLast, UnsplicesBetween
  <2> HIDE DEF g
  <2>2. Heap(g, Removed(f, n, k), n - 1, B)
    BY <1>3, <2>1, Unsplicing
  <2>3. Members(Removed(f, n, k), n - 1) = Members(f, n) \ {f[k]}
    BY <1>1, RemovedMembers
  <2>4. SameExcept(h.mem, g.mem, LinkWords(Members(f, n)))
    BY <1>1, <2>1, UnsplicedLinks
  <2> QED BY <2>1, <2>2, <2>3, <2>4 DEF Unspliced, g
<1> QED BY <1>2, <1>3

----------------------------------------------------------------------------
(* Tags.                                                                   *)

\* n has the words that m has in the blocks P.
Keeps(m, n, P) == \A b \in P : \A a \in Words(m, b) : n[a] = m[a]

(* Fewer blocks, and a higher break.                                       *)
LEMMA BlocksFewer ==
  ASSUME NEW m \in [Addresses -> Nat], NEW brk \in 4 .. MAX_HEAP, NEW B,
         BlocksOf(m, brk, B), NEW C \in SUBSET B, NEW top \in 4 .. MAX_HEAP, brk <= top
  PROVE  BlocksOf(m, top, C)
<1>1. /\ MAX_HEAP \in Nat /\ brk \in Nat /\ top \in Nat
  BY AddressFacts
<1>2. ASSUME NEW b \in C
      PROVE  /\ b \in 4 .. top - 1 /\ b % 2 = 0 /\ Size(m, b) >= 4 /\ NEXT_BLKP(m, b) <= top
             /\ m[FTRP(m, b)] = m[HDRP(b)]
             /\ \A c \in C : b < c => NEXT_BLKP(m, b) <= c
  <2>1. /\ b \in Nat /\ b >= 4 /\ b % 2 = 0 /\ Size(m, b) \in Nat /\ Size(m, b) >= 4
        /\ b + Size(m, b) <= brk
        /\ m[b + Size(m, b) - 2] = m[b - 1]
        /\ \A c \in B : b < c => b + Size(m, b) <= c
    BY MmBlockFacts
  <2>2. b \in 4 .. top - 1 /\ b + Size(m, b) <= top
    BY <1>1, <2>1
  <2> QED BY <2>1, <2>2 DEF NEXT_BLKP, FTRP, HDRP
<1> QED BY <1>2 DEF BlocksOf

\* The blocks B have the same sizes in both memories.
SizesSame(m, n, B) == \A b \in B : Size(n, b) = Size(m, b)

\* n has new tags of a block, and is m otherwise.
Tagged(m, n, b, size, v) ==
  /\ n \in [Addresses -> Nat]
  /\ Size(n, b) = size /\ (Allocated(n, b) <=> v = 1)
  /\ n[b + size - 2] = n[b - 1]
  /\ \A a \in Addresses : a # b - 1 /\ a # b + size - 2 => n[a] = m[a]

\* That is what PutTags does.
LEMMA TagsPut ==
  ASSUME NEW m \in [Addresses -> Nat], NEW b \in Nat, b >= 4,
         NEW size \in Nat, size % 2 = 0, size >= 4, b + size <= MAX_HEAP, NEW v \in {0, 1},
         NEW n, n = PutTags(m, b, size, v)
  PROVE  Tagged(m, n, b, size, v)
<1>1. PICK word \in Nat : word = PACK(size, v) /\ GET_SIZE(word) = size /\ GET_ALLOC(word) = v
  BY PackParts
<1>2. n = [m EXCEPT ![b - 1] = word, ![b + size - 2] = word]
  BY <1>1 DEF PutTags
<1>3. b - 1 \in Addresses /\ b + size - 2 \in Addresses
  <2>1. /\ MAX_HEAP \in Nat /\ \A a : a \in Addresses <=> a \in Nat /\ a < MAX_HEAP
    BY AddressFacts
  <2>2. /\ b - 1 \in Nat /\ b - 1 < MAX_HEAP
        /\ b + size - 2 \in Nat /\ b + size - 2 < MAX_HEAP
    BY <2>1
  <2> QED BY <2>1, <2>2
<1>4. n[b - 1] = word /\ n[b + size - 2] = word
  BY <1>2, <1>3
<1>5. n \in [Addresses -> Nat]
  BY <1>2
<1>6. \A a \in Addresses : a # b - 1 /\ a # b + size - 2 => n[a] = m[a]
  BY <1>2
<1>7. Size(n, b) = size /\ (Allocated(n, b) <=> v = 1)
  BY <1>1, <1>4 DEF Size, Allocated, HDRP
<1> QED BY <1>4, <1>5, <1>6, <1>7 DEF Tagged

(* A block is put where there is none.                                     *)
LEMMA BlockPut ==
  ASSUME NEW m \in [Addresses -> Nat], NEW brk \in 4 .. MAX_HEAP, NEW B,
         BlocksOf(m, brk, B), NEW b \in Nat, b >= 4, b % 2 = 0,
         NEW size \in Nat, size % 2 = 0, size >= 4, b + size <= brk, NEW v \in {0, 1},
         \A c \in B : c + Size(m, c) <= b \/ b + size <= c,
         NEW n, n = PutTags(m, b, size, v)
  PROVE  BlocksOf(n, brk, B \cup {b}) /\ Keeps(m, n, B)
<1>1. MAX_HEAP \in Nat /\ brk \in Nat /\ b + size <= MAX_HEAP
  BY AddressFacts
<1>2. /\ n \in [Addresses -> Nat] /\ Size(n, b) = size /\ n[b + size - 2] = n[b - 1]
      /\ \A a \in Addresses : a # b - 1 /\ a # b + size - 2 => n[a] = m[a]
  <2>1. Tagged(m, n, b, size, v)
    BY <1>1, TagsPut
  <2> QED BY <2>1 DEF Tagged
<1>3. \A c \in B : /\ c \in Nat /\ c >= 4 /\ c % 2 = 0 /\ Size(m, c) \in Nat /\ Size(m, c) >= 4
                   /\ c + Size(m, c) <= brk /\ c - 1 \in Words(m, c)
                   /\ c + Size(m, c) - 2 \in Words(m, c) /\ Words(m, c) \subseteq Addresses
                   /\ m[c + Size(m, c) - 2] = m[c - 1]
                   /\ \A x \in B : c < x => c + Size(m, c) <= x
  BY MmBlockFacts, WordsHas
<1>4. Keeps(m, n, B)
  <2> SUFFICES ASSUME NEW c \in B, NEW a \in Words(m, c) PROVE n[a] = m[a]
    BY DEF Keeps
  <2>1. a \in Int /\ a >= c - 1 /\ a <= c + Size(m, c) - 2
    BY <1>3 DEF Words
  <2>2. a # b - 1 /\ a # b + size - 2
    <3>1. c + Size(m, c) <= b \/ b + size <= c
      OBVIOUS
    <3> QED BY <1>3, <2>1, <3>1
  <2>3. a \in Addresses
    BY <1>3
  <2> QED BY <1>2, <2>2, <2>3
<1>5. \A c \in B : Size(n, c) = Size(m, c) /\ n[c + Size(m, c) - 2] = n[c - 1]
  <2> SUFFICES ASSUME NEW c \in B
               PROVE  Size(n, c) = Size(m, c) /\ n[c + Size(m, c) - 2] = n[c - 1]
    OBVIOUS
  <2>1. n[c - 1] = m[c - 1] /\ n[c + Size(m, c) - 2] = m[c + Size(m, c) - 2]
    BY <1>3, <1>4 DEF Keeps
  <2>2. Size(n, c) = Size(m, c)
    BY <2>1, SizeSame
  <2> QED BY <1>3, <2>1, <2>2
<1>6. ASSUME NEW c \in B \cup {b}
      PROVE  /\ c \in 4 .. brk - 1 /\ c % 2 = 0 /\ Size(n, c) >= 4 /\ c + Size(n, c) <= brk
             /\ n[c + Size(n, c) - 2] = n[c - 1]
  BY <1>1, <1>2, <1>3, <1>5
<1>7. ASSUME NEW c \in B \cup {b}, NEW x \in B \cup {b}, c < x
      PROVE  c + Size(n, c) <= x
  <2>1. CASE c \in B /\ x \in B
    BY <1>3, <1>5, <1>7, <2>1
  <2>2. CASE c \in B /\ x = b
    <3>1. c + Size(m, c) <= b \/ b + size <= c
      BY <2>2
    <3> QED BY <1>3, <1>5, <1>7, <2>2, <3>1
  <2>3. CASE c = b /\ x \in B
    <3>1. x + Size(m, x) <= b \/ b + size <= x
      BY <2>3
    <3> QED BY <1>2, <1>3, <1>7, <2>3, <3>1
  <2>4. CASE c = b /\ x = b
    BY <1>7, <2>4
  <2> QED BY <2>1, <2>2, <2>3, <2>4
<1> QED BY <1>4, <1>6, <1>7 DEF BlocksOf, NEXT_BLKP, FTRP, HDRP

\* What a kept block keeps besides.
SameBlock(m, n, b) ==
  /\ n[b - 1] = m[b - 1] /\ n[b] = m[b] /\ n[b + 1] = m[b + 1]
  /\ n[b + Size(m, b) - 2] = m[b + Size(m, b) - 2]
  /\ Size(n, b) = Size(m, b) /\ (Allocated(n, b) <=> Allocated(m, b))
  /\ Words(n, b) = Words(m, b)

(* Kept blocks keep their tags and stay kept.                              *)
LEMMA KeptSame ==
  ASSUME NEW m \in [Addresses -> Nat], NEW brk \in 4 .. MAX_HEAP, NEW B,
         BlocksOf(m, brk, B), NEW P, P \subseteq B, NEW n, Keeps(m, n, P)
  PROVE  \A b \in P : SameBlock(m, n, b)
<1> SUFFICES ASSUME NEW b \in P PROVE SameBlock(m, n, b)
  OBVIOUS
<1>1. {b - 1, b, b + 1, b + Size(m, b) - 2} \subseteq Words(m, b)
  BY WordsHas
<1>2. /\ n[b - 1] = m[b - 1] /\ n[b] = m[b] /\ n[b + 1] = m[b + 1]
      /\ n[b + Size(m, b) - 2] = m[b + Size(m, b) - 2]
  BY <1>1 DEF Keeps
<1>3. Size(n, b) = Size(m, b) /\ Allocated(n, b) = Allocated(m, b)
  BY <1>2, SizeSame
<1> QED BY <1>2, <1>3 DEF Words, SameBlock

LEMMA KeepsOn ==
  ASSUME NEW m \in [Addresses -> Nat], NEW brk \in 4 .. MAX_HEAP, NEW B,
         BlocksOf(m, brk, B), NEW P, P \subseteq B, NEW n, Keeps(m, n, P),
         NEW o, Keeps(n, o, P)
  PROVE  Keeps(m, o, P)
<1>1. \A b \in P : SameBlock(m, n, b)
  BY KeptSame
<1>2. \A b \in P : Words(n, b) = Words(m, b)
  BY <1>1 DEF SameBlock
<1> QED BY <1>2 DEF Keeps

(* A heap whose free blocks are kept has the same list.                    *)
LEMMA HeapKept ==
  ASSUME NEW h, NEW f, NEW n, NEW B, Heap(h, f, n, B), NEW g, HeapType(g),
         g.root = h.root, g.end = h.end, Keeps(h.mem, g.mem, Members(f, n)),
         NEW C, BlocksOf(g.mem, g.brk, C), Members(f, n) \subseteq C
  PROVE  Heap(g, f, n, C)
<1>1. /\ h.mem \in [Addresses -> Nat] /\ h.brk \in 4 .. MAX_HEAP
      /\ BlocksOf(h.mem, h.brk, B) /\ Chain(h, f, n) /\ Members(f, n) \in SUBSET B
  BY HeapParts
<1>2. \A b \in Members(f, n) :
        /\ g.mem[b] = h.mem[b] /\ g.mem[b + 1] = h.mem[b + 1]
        /\ Size(g.mem, b) = Size(h.mem, b) /\ (Allocated(g.mem, b) <=> Allocated(h.mem, b))
  <2>1. \A b \in Members(f, n) : SameBlock(h.mem, g.mem, b)
    BY <1>1, KeptSame
  <2> QED BY <2>1 DEF SameBlock
<1>3. Chain(g, f, n)
  <2>1. \A nth \in 1 .. n : f[nth] \in Members(f, n)
    BY DEF Members
  <2> QED BY <1>1, <1>2, <2>1, ChainSame
<1>4. \A b \in Members(f, n) : ~ Allocated(g.mem, b)
  BY <1>2 DEF Heap
<1> QED BY <1>3, <1>4 DEF Heap

----------------------------------------------------------------------------
(* A heap of free blocks on the list f and allocated blocks P.             *)

Layout(h, f, n, P) == Heap(h, f, n, Members(f, n) \cup P) /\ Members(f, n) \cap P = {}

LEMMA LayoutParts ==
  ASSUME NEW h, NEW f, NEW n, NEW P, Layout(h, f, n, P)
  PROVE  /\ HeapType(h) /\ h.mem \in [Addresses -> Nat] /\ h.brk \in 4 .. MAX_HEAP
         /\ BlocksOf(h.mem, h.brk, Members(f, n) \cup P) /\ Chain(h, f, n) /\ n \in Nat
         /\ \A b \in P : b \notin Members(f, n)
<1>1. Heap(h, f, n, Members(f, n) \cup P) /\ Members(f, n) \cap P = {}
  BY DEF Layout
<1>2. HeapType(h)
  BY <1>1 DEF Heap
<1> QED BY <1>1, <1>2, HeapParts

\* Another memory in the record of a heap.
OtherMem(h, g, m) ==
  HeapType(g) /\ g.mem = m /\ g.brk = h.brk /\ g.root = h.root /\ g.end = h.end

LEMMA MemSet ==
  ASSUME NEW h, HeapType(h), NEW m \in [Addresses -> Nat], NEW g, g = [h EXCEPT !.mem = m]
  PROVE  OtherMem(h, g, m)
BY DEF HeapType, OtherMem

\* Another memory with new tags.
LEMMA TagsSet ==
  ASSUME NEW h, HeapType(h), NEW b \in Nat, b >= 4,
         NEW size \in Nat, size % 2 = 0, size >= 4, b + size <= MAX_HEAP, NEW v \in {0, 1},
         NEW g, g = [h EXCEPT !.mem = PutTags(@, b, size, v)]
  PROVE  OtherMem(h, g, PutTags(h.mem, b, size, v))
<1>1. PICK m : m = PutTags(h.mem, b, size, v)
  OBVIOUS
<1>2. h.mem \in [Addresses -> Nat]
  BY HeapFields
<1>3. Tagged(h.mem, m, b, size, v)
  BY <1>1, <1>2, TagsPut
<1>4. m \in [Addresses -> Nat]
  BY <1>3 DEF Tagged
<1>5. g = [h EXCEPT !.mem = m]
  BY <1>1
<1> QED BY <1>1, <1>4, <1>5, MemSet

(* The caller writes between the tags of an allocated block.               *)
PayloadFilled(h, g, f, n, P, p) ==
  /\ Layout(g, f, n, P) /\ Keeps(h.mem, g.mem, P \ {p}) /\ g.brk = h.brk
  /\ SizesSame(h.mem, g.mem, Members(f, n) \cup P)

LEMMA FillsBlock ==
  ASSUME NEW h, NEW f, NEW n, NEW P, Layout(h, f, n, P), NEW p \in P,
         NEW W, W \subseteq p .. p + Size(h.mem, p) - 3, NEW d \in Nat,
         NEW g, g = [h EXCEPT !.mem = Filled(h.mem, W, d)]
  PROVE  PayloadFilled(h, g, f, n, P, p)
<1> DEFINE B == Members(f, n) \cup P
<1>1. /\ HeapType(h) /\ h.mem \in [Addresses -> Nat] /\ h.brk \in 4 .. MAX_HEAP
      /\ BlocksOf(h.mem, h.brk, B) /\ \A b \in P : b \notin Members(f, n)
  BY LayoutParts
<1>2. Filled(h.mem, W, d) \in [Addresses -> Nat]
  BY <1>1 DEF Filled
<1>3. /\ HeapType(g) /\ g.mem = Filled(h.mem, W, d) /\ g.brk = h.brk
      /\ g.root = h.root /\ g.end = h.end
  <2>1. OtherMem(h, g, Filled(h.mem, W, d))
    BY <1>1, <1>2, MemSet
  <2> QED BY <2>1 DEF OtherMem
<1>4. \A a \in Addresses : a \notin W => g.mem[a] = h.mem[a]
  BY <1>1, <1>3 DEF Filled
<1>5. p \in B /\ p \in Nat /\ Size(h.mem, p) \in Nat /\ Size(h.mem, p) >= 4
  BY <1>1, MmBlockFacts
<1>6. W \subseteq Words(h.mem, p)
  BY <1>5 DEF Words
<1>7. Keeps(h.mem, g.mem, B \ {p})
  <2> SUFFICES ASSUME NEW c \in B \ {p}, NEW a \in Words(h.mem, c) PROVE g.mem[a] = h.mem[a]
    BY DEF Keeps
  <2>1. a \in Addresses
    BY <1>1, WordsHas
  <2>2. a \notin Words(h.mem, p)
    BY <1>1, <1>5, WordsApart
  <2> QED BY <1>4, <1>6, <2>1, <2>2
<1>8. ASSUME NEW b \in B PROVE TagsSame(h.mem, g.mem, b)
  <2>1. CASE b = p
    <3>1. b - 1 \in Addresses /\ b + Size(h.mem, b) - 2 \in Addresses
      BY <1>1, MmBlockFacts
    <3>2. p - 1 \notin W /\ p + Size(h.mem, p) - 2 \notin W
      BY <1>5
    <3> QED BY <1>4, <2>1, <3>1, <3>2 DEF TagsSame
  <2>2. CASE b # p
    <3>1. \A c \in B \ {p} : SameBlock(h.mem, g.mem, c)
      <4>1. B \ {p} \subseteq B
        OBVIOUS
      <4> HIDE DEF B
      <4> QED BY <1>1, <1>7, <4>1, KeptSame
    <3>2. SameBlock(h.mem, g.mem, b)
      BY <2>2, <3>1
    <3> QED BY <3>2 DEF SameBlock, TagsSame
  <2> QED BY <2>1, <2>2
<1>9. BlocksOf(g.mem, g.brk, B)
  <2> HIDE DEF B
  <2> QED BY <1>1, <1>3, <1>8, BlocksSame
<1>10. Heap(g, f, n, B)
  <2>1. Heap(h, f, n, B)
    BY DEF Layout
  <2>2. Members(f, n) \subseteq B /\ Members(f, n) \subseteq B \ {p}
    BY <1>1
  <2>3. Keeps(h.mem, g.mem, Members(f, n))
    BY <1>7, <2>2 DEF Keeps
  <2> HIDE DEF B
  <2> QED BY <1>3, <1>9, <2>1, <2>2, <2>3, HeapKept
<1>11. Keeps(h.mem, g.mem, P \ {p})
  BY <1>7 DEF Keeps
<1>12. SizesSame(h.mem, g.mem, B)
  <2> SUFFICES ASSUME NEW b \in B PROVE Size(g.mem, b) = Size(h.mem, b)
    BY DEF SizesSame
  <2>1. g.mem[b - 1] = h.mem[b - 1]
    BY <1>8 DEF TagsSame
  <2> QED BY <2>1, SizeSame
<1> QED BY <1>3, <1>10, <1>11, <1>12 DEF Layout, PayloadFilled

(* A block gets new tags, or is put where there was none.                  *)
NewTags(h, g, f, n, P, b, size, v) ==
  /\ Layout(g, f, n, P \cup {b}) /\ Keeps(h.mem, g.mem, (Members(f, n) \cup P) \ {b})
  /\ Size(g.mem, b) = size /\ (Allocated(g.mem, b) <=> v = 1)

LEMMA TagsBlock ==
  ASSUME NEW h, NEW f, NEW n, NEW P, Layout(h, f, n, P),
         NEW b \in Nat, b >= 4, b % 2 = 0, b \notin Members(f, n),
         NEW size \in Nat, size % 2 = 0, size >= 4, NEW v \in {0, 1},
         NEW g, HeapType(g), g.mem = PutTags(h.mem, b, size, v),
         g.root = h.root, g.end = h.end, h.brk <= g.brk, b + size <= g.brk,
         \A c \in (Members(f, n) \cup P) \ {b} : c + Size(h.mem, c) <= b \/ b + size <= c
  PROVE  NewTags(h, g, f, n, P, b, size, v)
<1> DEFINE B == (Members(f, n) \cup P) \ {b}
<1>1. /\ h.mem \in [Addresses -> Nat] /\ h.brk \in 4 .. MAX_HEAP
      /\ BlocksOf(h.mem, h.brk, Members(f, n) \cup P) /\ \A c \in P : c \notin Members(f, n)
  BY LayoutParts
<1>2. g.brk \in 4 .. MAX_HEAP
  BY HeapFields
<1>3. BlocksOf(h.mem, g.brk, B)
  <2>1. B \in SUBSET (Members(f, n) \cup P)
    OBVIOUS
  <2> HIDE DEF B
  <2> QED BY <1>1, <1>2, <2>1, BlocksFewer
<1>4. BlocksOf(g.mem, g.brk, B \cup {b}) /\ Keeps(h.mem, g.mem, B)
  <2>1. \A c \in B : c + Size(h.mem, c) <= b \/ b + size <= c
    OBVIOUS
  <2> HIDE DEF B
  <2> QED BY <1>1, <1>2, <1>3, <2>1, BlockPut
<1>5. Tagged(h.mem, g.mem, b, size, v)
  <2>1. b + size <= MAX_HEAP
    BY <1>2, AddressFacts
  <2> QED BY <1>1, <2>1, TagsPut
<1>6. B \cup {b} = Members(f, n) \cup (P \cup {b})
  OBVIOUS
<1>7. Heap(g, f, n, Members(f, n) \cup (P \cup {b}))
  <2>1. Heap(h, f, n, Members(f, n) \cup P)
    BY DEF Layout
  <2>2. Keeps(h.mem, g.mem, Members(f, n))
    BY <1>4 DEF Keeps
  <2>3. BlocksOf(g.mem, g.brk, Members(f, n) \cup (P \cup {b}))
    BY <1>4, <1>6
  <2>4. PICK C : C = Members(f, n) \cup (P \cup {b}) /\ Members(f, n) \subseteq C
    OBVIOUS
  <2> HIDE DEF B
  <2>5. Heap(g, f, n, C)
    BY <2>1, <2>2, <2>3, <2>4, HeapKept
  <2> QED BY <2>4, <2>5
<1> QED BY <1>1, <1>4, <1>5, <1>7 DEF Layout, Tagged, NewTags

(* add_free_block makes an allocated block with the tags of a free one a   *)
(* free block.                                                             *)
OnList(h, g, f, n, e, l, P, p) ==
  /\ Layout(g, e, l, P \ {p}) /\ Members(e, l) = Members(f, n) \cup {p}
  /\ Keeps(h.mem, g.mem, P \ {p}) /\ g.brk = h.brk
  /\ SizesSame(h.mem, g.mem, Members(f, n) \cup P)

LEMMA Inserts ==
  ASSUME NEW h, NEW f, NEW n, NEW P, Layout(h, f, n, P), NEW p \in P,
         ~ Allocated(h.mem, p), NEW g, g = Mm!add_free_block(h, p),
         NEW e, e = InsertedAt(f, n, Spot(h.mem, f, n, p), p), NEW l, l = n + 1
  PROVE  OnList(h, g, f, n, e, l, P, p)
<1> DEFINE B == Members(f, n) \cup P
           F == Members(f, n) \cup {p}
<1>1. /\ h.mem \in [Addresses -> Nat] /\ h.brk \in 4 .. MAX_HEAP
      /\ BlocksOf(h.mem, h.brk, B) /\ \A c \in P : c \notin Members(f, n)
      /\ Heap(h, f, n, B)
  BY LayoutParts DEF Layout
<1>2. /\ Heap(g, e, n + 1, B) /\ Members(e, n + 1) = F
      /\ SameExcept(h.mem, g.mem, LinkWords(F)) /\ g.brk = h.brk
  <2>1. p \in B \ Members(f, n)
    BY <1>1
  <2> HIDE DEF B
  <2> QED BY <1>1, <2>1, AddsBlock
<1>3. /\ \A b \in B : TagsSame(h.mem, g.mem, b)
      /\ \A b \in B \ F : \A a \in Words(h.mem, b) : g.mem[a] = h.mem[a]
  <2>1. F \in SUBSET B
    BY <1>1
  <2> HIDE DEF B, F
  <2> QED BY <1>1, <1>2, <2>1, LinksKeep
<1>4. Keeps(h.mem, g.mem, P \ {p})
  <2>1. P \ {p} \subseteq B \ F
    BY <1>1
  <2> QED BY <1>3, <2>1 DEF Keeps
<1>5. Layout(g, e, l, P \ {p})
  <2>1. F \cup (P \ {p}) = B /\ F \cap (P \ {p}) = {}
    BY <1>1
  <2> HIDE DEF B, F
  <2> QED BY <1>2, <2>1 DEF Layout
<1>6. SizesSame(h.mem, g.mem, B)
  <2> SUFFICES ASSUME NEW b \in B PROVE Size(g.mem, b) = Size(h.mem, b)
    BY DEF SizesSame
  <2>1. g.mem[b - 1] = h.mem[b - 1]
    BY <1>3 DEF TagsSame
  <2> QED BY <2>1, SizeSame
<1>7. Members(e, l) = F
  BY <1>2
<1> QED BY <1>2, <1>4, <1>5, <1>6, <1>7 DEF OnList

(* remove_free_block makes a free block an allocated one.                  *)
OffList(h, g, f, n, e, l, P, bp) ==
  /\ Layout(g, e, l, P \cup {bp}) /\ Members(e, l) = Members(f, n) \ {bp}
  /\ Keeps(h.mem, g.mem, P) /\ g.brk = h.brk
  /\ SizesSame(h.mem, g.mem, Members(f, n) \cup P)

LEMMA Removes ==
  ASSUME NEW h, NEW f, NEW n, NEW P, Layout(h, f, n, P), NEW k \in 1 .. n,
         NEW g, g = Mm!remove_free_block(h, f[k]), NEW e, e = Removed(f, n, k),
         NEW l, l = n - 1
  PROVE  OffList(h, g, f, n, e, l, P, f[k])
<1> DEFINE B == Members(f, n) \cup P
           F == Members(f, n)
<1>1. /\ h.mem \in [Addresses -> Nat] /\ h.brk \in 4 .. MAX_HEAP
      /\ BlocksOf(h.mem, h.brk, B) /\ \A c \in P : c \notin F
      /\ Heap(h, f, n, B) /\ f[k] \in F
  <2>1. f[k] \in F
    BY DEF Members
  <2> QED BY <2>1, LayoutParts DEF Layout
<1>2. /\ Heap(g, e, n - 1, B) /\ Members(e, n - 1) = F \ {f[k]}
      /\ SameExcept(h.mem, g.mem, LinkWords(F)) /\ g.brk = h.brk
  <2> HIDE DEF B
  <2> QED BY <1>1, RemovesBlock
<1>4. /\ \A b \in B : TagsSame(h.mem, g.mem, b)
      /\ \A b \in B \ F : \A a \in Words(h.mem, b) : g.mem[a] = h.mem[a]
  <2>1. F \in SUBSET B
    OBVIOUS
  <2> HIDE DEF B, F
  <2> QED BY <1>1, <1>2, <2>1, LinksKeep
<1>5. Keeps(h.mem, g.mem, P)
  BY <1>1, <1>4 DEF Keeps
<1>6. SizesSame(h.mem, g.mem, B)
  <2> SUFFICES ASSUME NEW b \in B PROVE Size(g.mem, b) = Size(h.mem, b)
    BY DEF SizesSame
  <2>1. g.mem[b - 1] = h.mem[b - 1]
    BY <1>4 DEF TagsSame
  <2> QED BY <2>1, SizeSame
<1>7. Layout(g, e, l, P \cup {f[k]})
  <2>1. (F \ {f[k]}) \cup (P \cup {f[k]}) = B /\ (F \ {f[k]}) \cap (P \cup {f[k]}) = {}
    BY <1>1
  <2> HIDE DEF B, F
  <2> QED BY <1>2, <2>1 DEF Layout
<1>8. Members(e, l) = F \ {f[k]}
  BY <1>2
<1> QED BY <1>2, <1>5, <1>6, <1>7, <1>8 DEF OffList

----------------------------------------------------------------------------
(* mm_malloc and mm_free.                                                  *)

(* g is h with bp allocated as a block of asize words: no other block      *)
(* changes, and none drops off the list.                                   *)
Gives(h, g, f, n, P, bp, asize) ==
  /\ bp \notin P /\ Size(g.mem, bp) = asize /\ Keeps(h.mem, g.mem, P)
  /\ \E e, l : Layout(g, e, l, P \cup {bp}) /\ Members(f, n) \subseteq Members(e, l) \cup {bp}

(* A block that is taken off the list and cut to size.                     *)
CutOff(h, g, f, n, e, l, P, bp, asize) ==
  /\ bp \in Nat /\ bp >= 4 /\ bp % 2 = 0 /\ bp \notin P
  /\ Layout(g, e, l, P \cup {bp}) /\ Members(e, l) = Members(f, n) \ {bp}
  /\ SizesSame(h.mem, g.mem, (Members(f, n) \cup P) \ {bp})
  /\ Keeps(h.mem, g.mem, P) /\ g.brk = h.brk /\ Size(g.mem, bp) = asize
  /\ \A c \in (Members(f, n) \cup P) \ {bp} :
       c + Size(g.mem, c) <= bp \/ bp + Size(h.mem, bp) <= c

LEMMA Cuts ==
  ASSUME NEW h, NEW f, NEW n, NEW P, Layout(h, f, n, P), NEW k \in 1 .. n,
         NEW asize \in Nat, asize % 2 = 0, asize >= 4, asize <= Size(h.mem, f[k]),
         NEW g, g = [Mm!remove_free_block(h, f[k])
                       EXCEPT !.mem = PutTags(@, f[k], asize, 1)],
         NEW e, e = Removed(f, n, k), NEW l, l = n - 1
  PROVE  CutOff(h, g, f, n, e, l, P, f[k], asize)
<1> DEFINE r == Mm!remove_free_block(h, f[k])
<1>1. PICK bp : bp = f[k]
  OBVIOUS
<1>2. /\ HeapType(h) /\ h.mem \in [Addresses -> Nat] /\ h.brk \in 4 .. MAX_HEAP
      /\ BlocksOf(h.mem, h.brk, Members(f, n) \cup P)
      /\ \A c \in P : c \notin Members(f, n)
  BY LayoutParts
<1>3. bp \in Members(f, n)
  BY <1>1 DEF Members
<1>4. /\ bp \in Nat /\ bp >= 4 /\ bp % 2 = 0 /\ Size(h.mem, bp) \in Nat
      /\ bp + Size(h.mem, bp) <= h.brk
  BY <1>2, <1>3, MmBlockFacts
<1>5. OffList(h, r, f, n, e, l, P, bp)
  <2>1. r = Mm!remove_free_block(h, f[k])
    OBVIOUS
  <2> HIDE DEF r
  <2> QED BY <1>1, <2>1, Removes
<1> HIDE DEF r
<1>6. /\ Keeps(h.mem, r.mem, P) /\ r.brk = h.brk /\ Size(r.mem, bp) = Size(h.mem, bp)
  BY <1>3, <1>5 DEF OffList, SizesSame
<1>19. Layout(r, e, l, P \cup {bp}) /\ Members(e, l) = Members(f, n) \ {bp}
  BY <1>5 DEF OffList
<1>7. /\ HeapType(r) /\ r.mem \in [Addresses -> Nat] /\ r.brk \in 4 .. MAX_HEAP
      /\ BlocksOf(r.mem, r.brk, Members(e, l) \cup (P \cup {bp}))
  BY <1>19, LayoutParts
<1>8. \A c \in (Members(f, n) \cup P) \ {bp} :
        c + Size(r.mem, c) <= bp \/ bp + Size(h.mem, bp) <= c
  <2> SUFFICES ASSUME NEW c \in (Members(f, n) \cup P) \ {bp}
               PROVE  c + Size(r.mem, c) <= bp \/ bp + Size(h.mem, bp) <= c
    OBVIOUS
  <2>1. /\ c \in Members(e, l) \cup (P \cup {bp}) /\ c # bp
        /\ bp \in Members(e, l) \cup (P \cup {bp})
    BY <1>19
  <2>2. c \in Nat /\ (c < bp => c + Size(r.mem, c) <= bp)
    BY <1>7, <2>1, MmBlockFacts
  <2>3. bp < c => bp + Size(h.mem, bp) <= c
    BY <1>6, <1>7, <2>1, MmBlockFacts
  <2> QED BY <1>4, <2>1, <2>2, <2>3
<1>9. /\ HeapType(g) /\ g.mem = PutTags(r.mem, bp, asize, 1) /\ g.brk = h.brk
      /\ g.root = r.root /\ g.end = r.end
  <2>1. bp + asize <= MAX_HEAP
    BY <1>2, <1>4, <1>1, AddressFacts
  <2>2. g = [r EXCEPT !.mem = PutTags(@, bp, asize, 1)]
    BY <1>1 DEF r
  <2>3. OtherMem(r, g, PutTags(r.mem, bp, asize, 1))
    BY <1>4, <1>7, <2>1, <2>2, TagsSet
  <2> QED BY <1>6, <2>3 DEF OtherMem
<1>10. Size(h.mem, bp) >= asize /\ bp + asize <= g.brk /\ r.brk <= g.brk
  BY <1>1, <1>2, <1>4, <1>6, <1>9
<1>11. bp \notin Members(e, l) /\ P \cup {bp} \cup {bp} = P \cup {bp}
       /\ (Members(e, l) \cup (P \cup {bp})) \ {bp} = (Members(f, n) \cup P) \ {bp}
  BY <1>19
<1>12. \A c \in (Members(e, l) \cup (P \cup {bp})) \ {bp} :
         c + Size(r.mem, c) <= bp \/ bp + asize <= c
  <2> SUFFICES ASSUME NEW c \in (Members(f, n) \cup P) \ {bp}
               PROVE  c + Size(r.mem, c) <= bp \/ bp + asize <= c
    BY <1>11
  <2>1. c + Size(r.mem, c) <= bp \/ bp + Size(h.mem, bp) <= c
    BY <1>8
  <2>2. c \in Nat
    <3>1. c \in Members(f, n) \cup P
      OBVIOUS
    <3> QED BY <1>2, <3>1, MmBlockFacts
  <2> QED BY <1>4, <1>10, <2>1, <2>2
<1>13. /\ Layout(g, e, l, P \cup {bp}) /\ Size(g.mem, bp) = asize
       /\ Keeps(r.mem, g.mem, (Members(f, n) \cup P) \ {bp})
  <2>1. PICK Q : Q = P \cup {bp} /\ Q \cup {bp} = Q
    OBVIOUS
  <2>2. /\ Layout(r, e, l, Q) /\ bp \notin Members(e, l)
        /\ \A c \in (Members(e, l) \cup Q) \ {bp} : c + Size(r.mem, c) <= bp \/ bp + asize <= c
    BY <1>11, <1>12, <1>19, <2>1
  <2>3. NewTags(r, g, e, l, Q, bp, asize, 1)
    BY <1>4, <1>9, <1>10, <2>2, TagsBlock
  <2>4. /\ Layout(g, e, l, Q) /\ Size(g.mem, bp) = asize
        /\ Keeps(r.mem, g.mem, (Members(e, l) \cup Q) \ {bp})
    BY <2>1, <2>3 DEF NewTags
  <2> QED BY <1>11, <2>1, <2>4
<1>14. Keeps(h.mem, g.mem, P)
  <2>1. P \subseteq (Members(f, n) \cup P) \ {bp}
    BY <1>2, <1>3
  <2>2. Keeps(r.mem, g.mem, P)
    BY <1>13, <2>1 DEF Keeps
  <2>3. P \in SUBSET (Members(f, n) \cup P)
    OBVIOUS
  <2> QED BY <1>2, <1>6, <2>2, <2>3, KeepsOn
<1>15. \A c \in (Members(f, n) \cup P) \ {bp} : Size(g.mem, c) = Size(r.mem, c)
  <2>1. PICK C : C = Members(e, l) \cup (P \cup {bp})
    OBVIOUS
  <2>2. (Members(f, n) \cup P) \ {bp} \subseteq C
    BY <1>19, <2>1
  <2>3. \A c \in (Members(f, n) \cup P) \ {bp} : SameBlock(r.mem, g.mem, c)
    BY <1>7, <1>13, <2>1, <2>2, KeptSame
  <2> QED BY <2>3 DEF SameBlock
<1>16. \A c \in (Members(f, n) \cup P) \ {bp} :
         c + Size(g.mem, c) <= bp \/ bp + Size(h.mem, bp) <= c
  BY <1>8, <1>15
<1>17. bp \notin P
  BY <1>2, <1>3
<1>20. SizesSame(h.mem, g.mem, (Members(f, n) \cup P) \ {bp})
  BY <1>5, <1>15 DEF OffList, SizesSame
<1>18. CutOff(h, g, f, n, e, l, P, bp, asize)
  BY <1>4, <1>9, <1>13, <1>14, <1>16, <1>17, <1>19, <1>20 DEF CutOff
<1> QED BY <1>1, <1>18

(* What is left of a block becomes a block of its own, and then one of the *)
(* list.                                                                   *)
LeftOver(h, t, u, e, l, P, bp, asize) ==
  /\ Layout(u, e, l, P \cup {bp} \cup {bp + asize}) /\ u.brk = t.brk
  /\ bp + asize \notin Members(e, l) \cup (P \cup {bp}) /\ ~ Allocated(u.mem, bp + asize)
  /\ Size(u.mem, bp + asize) = Size(h.mem, bp) - asize
  /\ Keeps(t.mem, u.mem, Members(e, l) \cup (P \cup {bp}))

LEMMA LeavesRest ==
  ASSUME NEW h, NEW f, NEW n, NEW P, Layout(h, f, n, P), NEW bp \in Members(f, n),
         NEW asize \in Nat, asize % 2 = 0, asize >= 4, Size(h.mem, bp) - asize >= 4,
         NEW e, NEW l, NEW t, HeapType(t), CutOff(h, t, f, n, e, l, P, bp, asize),
         NEW u, u = [t EXCEPT !.mem = PutTags(@, bp + asize, Size(h.mem, bp) - asize, 0)]
  PROVE  LeftOver(h, t, u, e, l, P, bp, asize)
<1>1. /\ HeapType(h) /\ h.mem \in [Addresses -> Nat] /\ h.brk \in 4 .. MAX_HEAP
      /\ BlocksOf(h.mem, h.brk, Members(f, n) \cup P)
      /\ \A c \in P : c \notin Members(f, n)
  BY LayoutParts
<1>2. PICK csize \in Nat : csize = Size(h.mem, bp) /\ csize % 2 = 0 /\ bp + csize <= h.brk
  BY <1>1, MmBlockFacts
<1>3. /\ bp \in Nat /\ bp >= 4 /\ bp % 2 = 0 /\ bp \notin P
      /\ Keeps(h.mem, t.mem, P) /\ t.brk = h.brk /\ Size(t.mem, bp) = asize
      /\ \A c \in (Members(f, n) \cup P) \ {bp} :
           c + Size(t.mem, c) <= bp \/ bp + csize <= c
  BY <1>2 DEF CutOff
<1>4. Layout(t, e, l, P \cup {bp}) /\ Members(e, l) = Members(f, n) \ {bp}
  BY DEF CutOff
<1>5. PICK Q : Q = P \cup {bp}
  OBVIOUS
<1>6. PICK rest \in Nat, rsize \in Nat :
        /\ rest = bp + asize /\ rsize = csize - asize
        /\ rest >= 4 /\ rest % 2 = 0 /\ rsize >= 4 /\ rsize % 2 = 0
        /\ rest + rsize = bp + csize
  <2>1. /\ bp + asize \in Nat /\ csize - asize \in Nat
        /\ bp + asize >= 4 /\ (bp + asize) % 2 = 0
        /\ csize - asize >= 4 /\ (csize - asize) % 2 = 0
        /\ bp + asize + (csize - asize) = bp + csize
    BY <1>2, <1>3
  <2> QED BY <2>1
<1>7. /\ t.mem \in [Addresses -> Nat] /\ t.brk \in 4 .. MAX_HEAP
      /\ BlocksOf(t.mem, t.brk, Members(e, l) \cup Q)
  BY <1>4, <1>5, LayoutParts
<1>8. Members(e, l) \cup Q = Members(f, n) \cup P
  BY <1>4, <1>5
<1>9. \A c \in Members(e, l) \cup Q :
        c # rest /\ (c + Size(t.mem, c) <= rest \/ rest + rsize <= c)
  <2> SUFFICES ASSUME NEW c \in Members(e, l) \cup Q
               PROVE  c # rest /\ (c + Size(t.mem, c) <= rest \/ rest + rsize <= c)
    OBVIOUS
  <2>1. CASE c = bp
    BY <1>3, <1>6, <2>1
  <2>2. CASE c # bp
    <3>1. c \in (Members(f, n) \cup P) \ {bp}
      BY <1>8, <2>2
    <3>2. c + Size(t.mem, c) <= bp \/ bp + csize <= c
      BY <1>3, <3>1
    <3>3. c \in Nat /\ Size(t.mem, c) \in Nat /\ Size(t.mem, c) >= 4
      BY <1>7, MmBlockFacts
    <3> QED BY <1>2, <1>3, <1>6, <3>2, <3>3
  <2> QED BY <2>1, <2>2
<1>10. rest + rsize <= MAX_HEAP /\ rest + rsize <= t.brk
  BY <1>1, <1>2, <1>3, <1>6, AddressFacts
<1>11. OtherMem(t, u, PutTags(t.mem, rest, rsize, 0))
  <2>1. u = [t EXCEPT !.mem = PutTags(@, rest, rsize, 0)]
    BY <1>2, <1>6
  <2> QED BY <1>6, <1>10, <2>1, TagsSet
<1>12. /\ HeapType(u) /\ u.mem = PutTags(t.mem, rest, rsize, 0) /\ u.brk = t.brk
       /\ u.root = t.root /\ u.end = t.end
  BY <1>11 DEF OtherMem
<1>13. NewTags(t, u, e, l, Q, rest, rsize, 0)
  <2>1. Layout(t, e, l, Q) /\ rest \notin Members(e, l)
    BY <1>4, <1>5, <1>9
  <2>2. t.brk <= u.brk /\ rest + rsize <= u.brk
    BY <1>7, <1>10, <1>12
  <2>3. \A c \in (Members(e, l) \cup Q) \ {rest} : c + Size(t.mem, c) <= rest \/ rest + rsize <= c
    BY <1>9
  <2> QED BY <1>6, <1>12, <2>1, <2>2, <2>3, TagsBlock
<1>14. rest \notin Members(e, l) \cup Q
  BY <1>9
<1>15. /\ Layout(u, e, l, Q \cup {rest}) /\ ~ Allocated(u.mem, rest)
       /\ Size(u.mem, rest) = rsize /\ Keeps(t.mem, u.mem, Members(e, l) \cup Q)
  <2>1. (Members(e, l) \cup Q) \ {rest} = Members(e, l) \cup Q
    BY <1>14
  <2>2. /\ Layout(u, e, l, Q \cup {rest}) /\ Size(u.mem, rest) = rsize
        /\ Keeps(t.mem, u.mem, (Members(e, l) \cup Q) \ {rest})
    BY <1>13 DEF NewTags
  <2>3. ~ Allocated(u.mem, rest)
    <3>1. Allocated(u.mem, rest) <=> 0 = 1
      BY <1>13 DEF NewTags
    <3> QED BY <3>1
  <2> QED BY <2>1, <2>2, <2>3
<1> QED BY <1>2, <1>5, <1>6, <1>12, <1>14, <1>15 DEF LeftOver

LEMMA SplitsOff ==
  ASSUME NEW h, NEW f, NEW n, NEW P, Layout(h, f, n, P), NEW bp \in Members(f, n),
         NEW asize \in Nat, asize % 2 = 0, asize >= 4, Size(h.mem, bp) - asize >= 4,
         NEW e, NEW l, NEW t, HeapType(t), CutOff(h, t, f, n, e, l, P, bp, asize),
         NEW u, u = [t EXCEPT !.mem = PutTags(@, bp + asize, Size(h.mem, bp) - asize, 0)],
         NEW g, g = Mm!add_free_block(u, bp + asize)
  PROVE  Gives(h, g, f, n, P, bp, asize) /\ g.brk = h.brk
<1>1. /\ HeapType(h) /\ h.mem \in [Addresses -> Nat] /\ h.brk \in 4 .. MAX_HEAP
      /\ BlocksOf(h.mem, h.brk, Members(f, n) \cup P)
  BY LayoutParts
<1>3. /\ bp \notin P /\ Keeps(h.mem, t.mem, P) /\ t.brk = h.brk /\ Size(t.mem, bp) = asize
      /\ Layout(t, e, l, P \cup {bp}) /\ Members(e, l) = Members(f, n) \ {bp}
  BY DEF CutOff
<1>4. LeftOver(h, t, u, e, l, P, bp, asize)
  BY LeavesRest
<1>5. PICK Q, rest : Q = P \cup {bp} /\ rest = bp + asize
  OBVIOUS
<1>7. /\ t.mem \in [Addresses -> Nat] /\ t.brk \in 4 .. MAX_HEAP
      /\ BlocksOf(t.mem, t.brk, Members(e, l) \cup Q)
  BY <1>3, <1>5, LayoutParts
<1>12. /\ Layout(u, e, l, Q \cup {rest}) /\ u.brk = t.brk /\ rest \notin Members(e, l) \cup Q
       /\ ~ Allocated(u.mem, rest) /\ Keeps(t.mem, u.mem, Members(e, l) \cup Q)
  BY <1>4, <1>5 DEF LeftOver
<1>14. PICK R : R = Q \cup {rest} /\ R \ {rest} = Q /\ rest \in R
  <2>1. (Q \cup {rest}) \ {rest} = Q /\ rest \in Q \cup {rest}
    BY <1>12
  <2> QED BY <2>1
<1>15. /\ Layout(u, e, l, R) /\ ~ Allocated(u.mem, rest) /\ Keeps(t.mem, u.mem, Q)
  BY <1>12, <1>14 DEF Keeps
<1>17. PICK x, y : OnList(u, g, e, l, x, y, R, rest)
  <2>1. g = Mm!add_free_block(u, rest)
    BY <1>5
  <2> QED BY <1>14, <1>15, <2>1, Inserts
<1>16. Layout(g, x, y, Q) /\ Members(x, y) = Members(e, l) \cup {rest}
  BY <1>14, <1>17 DEF OnList
<1>18. Keeps(u.mem, g.mem, Q) /\ g.brk = h.brk
  BY <1>3, <1>12, <1>14, <1>17 DEF OnList
<1>19. Keeps(t.mem, g.mem, Q)
  <2>1. PICK C : C = Members(e, l) \cup Q /\ Q \subseteq C
    OBVIOUS
  <2> QED BY <1>7, <1>15, <1>18, <2>1, KeepsOn
<1>20. Size(g.mem, bp) = asize
  <2>1. PICK C : C = Members(e, l) \cup Q /\ Q \subseteq C
    OBVIOUS
  <2>2. \A c \in Q : SameBlock(t.mem, g.mem, c)
    BY <1>7, <1>19, <2>1, KeptSame
  <2>3. SameBlock(t.mem, g.mem, bp)
    BY <1>5, <2>2
  <2> QED BY <1>3, <2>3 DEF SameBlock
<1>21. Keeps(h.mem, g.mem, P)
  <2>1. PICK C : C = Members(f, n) \cup P /\ P \subseteq C
    OBVIOUS
  <2>2. Keeps(t.mem, g.mem, P)
    BY <1>5, <1>19 DEF Keeps
  <2> QED BY <1>1, <1>3, <2>1, <2>2, KeepsOn
<1>22. Layout(g, x, y, P \cup {bp}) /\ Members(f, n) \subseteq Members(x, y) \cup {bp}
  BY <1>3, <1>5, <1>16
<1> QED BY <1>3, <1>18, <1>20, <1>21, <1>22 DEF Gives

(* The two ways to allocate a block of the list.                           *)
TakenWith(bp, asize, csize, t, u, g) ==
  g = IF csize - asize >= 4 THEN Mm!add_free_block(u, bp + asize) ELSE t

LEMMA TakenIs ==
  ASSUME NEW h, NEW bp, NEW asize, NEW csize, csize = Size(h.mem, bp),
         NEW t, t = [Mm!remove_free_block(h, bp) EXCEPT !.mem = PutTags(@, bp, asize, 1)],
         NEW u, u = [t EXCEPT !.mem = PutTags(@, bp + asize, csize - asize, 0)],
         NEW g, g = Mm!Taken(h, bp, asize)
  PROVE  TakenWith(bp, asize, csize, t, u, g)
<1> DEFINE r == Mm!remove_free_block(h, bp)
           T == [r EXCEPT !.mem = Mm!PutTags(@, bp, asize, 1)]
           left == Mm!SizeIn(h, bp) - asize
           U == [T EXCEPT !.mem = Mm!PutTags(@, bp + asize, left, 0)]
<1>1. g = IF left >= 4 THEN Mm!add_free_block(U, bp + asize) ELSE T
  BY DEF Mm!Taken, Mm!Splits
<1>2. T = t
  <2>1. Mm!PutTags(r.mem, bp, asize, 1) = PutTags(r.mem, bp, asize, 1)
    BY SameMacros
  <2> HIDE DEF r
  <2> QED BY <2>1 DEF r
<1>3. left = csize - asize
  BY SameMacros
<1> HIDE DEF T, left
<1>4. U = u
  <2>1. Mm!PutTags(T.mem, bp + asize, left, 0) = PutTags(T.mem, bp + asize, left, 0)
    BY SameMacros
  <2>2. U = [T EXCEPT !.mem = PutTags(@, bp + asize, left, 0)]
    BY <2>1
  <2> QED BY <1>2, <1>3, <2>2
<1> HIDE DEF U
<1> QED BY <1>1, <1>2, <1>3, <1>4 DEF TakenWith
(* A block of the list is allocated.                                       *)
LEMMA TakenGives ==
  ASSUME NEW h, NEW f, NEW n, NEW P, Layout(h, f, n, P), NEW k \in 1 .. n,
         NEW asize \in Nat, asize % 2 = 0, asize >= 4, asize <= Size(h.mem, f[k]),
         NEW g, g = Mm!Taken(h, f[k], asize)
  PROVE  Gives(h, g, f, n, P, f[k], asize) /\ g.brk = h.brk
<1>1. PICK bp : bp = f[k] /\ bp \in Members(f, n)
  BY DEF Members
<1>2. PICK csize : csize = Size(h.mem, bp)
  OBVIOUS
<1>10. PICK t : t = [Mm!remove_free_block(h, bp) EXCEPT !.mem = PutTags(@, bp, asize, 1)]
  OBVIOUS
<1>11. PICK u : u = [t EXCEPT !.mem = PutTags(@, bp + asize, csize - asize, 0)]
  OBVIOUS
<1>3. g = IF csize - asize >= 4 THEN Mm!add_free_block(u, bp + asize) ELSE t
  <2>1. g = Mm!Taken(h, bp, asize)
    BY <1>1
  <2>2. TakenWith(bp, asize, csize, t, u, g)
    BY <1>2, <1>10, <1>11, <2>1, TakenIs
  <2> QED BY <2>2 DEF TakenWith
<1>5. PICK e, l : e = Removed(f, n, k) /\ l = n - 1
  OBVIOUS
<1>4. CutOff(h, t, f, n, e, l, P, bp, asize)
  <2>1. t = [Mm!remove_free_block(h, f[k]) EXCEPT !.mem = PutTags(@, f[k], asize, 1)]
    BY <1>1, <1>10
  <2>2. CutOff(h, t, f, n, e, l, P, f[k], asize)
    BY <1>5, <2>1, Cuts
  <2> QED BY <1>1, <2>2
<1>9. Layout(t, e, l, P \cup {bp}) /\ Members(e, l) = Members(f, n) \ {bp}
  BY <1>4 DEF CutOff
<1>6. HeapType(t)
  BY <1>9, LayoutParts
<1>7. CASE csize - asize >= 4
  <2>1. g = Mm!add_free_block(u, bp + asize)
    BY <1>3, <1>7
  <2>2. u = [t EXCEPT !.mem = PutTags(@, bp + asize, Size(h.mem, bp) - asize, 0)]
    BY <1>2, <1>11
  <2>3. Size(h.mem, bp) - asize >= 4
    BY <1>2, <1>7
  <2>4. Gives(h, g, f, n, P, bp, asize) /\ g.brk = h.brk
    BY <1>1, <1>4, <1>6, <2>1, <2>2, <2>3, SplitsOff
  <2> QED BY <1>1, <2>4
<1>8. CASE ~ (csize - asize >= 4)
  <2>1. g = t
    BY <1>3, <1>8
  <2>2. bp \notin P /\ Size(g.mem, bp) = asize /\ Keeps(h.mem, g.mem, P) /\ g.brk = h.brk
    BY <1>4, <2>1 DEF CutOff
  <2>3. Layout(g, e, l, P \cup {bp}) /\ Members(f, n) \subseteq Members(e, l) \cup {bp}
    BY <1>9, <2>1
  <2> QED BY <1>1, <2>2, <2>3 DEF Gives
<1> QED BY <1>7, <1>8

(* Writing outside of all blocks changes nothing.                          *)
LEMMA LayoutKept ==
  ASSUME NEW h, NEW f, NEW n, NEW P, Layout(h, f, n, P), NEW g, HeapType(g),
         g.brk = h.brk, g.root = h.root, g.end = h.end,
         Keeps(h.mem, g.mem, Members(f, n) \cup P)
  PROVE  Layout(g, f, n, P)
<1>1. PICK B : B = Members(f, n) \cup P /\ Members(f, n) \subseteq B
  OBVIOUS
<1>2. /\ h.mem \in [Addresses -> Nat] /\ h.brk \in 4 .. MAX_HEAP
      /\ BlocksOf(h.mem, h.brk, B) /\ Heap(h, f, n, B) /\ Keeps(h.mem, g.mem, B)
  BY <1>1, LayoutParts DEF Layout
<1>3. BlocksOf(g.mem, g.brk, B)
  <2>1. \A b \in B : SameBlock(h.mem, g.mem, b)
    BY <1>2, KeptSame
  <2>2. \A b \in B : TagsSame(h.mem, g.mem, b)
    BY <2>1 DEF SameBlock, TagsSame
  <2>3. BlocksOf(g.mem, h.brk, B)
    BY <1>2, <2>2, BlocksSame
  <2> QED BY <2>3
<1>4. Keeps(h.mem, g.mem, Members(f, n))
  BY <1>1, <1>2 DEF Keeps
<1>5. Heap(g, f, n, B)
  BY <1>1, <1>2, <1>3, <1>4, HeapKept
<1> QED BY <1>1, <1>5 DEF Layout

\* The two writes of Extended: the block and the epilogue.
ExtendedBy(h, t, g, asize) ==
  /\ HeapType(t) /\ t.mem = PutTags(h.mem, h.brk, asize, 1) /\ t.brk = h.brk + asize
  /\ t.root = h.root /\ t.end = h.end
  /\ HeapType(g) /\ g.brk = t.brk /\ g.root = t.root /\ g.end = t.end
  /\ \A a \in Addresses : a # t.brk - 1 => g.mem[a] = t.mem[a]

LEMMA ExtendedWrites ==
  ASSUME NEW h, HeapType(h), NEW asize \in Nat, asize % 2 = 0, asize >= 4,
         h.brk + asize <= MAX_HEAP, NEW g, g = Mm!Extended(h, asize),
         NEW t, t = [h EXCEPT !.mem = PutTags(h.mem, h.brk, asize, 1), !.brk = h.brk + asize]
  PROVE  ExtendedBy(h, t, g, asize)
<1>1. /\ h.mem \in [Addresses -> Nat] /\ h.brk \in 4 .. MAX_HEAP /\ h.brk % 2 = 0
      /\ MAX_HEAP \in Nat /\ h.brk \in Nat /\ h.brk >= 4
  BY HeapFields, AddressFacts
<1>2. PICK m : m = PutTags(h.mem, h.brk, asize, 1)
  OBVIOUS
<1>3. PICK top : top = h.brk + asize /\ top \in 4 .. MAX_HEAP /\ top % 2 = 0
  BY <1>1
<1>4. m \in [Addresses -> Nat]
  <2>1. Tagged(h.mem, m, h.brk, asize, 1)
    BY <1>1, <1>2, TagsPut
  <2> QED BY <2>1 DEF Tagged
<1>5. PICK k : k = [m EXCEPT ![top - 1] = 1]
  OBVIOUS
<1>6. k \in [Addresses -> Nat] /\ \A a \in Addresses : a # top - 1 => k[a] = m[a]
  BY <1>4, <1>5
<1>7. t = [h EXCEPT !.mem = m, !.brk = top]
  BY <1>2, <1>3
<1>8. g = [h EXCEPT !.mem = k, !.brk = top]
  <2>1. Mm!PutTags(h.mem, h.brk, asize, 1) = m /\ Mm!PACK(0, 1) = 1
    BY <1>2, SameMacros DEF Mm!PACK
  <2>2. PICK a, w : a = top - 1 /\ a = h.brk + asize - 1 /\ w = 1 /\ w = Mm!PACK(0, 1)
    <3>1. top - 1 = h.brk + asize - 1
      BY <1>1, <1>3
    <3> QED BY <2>1, <3>1
  <2>3. k = [m EXCEPT ![a] = w]
    BY <1>5, <2>2
  <2>4. g = [h EXCEPT !.mem = [m EXCEPT ![a] = w], !.brk = h.brk + asize]
    BY <2>1, <2>2 DEF Mm!Extended
  <2> QED BY <1>3, <2>3, <2>4
<1>9. /\ HeapType(t) /\ t.mem = m /\ t.brk = top /\ t.root = h.root /\ t.end = h.end
  BY <1>3, <1>4, <1>7 DEF HeapType
<1>10. /\ HeapType(g) /\ g.mem = k /\ g.brk = top /\ g.root = h.root /\ g.end = h.end
  BY <1>3, <1>6, <1>8 DEF HeapType
<1> QED BY <1>2, <1>3, <1>6, <1>9, <1>10 DEF ExtendedBy

(* A new block at the break is allocated.                                  *)
Beyond(h, g, f, n, P, bp, asize) ==
  /\ bp \notin Members(f, n) \cup P /\ Layout(g, f, n, P \cup {bp}) /\ g.brk = bp + asize
  /\ Keeps(h.mem, g.mem, Members(f, n) \cup P) /\ Size(g.mem, bp) = asize

LEMMA ExtendedAt ==
  ASSUME NEW h, NEW f, NEW n, NEW P, Layout(h, f, n, P),
         NEW asize \in Nat, asize % 2 = 0, asize >= 4, h.brk + asize <= MAX_HEAP,
         NEW g, g = Mm!Extended(h, asize)
  PROVE  Beyond(h, g, f, n, P, h.brk, asize)
<1>1. /\ HeapType(h) /\ h.mem \in [Addresses -> Nat] /\ h.brk \in 4 .. MAX_HEAP
      /\ BlocksOf(h.mem, h.brk, Members(f, n) \cup P)
  BY LayoutParts
<1>2. PICK t : t = [h EXCEPT !.mem = PutTags(h.mem, h.brk, asize, 1), !.brk = h.brk + asize]
  OBVIOUS
<1>3. PICK bp \in Nat : bp = h.brk /\ bp >= 4 /\ bp % 2 = 0
  BY <1>1, HeapFields
<1>4. /\ HeapType(t) /\ t.mem = PutTags(h.mem, bp, asize, 1) /\ t.brk = bp + asize
      /\ t.root = h.root /\ t.end = h.end
      /\ HeapType(g) /\ g.brk = t.brk /\ g.root = t.root /\ g.end = t.end
      /\ \A a \in Addresses : a # t.brk - 1 => g.mem[a] = t.mem[a]
  <2>1. ExtendedBy(h, t, g, asize)
    BY <1>1, <1>2, ExtendedWrites
  <2> QED BY <1>3, <2>1 DEF ExtendedBy
<1>5. \A c \in Members(f, n) \cup P :
        c \in Nat /\ Size(h.mem, c) \in Nat /\ Size(h.mem, c) >= 4 /\ c + Size(h.mem, c) <= bp
  BY <1>1, <1>3, MmBlockFacts
<1>6. bp \notin Members(f, n) /\ bp \notin P
  BY <1>3, <1>5
<1>7. NewTags(h, t, f, n, P, bp, asize, 1)
  <2>1. h.brk <= t.brk /\ bp + asize <= t.brk
    BY <1>3, <1>4
  <2>2. \A c \in (Members(f, n) \cup P) \ {bp} : c + Size(h.mem, c) <= bp \/ bp + asize <= c
    BY <1>5
  <2> QED BY <1>3, <1>4, <1>6, <2>1, <2>2, TagsBlock
<1>8. PICK Q : Q = P \cup {bp}
  OBVIOUS
<1>9. Layout(t, f, n, Q) /\ Size(t.mem, bp) = asize
  BY <1>7, <1>8 DEF NewTags
<1>10. PICK C : C = Members(f, n) \cup Q /\ Members(f, n) \cup P \subseteq C /\ bp \in C
  <2>1. Members(f, n) \cup P \subseteq Members(f, n) \cup Q /\ bp \in Members(f, n) \cup Q
    BY <1>8
  <2> QED BY <2>1
<1>11. /\ t.mem \in [Addresses -> Nat] /\ t.brk \in 4 .. MAX_HEAP /\ BlocksOf(t.mem, t.brk, C)
  BY <1>9, <1>10, LayoutParts
<1>12. Keeps(t.mem, g.mem, C)
  <2> SUFFICES ASSUME NEW c \in C, NEW a \in Words(t.mem, c) PROVE g.mem[a] = t.mem[a]
    BY DEF Keeps
  <2>1. c \in Nat /\ Size(t.mem, c) \in Nat /\ c + Size(t.mem, c) <= t.brk /\ t.brk \in Nat
    BY <1>11, MmBlockFacts
  <2>2. a \in Int /\ a <= c + Size(t.mem, c) - 2
    BY <2>1 DEF Words
  <2>3. a # t.brk - 1
    BY <2>1, <2>2
  <2>4. a \in Addresses
    BY <1>11, WordsHas
  <2> QED BY <1>4, <2>3, <2>4
<1>13. Layout(g, f, n, Q)
  BY <1>4, <1>9, <1>10, <1>12, LayoutKept
<1>14. Size(g.mem, bp) = asize
  <2>1. \A c \in C : SameBlock(t.mem, g.mem, c)
    BY <1>11, <1>12, KeptSame
  <2>2. SameBlock(t.mem, g.mem, bp)
    BY <1>10, <2>1
  <2> QED BY <1>9, <2>2 DEF SameBlock
<1>15. Keeps(h.mem, g.mem, Members(f, n) \cup P)
  <2>1. PICK B : B = Members(f, n) \cup P /\ B = B \ {bp} /\ B \subseteq C
    <3>1. (Members(f, n) \cup P) \ {bp} = Members(f, n) \cup P
      BY <1>6
    <3> QED BY <1>10, <3>1
  <2>2. Keeps(h.mem, t.mem, B) /\ Keeps(t.mem, g.mem, B)
    BY <1>7, <1>12, <2>1 DEF NewTags, Keeps
  <2> QED BY <1>1, <2>1, <2>2, KeepsOn
<1> QED BY <1>3, <1>4, <1>6, <1>8, <1>13, <1>14, <1>15 DEF Beyond

LEMMA ExtendedGives ==
  ASSUME NEW h, NEW f, NEW n, NEW P, Layout(h, f, n, P),
         NEW asize \in Nat, asize % 2 = 0, asize >= 4, h.brk + asize <= MAX_HEAP,
         NEW g, g = Mm!Extended(h, asize)
  PROVE  Gives(h, g, f, n, P, h.brk, asize) /\ g.brk = h.brk + asize
<1>1. Beyond(h, g, f, n, P, h.brk, asize)
  BY ExtendedAt
<1>2. Keeps(h.mem, g.mem, P) /\ Members(f, n) \subseteq Members(f, n) \cup {h.brk}
  BY <1>1 DEF Beyond, Keeps
<1> QED BY <1>1, <1>2 DEF Beyond, Gives

(* The block that mm_malloc takes from the list is large enough, and every *)
(* smaller one is not.                                                     *)
BestOf(h, f, n, bp, asize) ==
  \A b \in Members(f, n) : Size(h.mem, b) < Size(h.mem, bp) => Size(h.mem, b) < asize

LEMMA ChosenFits ==
  ASSUME NEW h, NEW f, NEW n, NEW P, Layout(h, f, n, P), NEW asize \in Nat,
         Mm!Searches(h, asize)
  PROVE  \E k \in 1 .. n : /\ Mm!Chosen(h, asize) = f[k] /\ asize <= Size(h.mem, f[k])
                           /\ BestOf(h, f, n, f[k], asize)
<1>1. /\ h.mem \in [Addresses -> Nat] /\ h.brk \in 4 .. MAX_HEAP
      /\ BlocksOf(h.mem, h.brk, Members(f, n) \cup P)
      /\ Chain(h, f, n) /\ n \in Nat
  BY LayoutParts
<1>2. /\ h.root # NULL /\ asize >= Size(h.mem, h.root)
      /\ h.end # NULL /\ asize <= Size(h.mem, h.end)
  BY SameMacros DEF Mm!Searches
<1>3. n # 0 /\ h.root = f[1] /\ h.end = f[n] /\ 1 \in 1 .. n /\ n \in 1 .. n
  <2>1. n # 0
    BY <1>1, <1>2 DEF Chain
  <2> QED BY <1>1, <2>1 DEF Chain
<1>4. \A nth \in 1 .. n : Size(h.mem, f[nth]) \in Nat
  <2>1. \A nth \in 1 .. n : f[nth] \in Members(f, n) \cup P
    BY DEF Members
  <2> QED BY <1>1, <2>1, MmBlockFacts
<1>5. \A nth, j \in 1 .. n : nth < j => Size(h.mem, f[nth]) <= Size(h.mem, f[j])
  BY <1>1 DEF Chain
<1>6. Mm!Chosen(h, asize) = IF asize = Size(h.mem, h.root) THEN h.root
                            ELSE IF asize = Size(h.mem, h.end) THEN h.end
                            ELSE Mm!find_fit(h, asize, h.root)
  BY SameMacros DEF Mm!Chosen
<1>7. ASSUME NEW k \in 1 .. n, asize = Size(h.mem, f[k])
      PROVE  BestOf(h, f, n, f[k], asize)
  BY <1>7 DEF BestOf
<1>8. CASE asize = Size(h.mem, h.root)
  BY <1>3, <1>6, <1>7, <1>8, <1>4
<1>9. CASE asize # Size(h.mem, h.root) /\ asize = Size(h.mem, h.end)
  BY <1>3, <1>6, <1>7, <1>9, <1>4
<1>10. CASE asize # Size(h.mem, h.root) /\ asize # Size(h.mem, h.end)
  <2> DEFINE Large == {nth \in 1 .. n : asize <= Size(h.mem, f[nth])}
  <2>1. PICK k \in Large : \A nth \in Large : k <= nth
    <3>1. n \in Large /\ Large \in SUBSET Nat
      BY <1>1, <1>2, <1>3
    <3> HIDE DEF Large
    <3> QED BY <3>1, LeastNat
  <2>2. k \in 1 .. n /\ asize <= Size(h.mem, f[k])
    OBVIOUS
  <2>3. \A nth \in 1 .. n : nth < k => ~ (asize <= Size(h.mem, f[nth]))
    <3> SUFFICES ASSUME NEW nth \in 1 .. n, nth < k PROVE ~ (asize <= Size(h.mem, f[nth]))
      OBVIOUS
    <3>1. nth \notin Large
      <4>1. ~ (k <= nth)
        BY <1>1, <2>2
      <4> HIDE DEF Large
      <4> QED BY <2>1, <4>1
    <3> QED BY <3>1
  <2> HIDE DEF Large
  <2>4. Mm!find_fit(h, asize, h.root) = f[k]
    <3>1. \A nth \in 1 .. k - 1 : nth \in 1 .. n /\ nth < k
      BY <1>1, <2>2
    <3>2. \A nth \in 1 .. k - 1 : ~ (asize <= Size(h.mem, f[nth]))
      BY <2>3, <3>1
    <3>3. Chain(h, f, n) /\ k \in 1 .. n /\ asize <= Size(h.mem, f[k])
      BY <1>1, <2>2
    <3> QED BY ONLY <3>2, <3>3, FindFit
  <2>5. BestOf(h, f, n, f[k], asize)
    <3> SUFFICES ASSUME NEW nth \in 1 .. n, Size(h.mem, f[nth]) < Size(h.mem, f[k])
                 PROVE  Size(h.mem, f[nth]) < asize
      BY DEF BestOf, Members
    <3>1. nth < k
      <4>1. k < nth => Size(h.mem, f[k]) <= Size(h.mem, f[nth])
        BY <1>5, <2>2
      <4>2. k # nth /\ ~ (k < nth)
        BY <1>4, <2>2, <4>1
      <4> QED BY <1>1, <2>2, <4>2
    <3> QED BY <1>4, <2>3, <3>1
  <2> QED BY <1>6, <1>10, <2>2, <2>4, <2>5
<1> QED BY <1>8, <1>9, <1>10

\* Without a search no block of the list has the size.
LEMMA NoneOfSize ==
  ASSUME NEW h, NEW f, NEW n, NEW P, Layout(h, f, n, P), NEW asize \in Nat,
         ~ Mm!Searches(h, asize)
  PROVE  \A b \in Members(f, n) : Size(h.mem, b) # asize
<1> SUFFICES ASSUME NEW nth \in 1 .. n, Size(h.mem, f[nth]) = asize PROVE FALSE
  BY DEF Members
<1>1. /\ h.mem \in [Addresses -> Nat] /\ h.brk \in 4 .. MAX_HEAP
      /\ BlocksOf(h.mem, h.brk, Members(f, n) \cup P)
      /\ Chain(h, f, n) /\ n \in Nat
  BY LayoutParts
<1>2. n # 0 /\ 1 \in 1 .. n /\ n \in 1 .. n
  BY <1>1
<1>3. h.root = f[1] /\ h.end = f[n] /\ h.root # NULL /\ h.end # NULL
  BY <1>1, <1>2 DEF Chain
<1>4. \A j \in 1 .. n : Size(h.mem, f[j]) \in Nat
  <2>1. \A j \in 1 .. n : f[j] \in Members(f, n) \cup P
    BY DEF Members
  <2> QED BY <1>1, <2>1, MmBlockFacts
<1>5. Size(h.mem, f[1]) <= asize /\ asize <= Size(h.mem, f[n])
  <2>1. \A x, y \in 1 .. n : x < y => Size(h.mem, f[x]) <= Size(h.mem, f[y])
    BY <1>1 DEF Chain
  <2>2. (nth = 1 \/ 1 < nth) /\ (nth = n \/ nth < n)
    BY <1>1
  <2>3. Size(h.mem, f[1]) <= Size(h.mem, f[nth]) /\ Size(h.mem, f[nth]) <= Size(h.mem, f[n])
    BY <1>2, <1>4, <2>1, <2>2
  <2> QED BY <2>3
<1>6. asize >= Size(h.mem, f[1])
  BY <1>2, <1>4, <1>5
<1> QED BY <1>3, <1>5, <1>6, SameMacros DEF Mm!Searches

(* What mm_malloc does when it returns a block.                            *)
Serves(h, g, f, n, bp, asize) ==
  /\ bp \in Members(f, n) => BestOf(h, f, n, bp, asize)
  /\ \A b \in Members(f, n) : Size(h.mem, b) # g.brk - h.brk

LEMMA MallocGives ==
  ASSUME NEW h, NEW f, NEW n, NEW P, Layout(h, f, n, P), NEW size \in Nat,
         NEW r, r = Mm!mm_malloc(h, size), r.bp # NULL
  PROVE  /\ ~ Spurious(size)
         /\ Gives(h, r.heap, f, n, P, r.bp, adjusted(size)) /\ r.heap.brk >= h.brk
         /\ Serves(h, r.heap, f, n, r.bp, adjusted(size))
<1>1. PICK asize : asize = adjusted(size)
  OBVIOUS
<1>2. /\ HeapType(h) /\ h.mem \in [Addresses -> Nat] /\ h.brk \in 4 .. MAX_HEAP
      /\ BlocksOf(h.mem, h.brk, Members(f, n) \cup P) /\ h.brk \in Nat
  <2>1. /\ HeapType(h) /\ h.mem \in [Addresses -> Nat] /\ h.brk \in 4 .. MAX_HEAP
        /\ BlocksOf(h.mem, h.brk, Members(f, n) \cup P)
    BY LayoutParts
  <2> QED BY <2>1, AddressFacts
<1>3. r = IF Spurious(size) THEN [heap |-> h, bp |-> NULL]
          ELSE IF Mm!Searches(h, asize)
          THEN [heap |-> Mm!Taken(h, Mm!Chosen(h, asize), asize), bp |-> Mm!Chosen(h, asize)]
          ELSE IF h.brk + asize <= MAX_HEAP
          THEN [heap |-> Mm!Extended(h, asize), bp |-> h.brk]
          ELSE [heap |-> h, bp |-> NULL]
  BY <1>1, SameMacros DEF Mm!mm_malloc
<1>4. ~ Spurious(size)
  BY <1>3
<1>5. asize \in Nat /\ asize % 2 = 0 /\ asize >= 4
  BY <1>1, <1>4, AdjustedFits
<1>6. \A b \in Members(f, n) : Size(h.mem, b) >= 4 /\ b < h.brk /\ b \in Nat
  <2>1. \A b \in Members(f, n) : b \in Members(f, n) \cup P
    OBVIOUS
  <2>2. \A b \in Members(f, n) : /\ Size(h.mem, b) \in Nat /\ Size(h.mem, b) >= 4
                                 /\ b \in Nat /\ b + Size(h.mem, b) <= h.brk
    BY <1>2, <2>1, MmBlockFacts
  <2> QED BY <1>2, <2>2
<1>7. CASE Mm!Searches(h, asize)
  <2>1. PICK k \in 1 .. n : /\ Mm!Chosen(h, asize) = f[k] /\ asize <= Size(h.mem, f[k])
                            /\ BestOf(h, f, n, f[k], asize)
    BY <1>5, <1>7, ChosenFits
  <2>2. r.heap = Mm!Taken(h, f[k], asize) /\ r.bp = f[k]
    BY <1>3, <1>4, <1>7, <2>1
  <2>3. Gives(h, r.heap, f, n, P, f[k], asize) /\ r.heap.brk = h.brk
    BY <1>5, <2>1, <2>2, TakenGives
  <2>4. Serves(h, r.heap, f, n, f[k], asize)
    <3>1. r.heap.brk - h.brk = 0
      BY <1>2, <2>3
    <3> QED BY <1>6, <2>1, <3>1 DEF Serves
  <2> QED BY <1>1, <1>2, <1>4, <2>2, <2>3, <2>4
<1>8. CASE ~ Mm!Searches(h, asize)
  <2>1. h.brk + asize <= MAX_HEAP
    BY <1>3, <1>4, <1>8
  <2>2. r.heap = Mm!Extended(h, asize) /\ r.bp = h.brk
    BY <1>3, <1>4, <1>8, <2>1
  <2>3. Gives(h, r.heap, f, n, P, h.brk, asize) /\ r.heap.brk = h.brk + asize
    BY <1>5, <2>1, <2>2, ExtendedGives
  <2>4. Serves(h, r.heap, f, n, h.brk, asize)
    <3>1. r.heap.brk - h.brk = asize
      BY <1>2, <1>5, <2>3
    <3>2. \A b \in Members(f, n) : Size(h.mem, b) # asize
      BY <1>5, <1>8, NoneOfSize
    <3>3. h.brk \notin Members(f, n)
      BY <1>2, <1>6
    <3> QED BY <3>1, <3>2, <3>3 DEF Serves
  <2> QED BY <1>1, <1>2, <1>4, <1>5, <2>2, <2>3, <2>4
<1> QED BY <1>7, <1>8

(* mm_free marks the block and puts it on the list.                        *)
FreeTagged(h, t, g, f, n, P, p) ==
  /\ g = Mm!add_free_block(t, p) /\ t.brk = h.brk /\ Layout(t, f, n, P)
  /\ ~ Allocated(t.mem, p) /\ Size(t.mem, p) = Size(h.mem, p)
  /\ Keeps(h.mem, t.mem, (Members(f, n) \cup P) \ {p})

LEMMA FreeTags ==
  ASSUME NEW h, NEW f, NEW n, NEW P, Layout(h, f, n, P), NEW p \in P,
         NEW t, t = [h EXCEPT !.mem = PutTags(@, p, Size(h.mem, p), 0)],
         NEW g, g = Mm!mm_free(h, p)
  PROVE  FreeTagged(h, t, g, f, n, P, p)
<1>1. /\ HeapType(h) /\ h.mem \in [Addresses -> Nat] /\ h.brk \in 4 .. MAX_HEAP
      /\ BlocksOf(h.mem, h.brk, Members(f, n) \cup P)
      /\ \A c \in P : c \notin Members(f, n)
  BY LayoutParts
<1>2. PICK size : size = Size(h.mem, p)
  OBVIOUS
<1>3. /\ p \in Nat /\ p >= 4 /\ p % 2 = 0 /\ size \in Nat /\ size >= 4 /\ size % 2 = 0
      /\ p + size <= h.brk /\ p + size <= MAX_HEAP
  <2>1. p \in Members(f, n) \cup P
    OBVIOUS
  <2>2. /\ p \in Nat /\ p >= 4 /\ p % 2 = 0 /\ size \in Nat /\ size >= 4 /\ size % 2 = 0
        /\ p + size <= h.brk
    BY <1>1, <1>2, <2>1, MmBlockFacts
  <2> QED BY <1>1, <2>2, AddressFacts
<1>4. t = [h EXCEPT !.mem = PutTags(@, p, size, 0)]
  BY <1>2
<1>5. g = Mm!add_free_block(t, p)
  <2>1. Mm!SizeIn(h, p) = size /\ Mm!PutTags(h.mem, p, size, 0) = PutTags(h.mem, p, size, 0)
    BY <1>2, SameMacros
  <2>2. t = [h EXCEPT !.mem = Mm!PutTags(@, p, Mm!SizeIn(h, p), 0)]
    BY <1>4, <2>1
  <2> QED BY <2>2 DEF Mm!mm_free, Mm!coalesce
<1>6. OtherMem(h, t, PutTags(h.mem, p, size, 0))
  BY <1>1, <1>3, <1>4, TagsSet
<1>7. /\ HeapType(t) /\ t.mem = PutTags(h.mem, p, size, 0) /\ t.brk = h.brk
      /\ t.root = h.root /\ t.end = h.end
  BY <1>6 DEF OtherMem
<1>8. NewTags(h, t, f, n, P, p, size, 0)
  <2>1. h.brk <= t.brk /\ p + size <= t.brk /\ p \notin Members(f, n)
    BY <1>1, <1>3, <1>7
  <2>2. \A c \in (Members(f, n) \cup P) \ {p} : c + Size(h.mem, c) <= p \/ p + size <= c
    <3> SUFFICES ASSUME NEW c \in Members(f, n) \cup P, c # p
                 PROVE  c + Size(h.mem, c) <= p \/ p + size <= c
      OBVIOUS
    <3>1. c \in Nat /\ (c < p => c + Size(h.mem, c) <= p) /\ (p < c => p + size <= c)
      BY <1>1, <1>2, MmBlockFacts
    <3> QED BY <1>3, <3>1
  <2> QED BY <1>3, <1>7, <2>1, <2>2, TagsBlock
<1>9. P \cup {p} = P
  OBVIOUS
<1> QED BY <1>2, <1>5, <1>7, <1>8, <1>9 DEF NewTags, FreeTagged

LEMMA FreeGives ==
  ASSUME NEW h, NEW f, NEW n, NEW P, Layout(h, f, n, P), NEW p \in P,
         NEW g, g = Mm!mm_free(h, p)
  PROVE  \E e, l : /\ Layout(g, e, l, P \ {p}) /\ Members(e, l) = Members(f, n) \cup {p}
                   /\ Keeps(h.mem, g.mem, P \ {p}) /\ g.brk = h.brk
<1>1. /\ h.mem \in [Addresses -> Nat] /\ h.brk \in 4 .. MAX_HEAP
      /\ BlocksOf(h.mem, h.brk, Members(f, n) \cup P)
  BY LayoutParts
<1>2. PICK t : t = [h EXCEPT !.mem = PutTags(@, p, Size(h.mem, p), 0)]
  OBVIOUS
<1>3. FreeTagged(h, t, g, f, n, P, p)
  BY <1>2, FreeTags
<1>4. /\ g = Mm!add_free_block(t, p) /\ Layout(t, f, n, P) /\ ~ Allocated(t.mem, p)
      /\ t.brk = h.brk
  BY <1>3 DEF FreeTagged
<1>5. PICK e, l : OnList(t, g, f, n, e, l, P, p)
  BY <1>4, Inserts
<1>6. Keeps(h.mem, g.mem, P \ {p})
  <2>1. P \ {p} \subseteq (Members(f, n) \cup P) \ {p}
    OBVIOUS
  <2>2. Keeps(h.mem, t.mem, P \ {p})
    BY <1>3, <2>1 DEF FreeTagged, Keeps
  <2>3. Keeps(t.mem, g.mem, P \ {p})
    BY <1>5 DEF OnList
  <2>4. PICK B, Q : B = Members(f, n) \cup P /\ Q = P \ {p} /\ Q \subseteq B
    OBVIOUS
  <2>5. Keeps(h.mem, g.mem, Q)
    BY <1>1, <2>2, <2>3, <2>4, KeepsOn
  <2> QED BY <2>4, <2>5
<1> QED BY <1>4, <1>5, <1>6 DEF OnList

----------------------------------------------------------------------------
(* The heap and the payloads of the caller.                                *)

(* The free list of h is f, and the payloads s are in the other blocks.    *)
Held(h, s, f, n) ==
  /\ Layout(h, f, n, DOMAIN s)
  /\ \A p \in DOMAIN s :
       s[p] \in Nat \ {0} /\ PayloadWords(s[p]) + 2 <= Size(h.mem, p)

\* Where a payload is.
LEMMA MmHeldFacts ==
  ASSUME NEW h, NEW s, NEW f, NEW n, Held(h, s, f, n), NEW p \in DOMAIN s
  PROVE  /\ p \in Nat /\ p >= 4 /\ p % 2 = 0 /\ Size(h.mem, p) \in Nat
         /\ p + Size(h.mem, p) <= h.brk /\ h.brk \in Nat /\ h.brk <= MAX_HEAP
         /\ s[p] \in Nat \ {0} /\ PayloadWords(s[p]) \in Nat /\ PayloadWords(s[p]) > 0
         /\ PayloadWords(s[p]) + 2 <= Size(h.mem, p)
         /\ \A q \in DOMAIN s : p < q => p + Size(h.mem, p) <= q
<1>1. Layout(h, f, n, DOMAIN s)
  BY DEF Held
<1>2. PICK B : B = Members(f, n) \cup DOMAIN s /\ p \in B /\ DOMAIN s \subseteq B
  <2>1. p \in Members(f, n) \cup DOMAIN s /\ DOMAIN s \subseteq Members(f, n) \cup DOMAIN s
    OBVIOUS
  <2> QED BY <2>1
<1>3. h.mem \in [Addresses -> Nat] /\ h.brk \in 4 .. MAX_HEAP /\ BlocksOf(h.mem, h.brk, B)
  BY <1>1, <1>2, LayoutParts
<1>4. /\ p \in Nat /\ p >= 4 /\ p % 2 = 0 /\ Size(h.mem, p) \in Nat
      /\ p + Size(h.mem, p) <= h.brk /\ h.brk \in Nat /\ h.brk <= MAX_HEAP
      /\ \A q \in B : p < q => p + Size(h.mem, p) <= q
  BY <1>2, <1>3, MmBlockFacts
<1>5. s[p] \in Nat \ {0} /\ PayloadWords(s[p]) + 2 <= Size(h.mem, p)
  BY DEF Held
<1>6. PayloadWords(s[p]) \in Nat /\ PayloadWords(s[p]) > 0
  BY <1>5, PayloadFacts
<1> QED BY <1>2, <1>4, <1>5, <1>6

(* r has a block for size bytes, besides those of s, which are as in h.    *)
MmFinds(h, s, f, n, r, size) ==
  /\ size # 0 /\ r.bp \notin DOMAIN s /\ r.heap.brk >= h.brk
  /\ Keeps(h.mem, r.heap.mem, DOMAIN s)
  /\ \E e, l : /\ Held(r.heap, Sized(s, r.bp, size), e, l)
               /\ Members(f, n) \subseteq Members(e, l) \cup {r.bp}
  /\ Serves(h, r.heap, f, n, r.bp, adjusted(size))

LEMMA MmMallocFinds ==
  ASSUME NEW h, NEW s, NEW f, NEW n, Held(h, s, f, n), NEW size \in Nat,
         NEW r, r = Mm!mm_malloc(h, size), r.bp # NULL
  PROVE  MmFinds(h, s, f, n, r, size)
<1>1. PICK bp, asize, k, P : bp = r.bp /\ asize = adjusted(size) /\ k = r.heap /\ P = DOMAIN s
  OBVIOUS
<1>2. Layout(h, f, n, P)
  BY <1>1 DEF Held
<1>3. /\ ~ Spurious(size) /\ Gives(h, k, f, n, P, bp, asize) /\ k.brk >= h.brk
      /\ Serves(h, k, f, n, bp, asize)
  <2>1. /\ ~ Spurious(size)
        /\ Gives(h, r.heap, f, n, P, r.bp, adjusted(size)) /\ r.heap.brk >= h.brk
        /\ Serves(h, r.heap, f, n, r.bp, adjusted(size))
    BY <1>2, MallocGives
  <2> QED BY <1>1, <2>1
<1>4. size # 0 /\ PayloadWords(size) + 2 <= asize
  BY <1>1, <1>3, AdjustedFits DEF Spurious
<1>5. bp \notin P /\ Size(k.mem, bp) = asize /\ Keeps(h.mem, k.mem, P)
  BY <1>3 DEF Gives
<1>6. PICK e, l : Layout(k, e, l, P \cup {bp}) /\ Members(f, n) \subseteq Members(e, l) \cup {bp}
  BY <1>3 DEF Gives
<1>7. \A p \in P : Size(k.mem, p) = Size(h.mem, p)
  <2>1. PICK B : B = Members(f, n) \cup P /\ P \subseteq B
    OBVIOUS
  <2>2. h.mem \in [Addresses -> Nat] /\ h.brk \in 4 .. MAX_HEAP /\ BlocksOf(h.mem, h.brk, B)
    BY <1>2, <2>1, LayoutParts
  <2>3. \A p \in P : SameBlock(h.mem, k.mem, p)
    BY <1>5, <2>1, <2>2, KeptSame
  <2> QED BY <2>3 DEF SameBlock
<1>8. Held(k, Sized(s, bp, size), e, l)
  <2>1. PICK t : t = Sized(s, bp, size)
    OBVIOUS
  <2>2. DOMAIN t = P \cup {bp} /\ t[bp] = size /\ \A q \in P : t[q] = s[q]
    BY <1>1, <1>5, <2>1 DEF Sized
  <2>3. \A p \in P : s[p] \in Nat \ {0} /\ PayloadWords(s[p]) + 2 <= Size(h.mem, p)
    BY <1>1 DEF Held
  <2>4. \A p \in P \cup {bp} :
          t[p] \in Nat \ {0} /\ PayloadWords(t[p]) + 2 <= Size(k.mem, p)
    BY <1>4, <1>5, <1>7, <2>2, <2>3
  <2> QED BY <1>6, <2>1, <2>2, <2>4 DEF Held
<1>9. /\ r.bp \notin DOMAIN s /\ Keeps(h.mem, r.heap.mem, DOMAIN s)
      /\ Held(r.heap, Sized(s, r.bp, size), e, l)
      /\ Members(f, n) \subseteq Members(e, l) \cup {r.bp}
      /\ Serves(h, r.heap, f, n, r.bp, adjusted(size))
  BY <1>1, <1>3, <1>5, <1>6, <1>8
<1> QED BY <1>1, <1>3, <1>4, <1>9 DEF MmFinds

(* Writing in the payload p.                                               *)
HeldStill(h, g, s, f, n, p, m) ==
  /\ Held(g, s, f, n) /\ Keeps(h.mem, g.mem, DOMAIN s \ {p})
  /\ g.mem = m /\ g.brk = h.brk /\ SizesSame(h.mem, g.mem, Members(f, n) \cup DOMAIN s)

LEMMA HeldFilled ==
  ASSUME NEW h, NEW s, NEW f, NEW n, Held(h, s, f, n), NEW p \in DOMAIN s,
         NEW W, W \subseteq Payload(p, s[p]), NEW d \in Nat,
         NEW g, g = [h EXCEPT !.mem = Filled(h.mem, W, d)]
  PROVE  HeldStill(h, g, s, f, n, p, Filled(h.mem, W, d))
<1>1. PICK P : P = DOMAIN s
  OBVIOUS
<1>2. Layout(h, f, n, P) /\ p \in P
  BY <1>1 DEF Held
<1>3. W \subseteq p .. p + Size(h.mem, p) - 3
  <2>1. /\ p \in Nat /\ Size(h.mem, p) \in Nat /\ PayloadWords(s[p]) \in Nat
        /\ PayloadWords(s[p]) + 2 <= Size(h.mem, p)
    BY MmHeldFacts
  <2>2. Payload(p, s[p]) \subseteq p .. p + Size(h.mem, p) - 3
    BY <2>1 DEF Payload
  <2> QED BY <2>2
<1>4. PayloadFilled(h, g, f, n, P, p)
  BY <1>2, <1>3, FillsBlock
<1>5. /\ Layout(g, f, n, P) /\ Keeps(h.mem, g.mem, P \ {p}) /\ g.brk = h.brk
      /\ SizesSame(h.mem, g.mem, Members(f, n) \cup P)
  BY <1>4 DEF PayloadFilled
<1>7. HeapType(h) /\ h.mem \in [Addresses -> Nat]
  BY <1>2, LayoutParts
<1>8. \A q \in P : Size(g.mem, q) = Size(h.mem, q)
  BY <1>5 DEF SizesSame
<1>9. \A q \in P : s[q] \in Nat \ {0} /\ PayloadWords(s[q]) + 2 <= Size(g.mem, q)
  BY <1>1, <1>8 DEF Held
<1>10. g.mem = Filled(h.mem, W, d)
  <2>1. Filled(h.mem, W, d) \in [Addresses -> Nat]
    BY <1>7 DEF Filled
  <2>2. OtherMem(h, g, Filled(h.mem, W, d))
    BY <1>7, <2>1, MemSet
  <2> QED BY <2>2 DEF OtherMem
<1> QED BY <1>1, <1>5, <1>9, <1>10 DEF Held, HeldStill

(* The caller gets the block bp and has filled it with d.                  *)
MmGets(h, s, f, n, bp, size, d, g) ==
  /\ size # 0 /\ bp \notin DOMAIN s
  /\ \E e, l : Held(g, Sized(s, bp, size), e, l) /\ Members(f, n) \subseteq Members(e, l) \cup {bp}
  /\ Keeps(h.mem, g.mem, DOMAIN s) /\ \A a \in Payload(bp, size) : g.mem[a] = d
  /\ Serves(h, g, f, n, bp, adjusted(size))

LEMMA MmMallocStep ==
  ASSUME NEW h, NEW s, NEW f, NEW n, Held(h, s, f, n), NEW size \in Nat, NEW d \in Nat,
         NEW r, r = Mm!mm_malloc(h, size), r.bp # NULL,
         NEW g, g = [r.heap EXCEPT !.mem = Filled(@, Payload(r.bp, size), d)]
  PROVE  MmGets(h, s, f, n, r.bp, size, d, g)
<1>1. PICK bp, k, P, t, W : /\ bp = r.bp /\ k = r.heap /\ P = DOMAIN s
                            /\ t = Sized(s, bp, size) /\ W = Payload(bp, size)
  OBVIOUS
<1>2. MmFinds(h, s, f, n, r, size)
  BY MmMallocFinds
<1>3. /\ size # 0 /\ bp \notin P /\ Keeps(h.mem, k.mem, P)
      /\ Serves(h, k, f, n, bp, adjusted(size))
  BY <1>1, <1>2 DEF MmFinds
<1>4. PICK e, l : Held(k, t, e, l) /\ Members(f, n) \subseteq Members(e, l) \cup {bp}
  BY <1>1, <1>2 DEF MmFinds
<1>5. bp \in DOMAIN t /\ t[bp] = size /\ DOMAIN t \ {bp} = P
  BY <1>1, <1>3 DEF Sized
<1>6. W \subseteq Payload(bp, t[bp]) /\ g = [k EXCEPT !.mem = Filled(k.mem, W, d)]
  BY <1>1, <1>5
<1>7. HeldStill(k, g, t, e, l, bp, Filled(k.mem, W, d))
  BY <1>4, <1>5, <1>6, HeldFilled
<1>8. /\ Held(g, t, e, l) /\ Keeps(k.mem, g.mem, P)
      /\ g.mem = Filled(k.mem, W, d) /\ g.brk = k.brk
  BY <1>5, <1>7 DEF HeldStill
<1>9. Keeps(h.mem, g.mem, P)
  <2>1. PICK B : B = Members(f, n) \cup P /\ P \subseteq B
    OBVIOUS
  <2>2. h.mem \in [Addresses -> Nat] /\ h.brk \in 4 .. MAX_HEAP /\ BlocksOf(h.mem, h.brk, B)
    BY <1>1, <2>1, LayoutParts DEF Held
  <2> QED BY <1>3, <1>8, <2>1, <2>2, KeepsOn
<1>10. \A a \in W : g.mem[a] = d
  <2>1. W \subseteq Addresses
    <3>1. PICK z : z = Size(k.mem, bp)
      OBVIOUS
    <3>2. /\ bp \in Nat /\ z \in Nat /\ PayloadWords(size) \in Nat
          /\ PayloadWords(size) + 2 <= z /\ bp + z <= k.brk /\ k.brk \in Nat
          /\ k.brk <= MAX_HEAP
      BY <1>4, <1>5, <3>1, MmHeldFacts
    <3>3. MAX_HEAP \in Nat /\ \A a : a \in Addresses <=> a \in Nat /\ a < MAX_HEAP
      BY AddressFacts
    <3> QED BY <1>1, <3>2, <3>3 DEF Payload
  <2>2. k.mem \in [Addresses -> Nat]
    BY <1>4, LayoutParts DEF Held
  <2> QED BY <1>8, <2>1, <2>2 DEF Filled
<1>11. Serves(h, g, f, n, bp, adjusted(size))
  BY <1>3, <1>8 DEF Serves
<1>12. MmGets(h, s, f, n, bp, size, d, g)
  BY <1>1, <1>3, <1>4, <1>8, <1>9, <1>10, <1>11 DEF MmGets
<1> QED BY <1>1, <1>12

(* The caller gives the block p back.                                      *)
Returns(h, s, f, n, p, g) ==
  /\ \E e, l : Held(g, Unsized(s, p), e, l) /\ Members(e, l) = Members(f, n) \cup {p}
  /\ Keeps(h.mem, g.mem, DOMAIN s \ {p}) /\ g.brk = h.brk

LEMMA MmFreeStep ==
  ASSUME NEW h, NEW s, NEW f, NEW n, Held(h, s, f, n), NEW p \in DOMAIN s,
         NEW g, g = Mm!mm_free(h, p)
  PROVE  Returns(h, s, f, n, p, g)
<1>1. PICK P, Q : P = DOMAIN s /\ Q = P \ {p} /\ Q \subseteq P
  OBVIOUS
<1>2. Layout(h, f, n, P) /\ p \in P
  BY <1>1 DEF Held
<1>4. PICK e, l : /\ Layout(g, e, l, P \ {p}) /\ Members(e, l) = Members(f, n) \cup {p}
                  /\ Keeps(h.mem, g.mem, P \ {p}) /\ g.brk = h.brk
  BY ONLY <1>2, FreeGives, g = Mm!mm_free(h, p)
<1>5. Layout(g, e, l, Q) /\ Keeps(h.mem, g.mem, Q) /\ g.brk = h.brk
  BY <1>1, <1>4
<1>6. \A q \in Q : Size(g.mem, q) = Size(h.mem, q)
  <2>1. PICK B : B = Members(f, n) \cup P /\ Q \subseteq B
    <3>1. Q \subseteq Members(f, n) \cup P
      BY <1>1
    <3> QED BY <3>1
  <2>2. h.mem \in [Addresses -> Nat] /\ h.brk \in 4 .. MAX_HEAP /\ BlocksOf(h.mem, h.brk, B)
    BY <1>2, <2>1, LayoutParts
  <2>3. \A q \in Q : SameBlock(h.mem, g.mem, q)
    BY <1>5, <2>1, <2>2, KeptSame
  <2> QED BY <2>3 DEF SameBlock
<1>7. Held(g, Unsized(s, p), e, l)
  <2>1. PICK t : t = Unsized(s, p)
    OBVIOUS
  <2>2. DOMAIN t = Q /\ \A q \in Q : t[q] = s[q]
    BY <1>1, <2>1 DEF Unsized
  <2>3. \A q \in Q : t[q] \in Nat \ {0} /\ PayloadWords(t[q]) + 2 <= Size(g.mem, q)
    <3>1. \A q \in Q : s[q] \in Nat \ {0} /\ PayloadWords(s[q]) + 2 <= Size(h.mem, q)
      BY <1>1 DEF Held
    <3> QED BY <1>6, <2>2, <3>1
  <2> QED BY <1>5, <2>1, <2>2, <2>3 DEF Held
<1> QED BY <1>1, <1>4, <1>5, <1>7 DEF Returns

----------------------------------------------------------------------------
(* The invariant.                                                          *)

\* The sequence of the free list.
LEMMA ListFacts ==
  ASSUME NEW h, NEW f, NEW n, Chain(h, f, n)
  PROVE  /\ Mm!FreeList(h) = f /\ Len(f) = n /\ f \in Seq(Addresses \ {NULL})
         /\ Elements(f) = Members(f, n)
<1>1. n \in Nat /\ f \in [1 .. n -> Addresses \ {NULL}]
  BY DEF Chain
<1>2. f \in Seq(Addresses \ {NULL}) /\ Len(f) = n
  BY <1>1
<1>3. Elements(f) = Members(f, n)
  BY <1>2 DEF Elements, Members
<1> QED BY <1>2, <1>3, FreeListIs

\* The two forms of a sorted, doubly linked list.
LEMMA LinkedIsChain ==
  ASSUME NEW h, NEW f \in Seq(Addresses \ {NULL})
  PROVE  Linked(h, f) <=> Chain(h, f, Len(f))
<1>1. PICK n \in Nat : n = Len(f) /\ f \in [1 .. n -> Addresses \ {NULL}]
  <2>1. Len(f) \in Nat /\ f \in [1 .. Len(f) -> Addresses \ {NULL}]
    OBVIOUS
  <2> QED BY <2>1
<1>2. f = <<>> <=> n = 0
  BY <1>1
<1>3. Linked(h, f) <=>
        /\ IF n = 0 THEN h.root = NULL /\ h.end = NULL ELSE h.root = f[1] /\ h.end = f[n]
        /\ \A nth \in 1 .. n - 1 : h.mem[f[nth]] = f[nth + 1] /\ h.mem[f[nth + 1] + 1] = f[nth]
        /\ \A nth, j \in 1 .. n :
             nth < j => f[nth] # f[j] /\ Mm!SizeIn(h, f[nth]) <= Mm!SizeIn(h, f[j])
  BY <1>1, <1>2 DEF Linked, Mm!NEXT_PTR, Mm!PREV_PTR
<1>4. \A b : Mm!SizeIn(h, b) = Size(h.mem, b)
  BY SameMacros
<1>5. Linked(h, f) <=> Chain(h, f, n)
  BY <1>1, <1>3, <1>4 DEF Chain
<1> QED BY <1>1, <1>5

\* The state has a list and payloads as above, ...
LEMMA MmInvariantIs ==
  MmIInv => /\ mm_stopped = FALSE /\ \E f, n : Held(mm_heap, mm_sizes, f, n)
            /\ \A p \in DOMAIN mm_sizes : mm_sizes[p] \in Requests
<1> SUFFICES ASSUME MmIInv
             PROVE  /\ mm_stopped = FALSE /\ \E f, n : Held(mm_heap, mm_sizes, f, n)
                    /\ \A p \in DOMAIN mm_sizes : mm_sizes[p] \in Requests
  OBVIOUS
<1>1. mm_stopped = FALSE
  BY DEF MmIInv, MmTypeOK
<1>2. HeapType(mm_heap)
  BY DEF MmIInv, MmTypeOK, HeapType
<1>3. PICK f : f = MmList
  OBVIOUS
<1>4. f \in Seq(Addresses \ {NULL}) /\ Linked(mm_heap, f)
  BY <1>3 DEF MmIInv
<1>5. PICK n : n = Len(f)
  OBVIOUS
<1>6. Chain(mm_heap, f, n)
  BY <1>4, <1>5, LinkedIsChain
<1>7. FreeBlocks = Members(f, n)
  BY <1>3, <1>6, ListFacts DEF FreeBlocks
<1>8. MmBlocks = Members(f, n) \cup DOMAIN mm_sizes
  BY <1>7 DEF MmBlocks
<1>9. /\ BlocksOf(mm_heap.mem, mm_heap.brk, Members(f, n) \cup DOMAIN mm_sizes)
      /\ Members(f, n) \cap DOMAIN mm_sizes = {}
      /\ \A b \in Members(f, n) : ~ Allocated(mm_heap.mem, b)
  BY <1>7, <1>8 DEF MmIInv
<1>10. Layout(mm_heap, f, n, DOMAIN mm_sizes)
  BY <1>2, <1>6, <1>9 DEF Layout, Heap
<1>11. \A p \in DOMAIN mm_sizes :
         mm_sizes[p] \in Requests \ {0} /\ PayloadWords(mm_sizes[p]) + 2 <= Size(mm_heap.mem, p)
  BY SameMacros DEF MmIInv, MmTypeOK
<1>12. Held(mm_heap, mm_sizes, f, n)
  BY <1>10, <1>11, AddressFacts DEF Held
<1> QED BY <1>1, <1>11, <1>12

\* ... and that is the invariant.
LEMMA InvariantOf ==
  ASSUME NEW f, NEW n, Held(mm_heap, mm_sizes, f, n), mm_stopped = FALSE,
         \A p \in DOMAIN mm_sizes : mm_sizes[p] \in Requests
  PROVE  MmIInv
<1>1. Layout(mm_heap, f, n, DOMAIN mm_sizes)
  BY DEF Held
<1>2. /\ HeapType(mm_heap) /\ Chain(mm_heap, f, n)
      /\ BlocksOf(mm_heap.mem, mm_heap.brk, Members(f, n) \cup DOMAIN mm_sizes)
      /\ Members(f, n) \cap DOMAIN mm_sizes = {}
      /\ \A b \in Members(f, n) : ~ Allocated(mm_heap.mem, b)
  BY <1>1 DEF Layout, Heap
<1>3. /\ MmList = f /\ Len(f) = n /\ f \in Seq(Addresses \ {NULL})
      /\ FreeBlocks = Members(f, n)
  BY <1>2, ListFacts DEF MmList, FreeBlocks
<1>4. MmBlocks = Members(f, n) \cup DOMAIN mm_sizes
  BY <1>3 DEF MmBlocks
<1>5. Linked(mm_heap, f)
  BY <1>2, <1>3, LinkedIsChain
<1>6. \A p \in DOMAIN mm_sizes :
        /\ p \in Addresses /\ mm_sizes[p] \in Requests \ {0}
        /\ PayloadWords(mm_sizes[p]) + 2 <= Mm!SizeIn(mm_heap, p)
  <2> SUFFICES ASSUME NEW p \in DOMAIN mm_sizes
               PROVE  /\ p \in Addresses /\ mm_sizes[p] \in Requests \ {0}
                      /\ PayloadWords(mm_sizes[p]) + 2 <= Mm!SizeIn(mm_heap, p)
    OBVIOUS
  <2>1. /\ p \in Nat /\ Size(mm_heap.mem, p) \in Nat
        /\ p + Size(mm_heap.mem, p) <= mm_heap.brk /\ mm_heap.brk \in Nat
        /\ mm_heap.brk <= MAX_HEAP /\ mm_sizes[p] \in Requests \ {0}
        /\ PayloadWords(mm_sizes[p]) \in Nat
        /\ PayloadWords(mm_sizes[p]) + 2 <= Size(mm_heap.mem, p)
    BY MmHeldFacts
  <2>2. p < MAX_HEAP /\ MAX_HEAP \in Nat
    BY <2>1, AddressFacts
  <2>3. p \in Addresses
    BY <2>1, <2>2, AddressFacts
  <2> QED BY <2>1, <2>3, SameMacros
<1>7. MmTypeOK /\ mm_heap.brk % 2 = 0
  BY <1>2, <1>6 DEF MmTypeOK, HeapType
<1>8. \E x \in {MmList} : x \in Seq(Addresses \ {NULL}) /\ Linked(mm_heap, x)
  BY <1>3, <1>5
<1> QED BY <1>2, <1>3, <1>4, <1>6, <1>7, <1>8 DEF MmIInv

(* mm_init, on any memory: the prologue and the epilogue, and no block.    *)
LEMMA MmInits ==
  ASSUME NEW h, h.mem \in [Addresses -> Nat], NEW g, g = Mm!mm_init(h)
  PROVE  Held(g, <<>>, <<>>, 0)
<1>1. PICK k : k = FirstWords(h.mem) /\ k \in [Addresses -> Nat]
  <2>1. FirstWords(h.mem) \in [Addresses -> Nat]
    BY DEF FirstWords, PACK
  <2> QED BY <2>1
<1>2. g = [mem |-> k, brk |-> 4, root |-> NULL, end |-> NULL]
  BY <1>1, SameMacros DEF Mm!mm_init
<1>3. HeapType(g)
  <2>1. NULL \in Addresses /\ 4 \in 4 .. MAX_HEAP /\ 4 % 2 = 0
    BY AddressFacts DEF NULL
  <2> QED BY <1>1, <1>2, <2>1 DEF HeapType
<1>4. Members(<<>>, 0) = {} /\ DOMAIN <<>> = {}
  BY DEF Members
<1>5. Chain(g, <<>>, 0)
  BY <1>2 DEF Chain
<1>6. BlocksOf(g.mem, g.brk, {})
  BY DEF BlocksOf
<1>7. Layout(g, <<>>, 0, {})
  BY <1>3, <1>4, <1>5, <1>6 DEF Layout, Heap
<1> QED BY <1>4, <1>7 DEF Held

LEMMA InitEstablishes == MmInit => MmIInv
<1> SUFFICES ASSUME MmInit PROVE MmIInv
  OBVIOUS
<1>1. PICK h : h = [mem |-> [a \in Addresses |-> 0], root |-> NULL, end |-> NULL]
  OBVIOUS
<1>2. h.mem \in [Addresses -> Nat] /\ mm_heap = Mm!mm_init(h)
  BY <1>1, SameMacros DEF MmInit
<1>3. mm_sizes = <<>> /\ mm_stopped = FALSE /\ DOMAIN mm_sizes = {}
  BY DEF MmInit
<1>4. Held(mm_heap, mm_sizes, <<>>, 0)
  BY <1>2, <1>3, MmInits
<1> QED BY <1>3, <1>4, InvariantOf

(* What a call is: the request fails, the caller gets a block, or it gives *)
(* one back.                                                               *)
MmGot(size, d, bp) ==
  /\ \E f, n : Held(mm_heap, mm_sizes, f, n)
  /\ \A f, n : Held(mm_heap, mm_sizes, f, n) =>
       MmGets(mm_heap, mm_sizes, f, n, bp, size, d, mm_heap')
  /\ mm_sizes' = Sized(mm_sizes, bp, size) /\ UNCHANGED mm_stopped

Gave(p) ==
  /\ \E f, n : Held(mm_heap, mm_sizes, f, n)
  /\ \A f, n : Held(mm_heap, mm_sizes, f, n) =>
       Returns(mm_heap, mm_sizes, f, n, p, mm_heap')
  /\ mm_sizes' = Unsized(mm_sizes, p) /\ UNCHANGED mm_stopped

LEMMA StepIs ==
  ASSUME MmIInv, [MmNext]_mmVars
  PROVE  \/ UNCHANGED mmVars
         \/ \E size \in Requests, d \in Fills : \E bp : MmGot(size, d, bp)
         \/ \E p \in DOMAIN mm_sizes : Gave(p)
<1>1. \E f, n : Held(mm_heap, mm_sizes, f, n)
  BY MmInvariantIs
<1>2. ASSUME NEW size \in Requests, NEW d \in Fills, MmMalloc(size, d)
      PROVE  UNCHANGED mmVars \/ \E bp : MmGot(size, d, bp)
  <2>1. PICK r : r = Mm!mm_malloc(mm_heap, size)
    OBVIOUS
  <2>2. CASE r.bp = NULL
    BY <1>2, <2>1, <2>2 DEF MmMalloc, mmVars
  <2>3. CASE r.bp # NULL
    <3>1. /\ mm_heap' = [r.heap EXCEPT !.mem = Filled(@, Payload(r.bp, size), d)]
          /\ mm_sizes' = Sized(mm_sizes, r.bp, size) /\ UNCHANGED mm_stopped
      BY <1>2, <2>1, <2>3 DEF MmMalloc
    <3>2. ASSUME NEW f, NEW n, Held(mm_heap, mm_sizes, f, n)
          PROVE  MmGets(mm_heap, mm_sizes, f, n, r.bp, size, d, mm_heap')
      <4>1. PICK g : g = mm_heap'
        OBVIOUS
      <4>2. g = [r.heap EXCEPT !.mem = Filled(@, Payload(r.bp, size), d)]
        BY <3>1, <4>1
      <4>3. MmGets(mm_heap, mm_sizes, f, n, r.bp, size, d, g)
        <5>1. size \in Nat /\ d \in Nat
          BY AddressFacts
        <5> QED BY <2>1, <2>3, <3>2, <4>2, <5>1, MmMallocStep
      <4> QED BY <4>1, <4>3
    <3> QED BY <1>1, <3>1, <3>2 DEF MmGot
  <2> QED BY <2>2, <2>3
<1>3. ASSUME NEW p \in DOMAIN mm_sizes, MmFree(p)
      PROVE  Gave(p)
  <2>1. /\ mm_heap' = Mm!mm_free(mm_heap, p) /\ mm_sizes' = Unsized(mm_sizes, p)
        /\ UNCHANGED mm_stopped
    BY <1>3 DEF MmFree
  <2>2. ASSUME NEW f, NEW n, Held(mm_heap, mm_sizes, f, n)
        PROVE  Returns(mm_heap, mm_sizes, f, n, p, mm_heap')
    BY <2>1, <2>2, MmFreeStep
  <2> QED BY <1>1, <2>1, <2>2 DEF Gave
<1>4. CASE MmNext
  BY <1>2, <1>3, <1>4 DEF MmNext
<1> QED BY <1>4

\* The invariant in the words of this module.
StateIs == /\ (\E f, n : Held(mm_heap, mm_sizes, f, n)) /\ mm_stopped = FALSE
           /\ \A p \in DOMAIN mm_sizes : mm_sizes[p] \in Requests

LEMMA StateIsInvariant == MmIInv <=> StateIs
<1>1. ASSUME StateIs PROVE MmIInv
  BY <1>1, InvariantOf DEF StateIs
<1>2. ASSUME MmIInv PROVE StateIs
  BY <1>2, MmInvariantIs DEF StateIs
<1> QED BY <1>1, <1>2

LEMMA StepKeeps == MmIInv /\ [MmNext]_mmVars => StateIs'
<1> SUFFICES ASSUME MmIInv, [MmNext]_mmVars PROVE StateIs'
  OBVIOUS
<1>1. /\ (\E f, n : Held(mm_heap, mm_sizes, f, n)) /\ mm_stopped = FALSE
      /\ \A p \in DOMAIN mm_sizes : mm_sizes[p] \in Requests
  BY MmInvariantIs
<1>2. CASE UNCHANGED mmVars
  BY <1>1, <1>2 DEF StateIs, mmVars
<1>3. ASSUME NEW size \in Requests, NEW d \in Fills, NEW bp, MmGot(size, d, bp)
      PROVE  StateIs'
  <2>1. PICK f, n : Held(mm_heap, mm_sizes, f, n)
    BY <1>1
  <2>2. MmGets(mm_heap, mm_sizes, f, n, bp, size, d, mm_heap')
    BY <1>3, <2>1 DEF MmGot
  <2>3. \E e, l : Held(mm_heap', Sized(mm_sizes, bp, size), e, l)
    BY <2>2 DEF MmGets
  <2>4. mm_sizes' = Sized(mm_sizes, bp, size) /\ mm_stopped' = FALSE
    BY <1>1, <1>3 DEF MmGot
  <2>5. \E e, l : Held(mm_heap', mm_sizes', e, l)
    BY <2>3, <2>4
  <2>6. \A p \in DOMAIN mm_sizes' : mm_sizes'[p] \in Requests
    BY <1>1, <2>4 DEF Sized
  <2> QED BY <2>4, <2>5, <2>6 DEF StateIs
<1>4. ASSUME NEW p \in DOMAIN mm_sizes, Gave(p)
      PROVE  StateIs'
  <2>1. PICK f, n : Held(mm_heap, mm_sizes, f, n)
    BY <1>1
  <2>2. Returns(mm_heap, mm_sizes, f, n, p, mm_heap')
    BY <1>4, <2>1 DEF Gave
  <2>3. \E e, l : Held(mm_heap', Unsized(mm_sizes, p), e, l)
    BY <2>2 DEF Returns
  <2>4. mm_sizes' = Unsized(mm_sizes, p) /\ mm_stopped' = FALSE
    BY <1>1, <1>4 DEF Gave
  <2>5. \E e, l : Held(mm_heap', mm_sizes', e, l)
    BY <2>3, <2>4
  <2>6. \A q \in DOMAIN mm_sizes' : mm_sizes'[q] \in Requests
    BY <1>1, <2>4 DEF Unsized
  <2> QED BY <2>4, <2>5, <2>6 DEF StateIs
<1> QED BY <1>2, <1>3, <1>4, StepIs

(* In every state the free list of mm.c is sorted and linked both ways,    *)
(* its blocks and the caller's are apart, and each payload has room.       *)
THEOREM MmInvariance == MmSpec => []MmIInv
<1>1. MmInit => MmIInv
  BY InitEstablishes
<1>2. MmIInv /\ [MmNext]_mmVars => StateIs'
  BY StepKeeps
<1>3. MmIInv <=> StateIs
  BY StateIsInvariant
<1> QED BY <1>1, <1>2, <1>3, PTL DEF MmSpec

----------------------------------------------------------------------------
(* The list and the blocks.                                                *)

LEMMA SortedList == MmIInv => ListSorted
<1> SUFFICES ASSUME MmIInv PROVE ListSorted
  OBVIOUS
<1>1. PICK f, n : Held(mm_heap, mm_sizes, f, n)
  BY MmInvariantIs
<1>2. Layout(mm_heap, f, n, DOMAIN mm_sizes)
  BY <1>1 DEF Held
<1>3. /\ Chain(mm_heap, f, n) /\ n \in Nat
      /\ \A b \in Members(f, n) : ~ Allocated(mm_heap.mem, b)
  BY <1>2 DEF Layout, Heap, Chain
<1>4. MmList = f /\ Len(f) = n /\ f \in Seq(Addresses \ {NULL}) /\ Elements(f) = Members(f, n)
  BY <1>3, ListFacts DEF MmList
<1>5. f = <<>> <=> n = 0
  BY <1>4
<1>6. IF f = <<>> THEN mm_heap.root = NULL /\ mm_heap.end = NULL ELSE f[Len(f)] = mm_heap.end
  BY <1>3, <1>4, <1>5 DEF Chain
<1>7. ASSUME NEW nth \in 1 .. Len(f) - 1
      PROVE  /\ Mm!PREV_PTR(mm_heap, f[nth + 1]) = f[nth]
             /\ Mm!SizeIn(mm_heap, f[nth]) <= Mm!SizeIn(mm_heap, f[nth + 1])
  <2>1. PICK j : j = nth + 1
    OBVIOUS
  <2>2. nth \in 1 .. n - 1 /\ nth \in 1 .. n /\ j \in 1 .. n /\ nth < j
    BY <1>3, <1>4, <2>1
  <2>3. mm_heap.mem[f[nth + 1] + 1] = f[nth] /\ Size(mm_heap.mem, f[nth]) <= Size(mm_heap.mem, f[j])
    BY <1>3, <2>2 DEF Chain
  <2>4. Mm!PREV_PTR(mm_heap, f[nth + 1]) = mm_heap.mem[f[nth + 1] + 1]
    BY DEF Mm!PREV_PTR
  <2>5. /\ Mm!SizeIn(mm_heap, f[nth]) = Size(mm_heap.mem, f[nth])
        /\ Mm!SizeIn(mm_heap, f[j]) = Size(mm_heap.mem, f[j])
    BY SameMacros
  <2> QED BY <2>1, <2>3, <2>4, <2>5
<1> QED BY <1>3, <1>4, <1>6, <1>7 DEF ListSorted

LEMMA ApartBlocks == MmIInv => BlocksApart
<1> SUFFICES ASSUME MmIInv PROVE BlocksApart
  OBVIOUS
<1>1. PICK f, n : Held(mm_heap, mm_sizes, f, n)
  BY MmInvariantIs
<1>2. Layout(mm_heap, f, n, DOMAIN mm_sizes)
  BY <1>1 DEF Held
<1>3. Chain(mm_heap, f, n) /\ Members(f, n) \cap DOMAIN mm_sizes = {}
  BY <1>2 DEF Layout, Heap
<1>4. FreeBlocks = Members(f, n)
  BY <1>3, ListFacts DEF FreeBlocks, MmList
<1>5. PICK m : m = mm_heap.mem
  OBVIOUS
<1>6. PICK brk : brk = mm_heap.brk
  OBVIOUS
<1>7. m \in [Addresses -> Nat] /\ brk \in 4 .. MAX_HEAP /\ BlocksOf(m, brk, MmBlocks)
  BY <1>2, <1>4, <1>5, <1>6, LayoutParts DEF MmBlocks
<1>8. \A b : Extent(b) = Words(m, b)
  BY <1>5 DEF Extent, Words, HDRP, FTRP
<1>9. ASSUME NEW b \in MmBlocks, NEW c \in MmBlocks, b # c
      PROVE  Extent(b) \cap Extent(c) = {}
  <2>1. \A a \in Words(m, b) : a \notin Words(m, c)
    BY <1>7, <1>9, WordsApart
  <2> QED BY <1>8, <2>1
<1>10. ASSUME NEW b \in MmBlocks
       PROVE  /\ b % 2 = 0 /\ Extent(b) \subseteq 3 .. mm_heap.brk - 2
              /\ mm_heap.mem[HDRP(b)] = mm_heap.mem[FTRP(mm_heap.mem, b)]
  <2>1. /\ brk \in Nat /\ b \in Nat /\ b >= 4 /\ b % 2 = 0
        /\ Size(m, b) \in Nat /\ Size(m, b) >= 4 /\ b + Size(m, b) <= brk
        /\ m[b + Size(m, b) - 2] = m[b - 1]
    BY <1>7, MmBlockFacts
  <2>2. Words(m, b) \subseteq 3 .. brk - 2
    <3>1. PICK z : z = Size(m, b)
      OBVIOUS
    <3>2. z \in Nat /\ b + z <= brk /\ Words(m, b) = b - 1 .. b + z - 2
      BY <2>1, <3>1 DEF Words
    <3> QED BY <2>1, <3>2
  <2>3. m[HDRP(b)] = m[FTRP(m, b)]
    BY <2>1 DEF HDRP, FTRP
  <2> QED BY <1>5, <1>6, <1>8, <2>1, <2>2, <2>3
<1>11. ASSUME NEW p \in DOMAIN mm_sizes
       PROVE  Payload(p, mm_sizes[p]) \subseteq p .. FTRP(mm_heap.mem, p) - 1
  <2>1. /\ p \in Nat /\ Size(m, p) \in Nat /\ PayloadWords(mm_sizes[p]) \in Nat
        /\ PayloadWords(mm_sizes[p]) + 2 <= Size(m, p)
    BY <1>1, <1>5, MmHeldFacts
  <2>2. FTRP(m, p) = p + Size(m, p) - 2
    BY DEF FTRP
  <2>3. PICK w : w = PayloadWords(mm_sizes[p])
    OBVIOUS
  <2>4. Payload(p, mm_sizes[p]) = p .. p + w - 1
    BY <2>3 DEF Payload
  <2>5. PICK e : e = FTRP(m, p)
    OBVIOUS
  <2>6. p .. p + w - 1 \subseteq p .. e - 1
    BY <2>1, <2>2, <2>3, <2>5
  <2>7. e = FTRP(mm_heap.mem, p)
    BY ONLY <1>5, <2>5
  <2> QED BY ONLY <2>4, <2>6, <2>7
<1> QED BY <1>3, <1>4, <1>9, <1>10, <1>11 DEF BlocksApart

(* For every caller, the free list of mm.c is sorted and doubly linked,    *)
(* and its blocks are apart from the allocated ones: no insertion, removal *)
(* or split ever cuts the list or lets two blocks overlap.                 *)
THEOREM ListStaysSorted == MmSpec => []FreeListSorted
<1>1. MmIInv => FreeListSorted
  BY SortedList, ApartBlocks DEF FreeListSorted
<1> QED BY <1>1, MmInvariance, PTL

----------------------------------------------------------------------------
(* What a step may not do.                                                 *)

\* The list of a state.
LEMMA FreeBlocksAre ==
  ASSUME NEW f, NEW n, Held(mm_heap, mm_sizes, f, n)
  PROVE  FreeBlocks = Members(f, n) /\ MmBlocks = Members(f, n) \cup DOMAIN mm_sizes
<1>1. Chain(mm_heap, f, n)
  BY DEF Held, Layout, Heap
<1>2. FreeBlocks = Members(f, n)
  BY <1>1, ListFacts DEF FreeBlocks, MmList
<1> QED BY <1>2 DEF MmBlocks

LEMMA ListOf ==
  ASSUME NEW h, NEW s, NEW f, NEW n, Held(h, s, f, n)
  PROVE  Elements(Mm!FreeList(h)) = Members(f, n)
<1>1. Chain(h, f, n)
  BY DEF Held, Layout, Heap
<1> QED BY <1>1, ListFacts

LEMMA GotServes ==
  ASSUME MmIInv, NEW size, NEW d, NEW bp, MmGot(size, d, bp)
  PROVE  BestFit /\ NothingLeaks
<1>1. PICK f, n : Held(mm_heap, mm_sizes, f, n)
  BY DEF MmGot
<1>2. MmGets(mm_heap, mm_sizes, f, n, bp, size, d, mm_heap')
  BY <1>1 DEF MmGot
<1>3. FreeBlocks = Members(f, n) /\ MmBlocks = Members(f, n) \cup DOMAIN mm_sizes
  BY <1>1, FreeBlocksAre
<1>4. /\ DOMAIN mm_sizes' = DOMAIN mm_sizes \cup {bp} /\ mm_sizes'[bp] = size
  <2>1. mm_sizes' = Sized(mm_sizes, bp, size)
    BY DEF MmGot
  <2> QED BY <2>1 DEF Sized
<1>5. Serves(mm_heap, mm_heap', f, n, bp, adjusted(size))
  BY <1>2 DEF MmGets
<1>6. \A b : Mm!SizeIn(mm_heap, b) = Size(mm_heap.mem, b)
  BY SameMacros
<1>7. ASSUME NEW p \in FreeBlocks \cap (DOMAIN mm_sizes' \ DOMAIN mm_sizes), NEW b \in FreeBlocks,
             Mm!SizeIn(mm_heap, b) < Mm!SizeIn(mm_heap, p)
      PROVE  Mm!SizeIn(mm_heap, b) < adjusted(mm_sizes'[p])
  <2>1. p = bp /\ p \in Members(f, n) /\ b \in Members(f, n)
    BY <1>3, <1>4
  <2>2. BestOf(mm_heap, f, n, bp, adjusted(size))
    BY <1>5, <2>1 DEF Serves
  <2>3. Size(mm_heap.mem, b) < adjusted(size)
    BY <1>6, <1>7, <2>1, <2>2 DEF BestOf
  <2> QED BY <1>4, <1>6, <2>1, <2>3
<1>8. \A b \in FreeBlocks : Mm!SizeIn(mm_heap, b) # mm_heap'.brk - mm_heap.brk
  BY <1>3, <1>5, <1>6 DEF Serves
<1>9. BestFit
  BY <1>7, <1>8 DEF BestFit
<1>10. PICK e, l : /\ Held(mm_heap', Sized(mm_sizes, bp, size), e, l)
                   /\ Members(f, n) \subseteq Members(e, l) \cup {bp}
  <2>1. \E e, l : /\ Held(mm_heap', Sized(mm_sizes, bp, size), e, l)
                  /\ Members(f, n) \subseteq Members(e, l) \cup {bp}
    BY <1>2 DEF MmGets
  <2> QED BY <2>1
<1>11. PICK h : h = mm_heap'
  OBVIOUS
<1>12. Elements(Mm!FreeList(h)) = Members(e, l)
  <2>1. Held(h, Sized(mm_sizes, bp, size), e, l)
    BY <1>10, <1>11
  <2> QED BY <2>1, ListOf
<1>13. NothingLeaks
  BY <1>3, <1>4, <1>10, <1>11, <1>12 DEF NothingLeaks
<1> QED BY <1>9, <1>13

LEMMA GaveServes ==
  ASSUME MmIInv, NEW p \in DOMAIN mm_sizes, Gave(p)
  PROVE  BestFit /\ NothingLeaks
<1>1. PICK f, n : Held(mm_heap, mm_sizes, f, n)
  BY DEF Gave
<1>2. Returns(mm_heap, mm_sizes, f, n, p, mm_heap')
  BY <1>1 DEF Gave
<1>3. FreeBlocks = Members(f, n) /\ MmBlocks = Members(f, n) \cup DOMAIN mm_sizes
  BY <1>1, FreeBlocksAre
<1>4. DOMAIN mm_sizes' = DOMAIN mm_sizes \ {p}
  <2>1. mm_sizes' = Unsized(mm_sizes, p)
    BY DEF Gave
  <2> QED BY <2>1 DEF Unsized
<1>5. \A b : Mm!SizeIn(mm_heap, b) = Size(mm_heap.mem, b)
  BY SameMacros
<1>6. ASSUME NEW b \in FreeBlocks
      PROVE  Mm!SizeIn(mm_heap, b) # mm_heap'.brk - mm_heap.brk
  <2>1. PICK B : B = Members(f, n) \cup DOMAIN mm_sizes
    OBVIOUS
  <2>2. /\ mm_heap.mem \in [Addresses -> Nat] /\ mm_heap.brk \in 4 .. MAX_HEAP
        /\ BlocksOf(mm_heap.mem, mm_heap.brk, B) /\ b \in B
    BY <1>1, <1>3, <2>1, LayoutParts DEF Held
  <2>3. Size(mm_heap.mem, b) \in Nat /\ Size(mm_heap.mem, b) >= 4
    BY <2>2, MmBlockFacts
  <2>4. mm_heap'.brk = mm_heap.brk /\ mm_heap.brk \in Nat
    BY <1>2, <2>2 DEF Returns
  <2> QED BY <1>5, <2>3, <2>4
<1>7. BestFit
  BY <1>4, <1>6 DEF BestFit
<1>8. PICK e, l : /\ Held(mm_heap', Unsized(mm_sizes, p), e, l)
                  /\ Members(e, l) = Members(f, n) \cup {p}
  <2>1. \E e, l : /\ Held(mm_heap', Unsized(mm_sizes, p), e, l)
                  /\ Members(e, l) = Members(f, n) \cup {p}
    BY <1>2 DEF Returns
  <2> QED BY <2>1
<1>9. PICK h : h = mm_heap'
  OBVIOUS
<1>10. Elements(Mm!FreeList(h)) = Members(e, l)
  <2>1. Held(h, Unsized(mm_sizes, p), e, l)
    BY <1>8, <1>9
  <2> QED BY <2>1, ListOf
<1>11. NothingLeaks
  BY <1>3, <1>4, <1>8, <1>9, <1>10 DEF NothingLeaks
<1> QED BY <1>7, <1>11

(* For every caller, mm_malloc takes the smallest free block that is large *)
(* enough, mm.c never grows the heap for a block that the list has, and no *)
(* block is ever dropped: it is on the list or the caller holds it.        *)
THEOREM ListServes == MmSpec => FreeListServes
<1>1. MmIInv /\ [MmNext]_mmVars => [BestFit /\ NothingLeaks]_mmVars
  <2> SUFFICES ASSUME MmIInv, [MmNext]_mmVars PROVE [BestFit /\ NothingLeaks]_mmVars
    OBVIOUS
  <2> QED BY StepIs, GotServes, GaveServes
<1> QED BY <1>1, MmInvariance, PTL DEF MmSpec, FreeListServes

----------------------------------------------------------------------------
(* mm.c implements Allocator.  c is what the caller finds in its payloads  *)
(* before a step and e after it.                                           *)

\* Payloads are in blocks of their own.
LEMMA MmPayloadsApart ==
  ASSUME NEW h, NEW s, NEW f, NEW n, Held(h, s, f, n), NEW p \in DOMAIN s, NEW q \in DOMAIN s,
         p # q
  PROVE  Payload(p, s[p]) \cap Payload(q, s[q]) = {}
<1> DEFINE z(b) == Size(h.mem, b)
           w(b) == PayloadWords(s[b])
<1>1. ASSUME NEW b \in DOMAIN s
      PROVE  /\ b \in Nat /\ z(b) \in Nat /\ w(b) \in Nat /\ w(b) + 2 <= z(b)
             /\ \A c \in DOMAIN s : b < c => b + z(b) <= c
  BY MmHeldFacts
<1>2. Payload(p, s[p]) = p .. p + w(p) - 1 /\ Payload(q, s[q]) = q .. q + w(q) - 1
  BY DEF Payload
<1> HIDE DEF z, w
<1>3. (p < q => p + z(p) <= q) /\ (q < p => q + z(q) <= p)
  BY <1>1
<1>4. /\ p \in Nat /\ z(p) \in Nat /\ w(p) \in Nat /\ w(p) + 2 <= z(p)
      /\ q \in Nat /\ z(q) \in Nat /\ w(q) \in Nat /\ w(q) + 2 <= z(q)
  BY <1>1
<1>5. ASSUME NEW a, a \in Payload(p, s[p]), a \in Payload(q, s[q])
      PROVE  FALSE
  <2>1. a \in Int /\ p <= a /\ a <= p + w(p) - 1 /\ q <= a /\ a <= q + w(q) - 1
    BY <1>2, <1>4, <1>5
  <2>2. p < q \/ q < p
    BY <1>4
  <2> QED BY <1>3, <1>4, <2>1, <2>2
<1> QED BY <1>5

\* The region of a payload is in the heap and apart from the others.
LEMMA MmRegionFits ==
  ASSUME NEW h, NEW s, NEW f, NEW n, NEW p, NEW size, p \notin DOMAIN s,
         Held(h, Sized(s, p, size), f, n), NEW m
  PROVE  MmA!Fits(contentOf(m, s), p, PayloadWords(size))
<1> DEFINE t == Sized(s, p, size)
           c == contentOf(m, s)
           w == PayloadWords(size)
<1>1. /\ DOMAIN t = DOMAIN s \cup {p} /\ t[p] = size
      /\ \A q \in DOMAIN s : t[q] = s[q]
  BY DEF Sized
<1>2. Held(h, t, f, n) /\ p \in DOMAIN t
  BY <1>1
<1> HIDE DEF t
<1>3. \A q \in DOMAIN t : t[q] \in Nat \ {0} /\ PayloadWords(t[q]) + 2 <= Size(h.mem, q)
  BY <1>2 DEF Held
<1>4. w \in Nat /\ w > 0 /\ w + 2 <= Size(h.mem, p)
  BY <1>1, <1>2, <1>3, PayloadFacts
<1>5. /\ p \in Nat /\ p >= 4 /\ p % 2 = 0 /\ Size(h.mem, p) \in Nat
      /\ p + Size(h.mem, p) <= h.brk /\ h.brk \in Nat /\ h.brk <= MAX_HEAP
      /\ MAX_HEAP \in Nat
  BY <1>2, MmHeldFacts, AddressFacts
<1>6. Payload(p, size) = MmA!Region(p, w)
  BY DEF Payload, MmA!Region
<1>7. MmA!Region(p, w) \subseteq Addresses
  <2>1. p + w <= MAX_HEAP
    BY <1>4, <1>5
  <2> HIDE DEF w
  <2> QED BY <1>4, <1>5, <2>1 DEF MmA!Region, Addresses
<1>8. ASSUME NEW q \in DOMAIN c
      PROVE  MmA!Region(q, Len(c[q])) \cap MmA!Region(p, w) = {}
  <2>1. q \in DOMAIN s /\ c[q] = [nth \in 1 .. PayloadWords(s[q]) |-> m[q + nth - 1]]
    BY DEF contentOf
  <2>2. t[q] = s[q] /\ q \in DOMAIN t /\ q # p
    BY <1>1, <2>1
  <2>3. PayloadWords(s[q]) \in Nat
    BY <1>3, <2>2, PayloadFacts
  <2>4. Len(c[q]) = PayloadWords(s[q])
    BY <2>1, <2>3
  <2>5. Payload(q, t[q]) \cap Payload(p, t[p]) = {}
    BY <1>2, <2>2, MmPayloadsApart
  <2>6. Payload(q, s[q]) = MmA!Region(q, Len(c[q]))
    BY <2>4 DEF Payload, MmA!Region
  <2> QED BY <1>1, <1>6, <2>2, <2>5, <2>6
<1> HIDE DEF c, w
<1>9. MmA!Fits(c, p, w)
  BY <1>4, <1>5, <1>7, <1>8 DEF MmA!Fits
<1> QED BY <1>9 DEF c, w

(* Kept blocks keep their payloads.                                        *)
LEMMA MmPayloadsKept ==
  ASSUME NEW h, NEW s, NEW f, NEW n, Held(h, s, f, n), NEW m, NEW T \in SUBSET DOMAIN s,
         Keeps(h.mem, m, T)
  PROVE  SamePayloads(h.mem, m, s, T)
<1> SUFFICES ASSUME NEW q \in T, NEW nth \in 1 .. PayloadWords(s[q])
             PROVE  m[q + nth - 1] = h.mem[q + nth - 1]
  BY DEF SamePayloads
<1>1. /\ q \in Nat /\ Size(h.mem, q) \in Nat /\ PayloadWords(s[q]) \in Nat
      /\ PayloadWords(s[q]) + 2 <= Size(h.mem, q)
  <2>1. q \in DOMAIN s
    OBVIOUS
  <2> QED BY <2>1, MmHeldFacts
<1>2. q + nth - 1 \in Words(h.mem, q)
  BY <1>1 DEF Words
<1> QED BY <1>2 DEF Keeps

\* A payload more, and one less.
LEMMA MmWithContent ==
  ASSUME NEW m, NEW n, NEW s, NEW p, NEW size, p \notin DOMAIN s,
         SamePayloads(m, n, s, DOMAIN s)
  PROVE  contentOf(n, Sized(s, p, size)) =
           MmA!With(contentOf(m, s), p, [nth \in 1 .. PayloadWords(size) |-> n[p + nth - 1]])
<1> DEFINE t == Sized(s, p, size)
           data == [nth \in 1 .. PayloadWords(size) |-> n[p + nth - 1]]
           c == contentOf(m, s)
<1>1. /\ DOMAIN t = DOMAIN s \cup {p} /\ t[p] = size
      /\ \A q \in DOMAIN s : t[q] = s[q]
  BY DEF Sized
<1>2. DOMAIN c = DOMAIN s
      /\ \A q \in DOMAIN s : c[q] = [nth \in 1 .. PayloadWords(s[q]) |-> m[q + nth - 1]]
  BY DEF contentOf
<1> HIDE DEF t, c
<1>3. ASSUME NEW q \in DOMAIN s \cup {p}
      PROVE  [nth \in 1 .. PayloadWords(t[q]) |-> n[q + nth - 1]] = IF q = p THEN data ELSE c[q]
  <2>1. CASE q = p
    BY <1>1, <2>1
  <2>2. CASE q # p
    <3>1. q \in DOMAIN s /\ t[q] = s[q]
      BY <1>1, <2>2
    <3>2. [nth \in 1 .. PayloadWords(s[q]) |-> n[q + nth - 1]] = c[q]
      BY <1>2, <3>1 DEF SamePayloads
    <3> QED BY <2>2, <3>1, <3>2
  <2> QED BY <2>1, <2>2
<1> HIDE DEF data
<1>4. contentOf(n, t) = [q \in DOMAIN s \cup {p} |-> IF q = p THEN data ELSE c[q]]
  <2>1. contentOf(n, t) = [q \in DOMAIN s \cup {p} |->
                             [nth \in 1 .. PayloadWords(t[q]) |-> n[q + nth - 1]]]
    BY <1>1 DEF contentOf
  <2> QED BY <1>3, <2>1
<1>5. MmA!With(c, p, data) = [q \in DOMAIN s \cup {p} |-> IF q = p THEN data ELSE c[q]]
  BY <1>2 DEF MmA!With
<1> QED BY <1>4, <1>5 DEF t, c, data

(* A freed payload takes its data with it.                                 *)
LEMMA MmWithoutContent ==
  ASSUME NEW m, NEW n, NEW s, NEW p,
         SamePayloads(m, n, s, DOMAIN s \ {p})
  PROVE  contentOf(n, Unsized(s, p)) = MmA!Without(contentOf(m, s), p)
<1> DEFINE t == Unsized(s, p)
           c == contentOf(m, s)
<1>1. DOMAIN t = DOMAIN s \ {p} /\ \A q \in DOMAIN s \ {p} : t[q] = s[q]
  BY DEF Unsized
<1>2. DOMAIN c = DOMAIN s
      /\ \A q \in DOMAIN s : c[q] = [nth \in 1 .. PayloadWords(s[q]) |-> m[q + nth - 1]]
  BY DEF contentOf
<1> HIDE DEF t, c
<1>3. ASSUME NEW q \in DOMAIN s \ {p}
      PROVE  [nth \in 1 .. PayloadWords(t[q]) |-> n[q + nth - 1]] = c[q]
  BY <1>1, <1>2 DEF SamePayloads
<1>4. contentOf(n, t) = [q \in DOMAIN s \ {p} |-> c[q]]
  <2>1. contentOf(n, t) = [q \in DOMAIN s \ {p} |->
                             [nth \in 1 .. PayloadWords(t[q]) |-> n[q + nth - 1]]]
    BY <1>1 DEF contentOf
  <2> QED BY <1>3, <2>1
<1>5. MmA!Without(c, p) = [q \in DOMAIN s \ {p} |-> c[q]]
  BY <1>2 DEF MmA!Without
<1> QED BY <1>4, <1>5 DEF t, c

(* The step of the allocator that moves the contents from c to e.          *)
MmMallocked(c, e) ==
  \E p \in DOMAIN e \ DOMAIN c, size \in Requests, d \in Fills :
    /\ MmA!Fits(c, p, MmA!Words(size))
    /\ e = MmA!With(c, p, [nth \in 1 .. MmA!Words(size) |-> d])

(* A call of mm_malloc that returns a block is a Malloc of the allocator.  *)
LEMMA MmGotIsMalloc ==
  ASSUME NEW h, NEW s, NEW f, NEW n, Held(h, s, f, n), NEW size \in Requests, NEW d \in Fills,
         NEW p, NEW g, MmGets(h, s, f, n, p, size, d, g),
         NEW c, c = contentOf(h.mem, s),
         NEW e, e = contentOf(g.mem, Sized(s, p, size))
  PROVE  MmMallocked(c, e)
<1>1. /\ \E x, l : Held(g, Sized(s, p, size), x, l)
      /\ size # 0 /\ p \notin DOMAIN s /\ Keeps(h.mem, g.mem, DOMAIN s)
      /\ \A a \in Payload(p, size) : g.mem[a] = d
  BY DEF MmGets
<1>2. PICK w : w = PayloadWords(size)
  OBVIOUS
<1>3. MmA!Fits(c, p, w)
  BY <1>1, <1>2, MmRegionFits
<1>4. SamePayloads(h.mem, g.mem, s, DOMAIN s)
  BY <1>1, MmPayloadsKept
<1>5. e = MmA!With(c, p, [nth \in 1 .. w |-> g.mem[p + nth - 1]])
  BY <1>1, <1>2, <1>4, MmWithContent
<1>6. [nth \in 1 .. w |-> g.mem[p + nth - 1]] = [nth \in 1 .. w |-> d]
  <2>1. p \in Nat /\ w \in Nat
    <3>1. PICK x, l : Held(g, Sized(s, p, size), x, l)
      BY <1>1
    <3>2. p \in DOMAIN Sized(s, p, size)
      BY DEF Sized
    <3>3. p \in Nat
      BY <3>1, <3>2, MmHeldFacts
    <3>4. size \in Nat \ {0}
      BY <1>1, AddressFacts
    <3>5. w \in Nat
      BY <1>2, <3>4, PayloadFacts
    <3> QED BY <3>3, <3>5
  <2>2. Payload(p, size) = p .. p + w - 1
    BY <1>2 DEF Payload
  <2>3. ASSUME NEW nth \in 1 .. w PROVE g.mem[p + nth - 1] = d
    <3>1. p + nth - 1 \in Payload(p, size)
      BY <2>1, <2>2
    <3> QED BY <1>1, <3>1
  <2> QED BY <2>3
<1>7. p \in DOMAIN e \ DOMAIN c
  BY <1>1 DEF contentOf, Sized
<1>8. MmA!Words(size) = w
  BY <1>2 DEF MmA!Words, PayloadWords
<1>9. /\ MmA!Fits(c, p, MmA!Words(size))
      /\ e = MmA!With(c, p, [nth \in 1 .. MmA!Words(size) |-> d])
  BY <1>3, <1>5, <1>6, <1>8
<1> QED BY <1>7, <1>9 DEF MmMallocked

(* mm_free is a Free of the allocator.                                     *)
LEMMA GaveIsFree ==
  ASSUME NEW h, NEW s, NEW f, NEW n, Held(h, s, f, n), NEW p \in DOMAIN s,
         NEW g, Returns(h, s, f, n, p, g)
  PROVE  contentOf(g.mem, Unsized(s, p)) = MmA!Without(contentOf(h.mem, s), p)
<1>1. SamePayloads(h.mem, g.mem, s, DOMAIN s \ {p})
  <2>1. Keeps(h.mem, g.mem, DOMAIN s \ {p})
    BY DEF Returns
  <2> QED BY <2>1, MmPayloadsKept
<1> QED BY <1>1, MmWithoutContent

(* The initial state, and every step: a request that fails leaves all as   *)
(* it was.                                                                 *)
LEMMA MmInitRefines == MmInit => MmA!Init
<1> SUFFICES ASSUME MmInit PROVE MmA!Init
  OBVIOUS
<1>1. mm_sizes = <<>> /\ mm_stopped = FALSE
  BY DEF MmInit
<1>2. contentOf(mm_heap.mem, mm_sizes) = <<>>
  BY <1>1 DEF contentOf
<1> QED BY <1>1, <1>2 DEF MmA!Init

LEMMA MmStepRefines == MmIInv /\ [MmNext]_mmVars => [MmA!Next]_(MmA!vars)
<1> SUFFICES ASSUME MmIInv, [MmNext]_mmVars PROVE [MmA!Next]_(MmA!vars)
  OBVIOUS
<1> DEFINE c == contentOf(mm_heap.mem, mm_sizes)
           e == contentOf(mm_heap.mem, mm_sizes)'
<1>1. mm_stopped = FALSE /\ \E f, n : Held(mm_heap, mm_sizes, f, n)
  BY MmInvariantIs
<1>2. PICK f, n : Held(mm_heap, mm_sizes, f, n)
  BY <1>1
<1>3. e = contentOf(mm_heap'.mem, mm_sizes')
  OBVIOUS
<1>4. ASSUME NEW size \in Requests, NEW d \in Fills, NEW bp, MmGot(size, d, bp)
      PROVE  MmA!Next
  <2>1. MmMallocked(c, e)
    <3>1. /\ MmGets(mm_heap, mm_sizes, f, n, bp, size, d, mm_heap')
          /\ e = contentOf(mm_heap'.mem, Sized(mm_sizes, bp, size))
      BY <1>2, <1>3, <1>4 DEF MmGot
    <3>2. c = contentOf(mm_heap.mem, mm_sizes)
      OBVIOUS
    <3> HIDE DEF c, e
    <3> QED BY <1>2, <3>1, <3>2, MmGotIsMalloc
  <2>2. mm_stopped' = mm_stopped
    BY <1>4 DEF MmGot
  <2>3. MmA!Malloc
    BY <2>1, <2>2 DEF MmA!Malloc, MmMallocked
  <2> QED BY <1>1, <2>3 DEF MmA!Next
<1>5. ASSUME NEW p \in DOMAIN mm_sizes, Gave(p)
      PROVE  MmA!Next
  <2>1. e = MmA!Without(c, p)
    <3>1. /\ Returns(mm_heap, mm_sizes, f, n, p, mm_heap')
          /\ e = contentOf(mm_heap'.mem, Unsized(mm_sizes, p))
      BY <1>2, <1>3, <1>5 DEF Gave
    <3>2. contentOf(mm_heap'.mem, Unsized(mm_sizes, p)) =
          MmA!Without(contentOf(mm_heap.mem, mm_sizes), p)
      BY <1>2, <3>1, GaveIsFree
    <3> QED BY <3>1, <3>2
  <2>2. p \in DOMAIN c /\ mm_stopped' = mm_stopped
    BY <1>5 DEF contentOf, Gave
  <2>3. MmA!Free
    BY <2>1, <2>2 DEF MmA!Free
  <2> QED BY <1>1, <2>3 DEF MmA!Next
<1>6. CASE UNCHANGED mmVars
  <2>1. c' = c /\ mm_stopped' = mm_stopped
    BY <1>6 DEF mmVars
  <2> QED BY <2>1 DEF MmA!vars
<1> QED BY <1>4, <1>5, <1>6, StepIs

(* What mm.c promises its caller: payloads never overlap, and neither the  *)
(* tags nor the links of the free list are written over the caller's data. *)
THEOREM MmRefinesAllocator == MmSpec => ExplicitImplementsAllocator
<1>1. MmInit => MmA!Init
  BY MmInitRefines
<1>2. MmIInv /\ [MmNext]_mmVars => [MmA!Next]_(MmA!vars)
  BY MmStepRefines
<1> QED BY <1>1, <1>2, MmInvariance, PTL DEF MmSpec, ExplicitImplementsAllocator, MmA!Spec

----------------------------------------------------------------------------
(* The driver is linked with the allocators above.                         *)

\* mm.c.
LEMMA SameTags ==
  /\ Explicit!NULL = NULL /\ Explicit!NULL = Mm!NULL
  /\ \A m, b : Explicit!Size(m, b) = Mm!Size(m, b)
  /\ \A h, b : Explicit!SizeIn(h, b) = Mm!SizeIn(h, b)
  /\ \A h, b : Explicit!NEXT_PTR(h, b) = Mm!NEXT_PTR(h, b)
  /\ \A h, b : Explicit!PREV_PTR(h, b) = Mm!PREV_PTR(h, b)
  /\ \A m, b, size, alloc : Explicit!PutTags(m, b, size, alloc) = Mm!PutTags(m, b, size, alloc)
  /\ \A size : Explicit!adjusted(size) = Mm!adjusted(size)
  /\ \A size : Explicit!Spurious(size) = Mm!Spurious(size)
  /\ Explicit!PACK(0, 1) = Mm!PACK(0, 1)
  /\ \A m : Explicit!FirstWords(m) = Mm!FirstWords(m)
<1>1. Explicit!NULL = NULL /\ Explicit!NULL = Mm!NULL
  BY DEF Explicit!NULL, Mm!NULL, NULL
<1>2. \A m, b : Explicit!Size(m, b) = Mm!Size(m, b)
  BY DEF Explicit!Size, Explicit!GET_SIZE, Explicit!HDRP, Mm!Size, Mm!GET_SIZE, Mm!HDRP
<1>3. \A h, b : Explicit!SizeIn(h, b) = Mm!SizeIn(h, b)
  BY <1>2 DEF Explicit!SizeIn, Mm!SizeIn
<1>4. /\ \A h, b : Explicit!NEXT_PTR(h, b) = Mm!NEXT_PTR(h, b)
      /\ \A h, b : Explicit!PREV_PTR(h, b) = Mm!PREV_PTR(h, b)
  BY DEF Explicit!NEXT_PTR, Explicit!PREV_PTR, Mm!NEXT_PTR, Mm!PREV_PTR
<1>5. ASSUME NEW m, NEW b, NEW size, NEW alloc
      PROVE  Explicit!PutTags(m, b, size, alloc) = Mm!PutTags(m, b, size, alloc)
  BY DEF Explicit!PutTags, Explicit!PACK, Mm!PutTags, Mm!PACK
<1>6. /\ \A size : Explicit!adjusted(size) = Mm!adjusted(size)
      /\ \A size : Explicit!Spurious(size) = Mm!Spurious(size)
      /\ Explicit!PACK(0, 1) = Mm!PACK(0, 1)
  BY DEF Explicit!adjusted, Explicit!Spurious, Explicit!PACK, Mm!adjusted, Mm!Spurious, Mm!PACK
<1>7. ASSUME NEW m PROVE Explicit!FirstWords(m) = Mm!FirstWords(m)
  BY DEF Explicit!FirstWords, Explicit!PACK, Mm!FirstWords, Mm!PACK
<1> QED BY <1>1, <1>2, <1>3, <1>4, <1>5, <1>6, <1>7

LEMMA SameFits ==
  \A h, size, b : Explicit!find_fit(h, size, b) = Mm!find_fit(h, size, b)
<1>1. ASSUME NEW h, NEW b PROVE Explicit!Walk(h, b) = Mm!Walk(h, b)
  BY SameTags DEF Explicit!Walk, Mm!Walk, Explicit!NEXT_PTR, Mm!NEXT_PTR
<1>2. ASSUME NEW h, NEW size, NEW b
      PROVE  Explicit!find_fit(h, size, b) = Mm!find_fit(h, size, b)
  BY <1>1 DEF Explicit!find_fit, Mm!find_fit, Explicit!SizeIn, Explicit!Size,
       Explicit!GET_SIZE, Explicit!HDRP, Mm!SizeIn, Mm!Size, Mm!GET_SIZE, Mm!HDRP,
       Explicit!NULL, Mm!NULL
<1> QED BY <1>2

LEMMA SameLists ==
  /\ \A h, b : Explicit!add_free_block(h, b) = Mm!add_free_block(h, b)
  /\ \A h, b : Explicit!remove_free_block(h, b) = Mm!remove_free_block(h, b)
<1>1. ASSUME NEW h, NEW b
      PROVE  Explicit!add_free_block(h, b) = Mm!add_free_block(h, b)
  BY SameTags, SameFits DEF Explicit!add_free_block, Mm!add_free_block, Explicit!Alone,
     Mm!Alone, Explicit!AsRoot, Mm!AsRoot, Explicit!AsEnd, Mm!AsEnd, Explicit!Before,
     Mm!Before, Explicit!PREV_PTR, Mm!PREV_PTR
<1>2. ASSUME NEW h, NEW b
      PROVE  Explicit!remove_free_block(h, b) = Mm!remove_free_block(h, b)
  BY DEF Explicit!remove_free_block, Mm!remove_free_block, Explicit!NULL, Mm!NULL,
     Explicit!PREV_PTR, Mm!PREV_PTR, Explicit!NEXT_PTR, Mm!NEXT_PTR
<1> QED BY <1>1, <1>2

LEMMA SameExplicit ==
  /\ \A h : Explicit!mm_init(h) = Mm!mm_init(h)
  /\ \A h, size : Explicit!mm_malloc(h, size) = Mm!mm_malloc(h, size)
  /\ \A h, b : Explicit!mm_free(h, b) = Mm!mm_free(h, b)
<1>1. ASSUME NEW h PROVE Explicit!mm_init(h) = Mm!mm_init(h)
  BY SameTags DEF Explicit!mm_init, Mm!mm_init
<1>2. ASSUME NEW h, NEW b PROVE Explicit!mm_free(h, b) = Mm!mm_free(h, b)
  <2>1. PICK size : size = Mm!SizeIn(h, b)
    OBVIOUS
  <2>2. PICK m : m = Mm!PutTags(h.mem, b, size, 0)
    OBVIOUS
  <2>3. Explicit!PutTags(h.mem, b, size, 0) = m /\ Explicit!SizeIn(h, b) = size
    BY <2>1, <2>2, SameTags
  <2>4. PICK g : g = [h EXCEPT !.mem = m]
    OBVIOUS
  <2>5. Explicit!mm_free(h, b) = Explicit!add_free_block(g, b)
    BY <2>3, <2>4 DEF Explicit!mm_free, Explicit!coalesce
  <2>6. Mm!mm_free(h, b) = Mm!add_free_block(g, b)
    BY <2>1, <2>2, <2>4 DEF Mm!mm_free, Mm!coalesce
  <2> QED BY <2>5, <2>6, SameLists
<1>3. ASSUME NEW h, NEW asize
      PROVE  /\ Explicit!Searches(h, asize) = Mm!Searches(h, asize)
             /\ Explicit!Chosen(h, asize) = Mm!Chosen(h, asize)
             /\ Explicit!Extended(h, asize) = Mm!Extended(h, asize)
  <2>1. Explicit!Searches(h, asize) = Mm!Searches(h, asize)
    BY SameTags DEF Explicit!Searches, Mm!Searches
  <2>2. Explicit!Chosen(h, asize) = Mm!Chosen(h, asize)
    BY SameTags, SameFits DEF Explicit!Chosen, Mm!Chosen
  <2>3. Explicit!Extended(h, asize) = Mm!Extended(h, asize)
    BY DEF Explicit!Extended, Mm!Extended, Explicit!PutTags, Explicit!PACK, Mm!PutTags, Mm!PACK
  <2> QED BY <2>1, <2>2, <2>3
<1>4. ASSUME NEW h, NEW b, NEW asize
      PROVE  Explicit!Taken(h, b, asize) = Mm!Taken(h, b, asize)
  <2>1. PICK csize : csize = Mm!SizeIn(h, b)
    OBVIOUS
  <2>2. PICK k : k = Mm!remove_free_block(h, b)
    OBVIOUS
  <2>3. PICK t : t = [k EXCEPT !.mem = Mm!PutTags(@, b, asize, 1)]
    OBVIOUS
  <2>4. PICK u : u = [t EXCEPT !.mem = Mm!PutTags(@, b + asize, csize - asize, 0)]
    OBVIOUS
  <2>5. Mm!Taken(h, b, asize) =
          IF csize - asize >= 4 THEN Mm!add_free_block(u, b + asize) ELSE t
    BY <2>1, <2>2, <2>3, <2>4 DEF Mm!Taken, Mm!Splits
  <2>6. /\ Explicit!SizeIn(h, b) = csize /\ Explicit!remove_free_block(h, b) = k
        /\ Explicit!PutTags(k.mem, b, asize, 1) = Mm!PutTags(k.mem, b, asize, 1)
        /\ Explicit!PutTags(t.mem, b + asize, csize - asize, 0)
             = Mm!PutTags(t.mem, b + asize, csize - asize, 0)
    BY <2>1, <2>2, SameTags, SameLists
  <2>7. t = [k EXCEPT !.mem = Explicit!PutTags(@, b, asize, 1)]
    BY <2>3, <2>6
  <2>8. u = [t EXCEPT !.mem = Explicit!PutTags(@, b + asize, csize - asize, 0)]
    BY <2>4, <2>6
  <2>9. Explicit!Taken(h, b, asize) =
          IF csize - asize >= 4 THEN Explicit!add_free_block(u, b + asize) ELSE t
    BY <2>6, <2>7, <2>8 DEF Explicit!Taken, Explicit!Splits
  <2> QED BY <2>5, <2>9, SameLists
<1>5. ASSUME NEW h, NEW size
      PROVE  Explicit!mm_malloc(h, size) = Mm!mm_malloc(h, size)
  BY <1>3, <1>4, SameTags DEF Explicit!mm_malloc, Mm!mm_malloc
<1> QED BY <1>1, <1>2, <1>5

\* mm-firstfit.c.
LEMMA SameBlocks ==
  /\ FirstFit!heap_listp = heap_listp /\ FirstFit!NULL = NULL
  /\ \A m, b : FirstFit!Size(m, b) = Size(m, b)
  /\ \A m, b, size : FirstFit!PutFree(m, b, size) = PutFree(m, b, size)
  /\ \A m, b, size, alloc : FirstFit!PutTags(m, b, size, alloc) = PutTags(m, b, size, alloc)
  /\ \A m, b : FirstFit!coalesce(m, b) = coalesce(m, b)
  /\ \A m, b : FirstFit!Coalesced(m, b) = Coalesced(m, b)
  /\ \A h, words : FirstFit!extend_heap(h, words) = extend_heap(h, words)
<1>1. FirstFit!heap_listp = heap_listp /\ FirstFit!NULL = NULL
  BY DEF FirstFit!heap_listp, FirstFit!NULL, heap_listp, NULL
<1>2. \A m, b : FirstFit!Size(m, b) = Size(m, b)
  BY DEF FirstFit!Size, FirstFit!GET_SIZE, FirstFit!HDRP, Size, GET_SIZE, HDRP
<1>3. ASSUME NEW m, NEW b, NEW size
      PROVE  FirstFit!PutFree(m, b, size) = PutFree(m, b, size)
  BY DEF FirstFit!PutFree, FirstFit!PACK, PutFree, PACK
<1>4. ASSUME NEW m, NEW b, NEW size, NEW alloc
      PROVE  FirstFit!PutTags(m, b, size, alloc) = PutTags(m, b, size, alloc)
  BY DEF FirstFit!PutTags, FirstFit!PACK, PutTags, PACK
<1>5. /\ \A m, b : FirstFit!PREV_BLKP(m, b) = PREV_BLKP(m, b)
      /\ \A m, b : FirstFit!NEXT_BLKP(m, b) = NEXT_BLKP(m, b)
      /\ \A m, b : FirstFit!FTRP(m, b) = FTRP(m, b)
      /\ \A m, b : FirstFit!Allocated(m, b) = Allocated(m, b)
      /\ \A w : FirstFit!GET_SIZE(w) = GET_SIZE(w) /\ FirstFit!GET_ALLOC(w) = GET_ALLOC(w)
  BY <1>2 DEF FirstFit!PREV_BLKP, FirstFit!NEXT_BLKP, FirstFit!FTRP, FirstFit!Allocated,
     FirstFit!GET_SIZE, FirstFit!GET_ALLOC, FirstFit!HDRP, PREV_BLKP, NEXT_BLKP, FTRP,
     Allocated, GET_SIZE, GET_ALLOC, HDRP
<1>6. \A m, b : FirstFit!Coalesced(m, b) = Coalesced(m, b)
  BY <1>5 DEF FirstFit!Coalesced, Coalesced
<1>7. ASSUME NEW m, NEW b PROVE FirstFit!coalesce(m, b) = coalesce(m, b)
  BY <1>2, <1>3, <1>5 DEF FirstFit!coalesce, coalesce, FirstFit!Join, Join
<1>8. ASSUME NEW h, NEW words
      PROVE  FirstFit!extend_heap(h, words) = extend_heap(h, words)
  <2>1. PICK size : size = words + (words % 2)
    OBVIOUS
  <2>2. FirstFit!NewBlock(h, size) = NewBlock(h, size)
    BY <1>3 DEF FirstFit!NewBlock, NewBlock, FirstFit!PACK, PACK
  <2> QED BY <1>6, <1>7, <2>1, <2>2 DEF FirstFit!extend_heap, extend_heap
<1> QED BY <1>1, <1>2, <1>3, <1>4, <1>6, <1>7, <1>8

LEMMA SameFound ==
  \A h, asize : FirstFit!fits(h, asize) = fits(h, asize)
<1> SUFFICES ASSUME NEW h, NEW asize PROVE FirstFit!fits(h, asize) = fits(h, asize)
  OBVIOUS
<1>1. FirstFit!ListFrom(h) = ListFrom(h)
  BY DEF FirstFit!ListFrom, ListFrom, FirstFit!heap_listp, heap_listp, FirstFit!NEXT_BLKP,
     NEXT_BLKP, FirstFit!Size, FirstFit!GET_SIZE, FirstFit!HDRP, Size, GET_SIZE, HDRP
<1> QED BY <1>1 DEF FirstFit!fits, fits, FirstFit!Size, FirstFit!GET_SIZE, FirstFit!HDRP,
     FirstFit!Allocated, FirstFit!GET_ALLOC, Size, GET_SIZE, HDRP, Allocated, GET_ALLOC

LEMMA SameFirstFit ==
  /\ \A m : FirstFit!mm_init(m) = mm_init(m)
  /\ \A h, size : FirstFit!mm_malloc(h, size) = mm_malloc(h, size)
  /\ \A h, b : FirstFit!mm_free(h, b) = mm_free(h, b)
  /\ \A h, b, size : FirstFit!mm_realloc(h, b, size) = mm_realloc(h, b, size)
<1>1. ASSUME NEW m PROVE FirstFit!mm_init(m) = mm_init(m)
  <2>1. FirstFit!FirstWords(m) = FirstWords(m)
    BY DEF FirstFit!FirstWords, FirstFit!PACK, FirstWords, PACK
  <2> QED BY <2>1, SameBlocks DEF FirstFit!mm_init, mm_init
<1>2. ASSUME NEW h, NEW b PROVE FirstFit!mm_free(h, b) = mm_free(h, b)
  BY SameBlocks DEF FirstFit!mm_free, mm_free
<1>3. ASSUME NEW h, NEW b, NEW asize
      PROVE  FirstFit!place(h, b, asize) = place(h, b, asize)
  BY SameBlocks DEF FirstFit!place, place
<1>4. ASSUME NEW h, NEW size
      PROVE  FirstFit!mm_malloc(h, size) = mm_malloc(h, size)
  <2>1. /\ FirstFit!adjusted(size) = adjusted(size) /\ FirstFit!Spurious(size) = Spurious(size)
        /\ \A S : FirstFit!FirstOf(S) = FirstOf(S)
        /\ \A a, b : FirstFit!larger(a, b) = larger(a, b)
        /\ \A words : FirstFit!CanGrow(h, words) = CanGrow(h, words)
    BY DEF FirstFit!adjusted, FirstFit!Spurious, FirstFit!FirstOf, FirstFit!larger,
       FirstFit!CanGrow, adjusted, Spurious, FirstOf, larger, CanGrow
  <2> QED BY <1>3, <2>1, SameBlocks, SameFound DEF FirstFit!mm_malloc, mm_malloc
<1>5. ASSUME NEW h, NEW b, NEW size
      PROVE  FirstFit!mm_realloc(h, b, size) = mm_realloc(h, b, size)
  <2>1. \A s : FirstFit!PayloadWords(s) = PayloadWords(s)
    BY DEF FirstFit!PayloadWords, PayloadWords
  <2>2. ASSUME NEW m, NEW to, NEW from, NEW n
        PROVE FirstFit!Copied(m, to, from, n) = Copied(m, to, from, n)
    BY DEF FirstFit!Copied, Copied
  <2> QED BY <1>2, <1>4, <2>1, <2>2, SameBlocks DEF FirstFit!mm_realloc, mm_realloc
<1> QED BY <1>1, <1>2, <1>4, <1>5

----------------------------------------------------------------------------
(* What both allocators promise the driver, pkg is the one it is linked    *)
(* with.                                                                   *)

Sound(pkg, h, s) ==
  IF pkg = "mm.c" THEN \E f, n : Held(h, s, f, n) ELSE \E D : Tidy(h, s, D)

InitOf(pkg, h) == IF pkg = "mm.c" THEN Mm!mm_init(h) ELSE mm_init(h.mem)

MallocOf(pkg, h, size) == IF pkg = "mm.c" THEN Mm!mm_malloc(h, size) ELSE mm_malloc(h, size)

FreeOf(pkg, h, p) == IF pkg = "mm.c" THEN Mm!mm_free(h, p) ELSE mm_free(h, p)

(* The payloads are even addresses between the prologue and the break, and *)
(* apart.                                                                  *)
SpotOf(h, s, p) ==
  /\ p \in Nat /\ p >= 2 /\ p % 2 = 0 /\ s[p] \in Nat \ {0}
  /\ PayloadWords(s[p]) \in Nat /\ PayloadWords(s[p]) > 0
  /\ p + PayloadWords(s[p]) < h.brk
  /\ \A q \in DOMAIN s : p < q => p + PayloadWords(s[p]) <= q

LEMMA SoundSpots ==
  ASSUME NEW pkg, NEW h, NEW s, Sound(pkg, h, s), NEW p \in DOMAIN s
  PROVE  SpotOf(h, s, p)
<1>1. CASE pkg = "mm.c"
  <2>1. PICK f, n : Held(h, s, f, n)
    BY <1>1 DEF Sound
  <2>2. PICK z, w : z = Size(h.mem, p) /\ w = PayloadWords(s[p])
    OBVIOUS
  <2>3. /\ p \in Nat /\ p >= 4 /\ p % 2 = 0 /\ z \in Nat
        /\ p + z <= h.brk /\ h.brk \in Nat
        /\ s[p] \in Nat \ {0} /\ w \in Nat /\ w > 0 /\ w + 2 <= z
        /\ \A q \in DOMAIN s : p < q => p + z <= q
    BY <2>1, <2>2, MmHeldFacts
  <2>4. \A q \in DOMAIN s : q \in Nat
    BY <2>1, MmHeldFacts
  <2>5. p + w < h.brk /\ \A q \in DOMAIN s : p < q => p + w <= q
    BY <2>3, <2>4
  <2> QED BY <2>2, <2>3, <2>5 DEF SpotOf
<1>2. CASE pkg # "mm.c"
  <2>1. PICK D : Tidy(h, s, D)
    BY <1>2 DEF Sound
  <2>2. PICK z, w : z = Size(h.mem, p) /\ w = PayloadWords(s[p])
    OBVIOUS
  <2>3. WellFormed(h, D, DOMAIN s)
    BY <2>1 DEF Tidy
  <2>4. /\ p \in D /\ p \in Nat /\ p >= 2 /\ p % 2 = 0 /\ z \in Nat
        /\ p + z <= h.brk /\ h.brk \in Nat
    BY <2>2, <2>3, HeldFacts
  <2>5. s[p] \in Nat \ {0} /\ w + 2 <= z
    BY <2>1, <2>2 DEF Tidy
  <2>6. w \in Nat /\ w > 0
    BY <2>2, <2>5, PayloadFacts
  <2>7. \A q \in DOMAIN s : q \in Nat /\ q \in D
    BY <2>3, HeldFacts
  <2>8. \A q \in D : p < q => p + z <= q
    BY <2>2, <2>3, <2>4 DEF WellFormed, Tiled, NEXT_BLKP
  <2>9. p + w < h.brk /\ \A q \in DOMAIN s : p < q => p + w <= q
    BY <2>4, <2>5, <2>6, <2>7, <2>8
  <2> QED BY <2>2, <2>4, <2>5, <2>6, <2>9 DEF SpotOf
<1> QED BY <1>1, <1>2

\* Memory and break.
LEMMA SoundTypes ==
  ASSUME NEW pkg, NEW h, NEW s, Sound(pkg, h, s)
  PROVE  h.mem \in [Addresses -> Nat] /\ h.brk \in 4 .. MAX_HEAP /\ h.brk \in Nat
<1>1. CASE pkg = "mm.c"
  <2>1. PICK f, n : Held(h, s, f, n)
    BY <1>1 DEF Sound
  <2>2. h.mem \in [Addresses -> Nat] /\ h.brk \in 4 .. MAX_HEAP
    BY <2>1, LayoutParts DEF Held
  <2> QED BY <2>2, AddressFacts
<1>2. CASE pkg # "mm.c"
  <2>1. h.mem \in [Addresses -> Nat] /\ h.brk \in 4 .. MAX_HEAP
    BY <1>2 DEF Sound, Tidy, WellFormed
  <2> QED BY <2>1, AddressFacts
<1> QED BY <1>1, <1>2

(* n has the data that m has in the payloads T of s.                       *)
DataKept(m, n, s, T) == \A p \in T : \A a \in Payload(p, s[p]) : n[a] = m[a]

\* Payloads share no word.
LEMMA SoundApart ==
  ASSUME NEW pkg, NEW h, NEW s, Sound(pkg, h, s), NEW p \in DOMAIN s, NEW q \in DOMAIN s,
         p # q
  PROVE  Payload(p, s[p]) \cap Payload(q, s[q]) = {}
<1>1. PICK v, w : v = PayloadWords(s[p]) /\ w = PayloadWords(s[q])
  OBVIOUS
<1>2. /\ p \in Nat /\ v \in Nat /\ q \in Nat /\ w \in Nat
      /\ p < q => p + v <= q
      /\ q < p => q + w <= p
  <2>1. SpotOf(h, s, p) /\ SpotOf(h, s, q)
    BY SoundSpots
  <2> QED BY <1>1, <2>1 DEF SpotOf
<1>3. Payload(p, s[p]) = p .. p + v - 1 /\ Payload(q, s[q]) = q .. q + w - 1
  BY <1>1 DEF Payload
<1> QED BY <1>2, <1>3

(* A reset heap.                                                           *)
LEMMA SoundInit ==
  ASSUME NEW pkg, NEW h, h.mem \in [Addresses -> Nat]
  PROVE  Sound(pkg, InitOf(pkg, h), <<>>)
<1>1. CASE pkg = "mm.c"
  <2>1. PICK g : g = Mm!mm_init(h)
    OBVIOUS
  <2>2. Held(g, <<>>, <<>>, 0)
    BY <2>1, MmInits
  <2> QED BY <1>1, <2>1, <2>2 DEF Sound, InitOf
<1>2. CASE pkg # "mm.c"
  <2>1. PICK m : m = h.mem /\ m \in [Addresses -> Nat]
    OBVIOUS
  <2>2. PICK g : g = mm_init(m)
    OBVIOUS
  <2>3. g.brk > 4 /\ \E D : WellFormed(g, D, {})
    BY <2>1, <2>2, Inits
  <2>4. PICK D : WellFormed(g, D, {})
    BY <2>3
  <2>5. PICK s : s = <<>> /\ DOMAIN s = {}
    <3>1. DOMAIN <<>> = {}
      OBVIOUS
    <3> QED BY <3>1
  <2>6. Tidy(g, s, D)
    BY <2>3, <2>4, <2>5 DEF Tidy
  <2> QED BY <1>2, <2>1, <2>2, <2>5, <2>6 DEF Sound, InitOf
<1> QED BY <1>1, <1>2

\* Kept payloads, word by word.
LEMMA SameIsKept ==
  ASSUME NEW pkg, NEW h, NEW s, Sound(pkg, h, s), NEW m, NEW T \in SUBSET DOMAIN s,
         SamePayloads(h.mem, m, s, T)
  PROVE  DataKept(h.mem, m, s, T)
<1> SUFFICES ASSUME NEW p \in T, NEW a \in Payload(p, s[p]) PROVE m[a] = h.mem[a]
  BY DEF DataKept
<1>1. PICK w : w = PayloadWords(s[p])
  OBVIOUS
<1>2. p \in Nat /\ w \in Nat
  <2>1. SpotOf(h, s, p)
    BY SoundSpots
  <2> QED BY <1>1, <2>1 DEF SpotOf
<1>3. PICK nth \in 1 .. w : a = p + nth - 1
  <2>1. a \in p .. p + w - 1
    BY <1>1 DEF Payload
  <2>2. a - p + 1 \in 1 .. w /\ a = p + (a - p + 1) - 1
    BY <1>2, <2>1
  <2> QED BY <2>2
<1> QED BY <1>1, <1>3 DEF SamePayloads

(* mm_malloc changes nothing, or finds room and leaves the payloads alone. *)
Grants(pkg, h, s, r, size) ==
  /\ r.bp \notin DOMAIN s /\ Sound(pkg, r.heap, Sized(s, r.bp, size))
  /\ r.heap.brk >= h.brk /\ DataKept(h.mem, r.heap.mem, s, DOMAIN s)

LEMMA SoundMalloc ==
  ASSUME NEW pkg, NEW h, NEW s, Sound(pkg, h, s), NEW size \in Nat,
         NEW r, r = MallocOf(pkg, h, size)
  PROVE  /\ r.bp = NULL => r.heap = h
         /\ r.bp # NULL => Grants(pkg, h, s, r, size)
<1>1. CASE pkg = "mm.c"
  <2>1. PICK f, n : Held(h, s, f, n)
    BY <1>1 DEF Sound
  <2>2. r = Mm!mm_malloc(h, size)
    BY <1>1 DEF MallocOf
  <2>3. ASSUME r.bp = NULL PROVE r.heap = h
    <3>1. PICK asize : asize = adjusted(size)
      OBVIOUS
    <3>2. r = IF Spurious(size) THEN [heap |-> h, bp |-> NULL]
              ELSE IF Mm!Searches(h, asize)
              THEN [heap |-> Mm!Taken(h, Mm!Chosen(h, asize), asize),
                    bp |-> Mm!Chosen(h, asize)]
              ELSE IF h.brk + asize <= MAX_HEAP
              THEN [heap |-> Mm!Extended(h, asize), bp |-> h.brk]
              ELSE [heap |-> h, bp |-> NULL]
      BY <2>2, <3>1, SameMacros DEF Mm!mm_malloc
    <3>3. CASE Spurious(size)
      BY <3>2, <3>3
    <3>4. CASE ~ Spurious(size) /\ Mm!Searches(h, asize)
      <4>1. asize \in Nat
        BY <3>1, <3>4, AdjustedFits
      <4>2. PICK P : Layout(h, f, n, P)
        BY <2>1 DEF Held
      <4>3. PICK k \in 1 .. n : Mm!Chosen(h, asize) = f[k]
        BY <3>4, <4>1, <4>2, ChosenFits
      <4>4. f \in [1 .. n -> Addresses \ {NULL}]
        BY <4>2 DEF Layout, Heap, Chain
      <4>5. r.bp = f[k]
        BY <3>2, <3>4, <4>3
      <4> QED BY <2>3, <4>4, <4>5
    <3>5. CASE ~ Spurious(size) /\ ~ Mm!Searches(h, asize)
      <4>1. h.brk # NULL
        BY SoundTypes DEF NULL
      <4> QED BY <2>3, <3>2, <3>5, <4>1
    <3> QED BY <3>3, <3>4, <3>5
  <2>4. ASSUME r.bp # NULL PROVE Grants(pkg, h, s, r, size)
    <3>1. MmFinds(h, s, f, n, r, size)
      BY <2>1, <2>2, <2>4, MmMallocFinds
    <3>2. /\ r.bp \notin DOMAIN s /\ r.heap.brk >= h.brk
          /\ Keeps(h.mem, r.heap.mem, DOMAIN s)
          /\ \E e, l : Held(r.heap, Sized(s, r.bp, size), e, l)
      BY <3>1 DEF MmFinds
    <3>3. Sound(pkg, r.heap, Sized(s, r.bp, size))
      BY <1>1, <3>2 DEF Sound
    <3>4. PICK T : T = DOMAIN s /\ T \in SUBSET DOMAIN s
      OBVIOUS
    <3>5. SamePayloads(h.mem, r.heap.mem, s, T)
      BY <2>1, <3>2, <3>4, MmPayloadsKept
    <3>6. DataKept(h.mem, r.heap.mem, s, T)
      BY <3>4, <3>5, SameIsKept
    <3> QED BY <3>2, <3>3, <3>4, <3>6 DEF Grants
  <2> QED BY <2>3, <2>4
<1>2. CASE pkg # "mm.c"
  <2>1. PICK D : Tidy(h, s, D)
    BY <1>2 DEF Sound
  <2>2. r = mm_malloc(h, size)
    BY <1>2 DEF MallocOf
  <2>3. ASSUME r.bp = NULL PROVE r.heap = h
    <3>1. PICK S : WellFormed(h, D, S)
      BY <2>1 DEF Tidy
    <3>2. r = [heap |-> h, bp |-> NULL] \/ r.bp # NULL
      BY <2>2, <3>1, Mallocs
    <3> QED BY <2>3, <3>2
  <2>4. ASSUME r.bp # NULL PROVE Grants(pkg, h, s, r, size)
    <3>1. Finds(h, s, r, size)
      BY <2>1, <2>2, <2>4, MallocFinds
    <3>2. PICK E : Awaits(r.heap, s, E, r.bp, size)
      BY <3>1 DEF Finds
    <3>3. Tidy(r.heap, Sized(s, r.bp, size), E)
      BY <3>2, AwaitedIsGood
    <3>4. Sound(pkg, r.heap, Sized(s, r.bp, size))
      BY <1>2, <3>3 DEF Sound
    <3>5. PICK T : T = DOMAIN s /\ T \in SUBSET DOMAIN s
      OBVIOUS
    <3>6. r.heap.brk >= h.brk /\ Kept(h.mem, r.heap.mem, T) /\ r.bp \notin DOMAIN s
      BY <3>1, <3>2, <3>5 DEF Finds, Awaits
    <3>7. SamePayloads(h.mem, r.heap.mem, s, T)
      BY <2>1, <3>5, <3>6, PayloadsKept
    <3>8. DataKept(h.mem, r.heap.mem, s, T)
      BY <3>5, <3>7, SameIsKept
    <3> QED BY <3>4, <3>5, <3>6, <3>8 DEF Grants
  <2> QED BY <2>3, <2>4
<1> QED BY <1>1, <1>2

(* mm_free leaves the other payloads alone.                                *)
Releases(pkg, h, s, g, p) ==
  /\ Sound(pkg, g, Unsized(s, p)) /\ g.brk = h.brk
  /\ DataKept(h.mem, g.mem, s, DOMAIN s \ {p})

LEMMA SoundFree ==
  ASSUME NEW pkg, NEW h, NEW s, Sound(pkg, h, s), NEW p \in DOMAIN s,
         NEW g, g = FreeOf(pkg, h, p)
  PROVE  Releases(pkg, h, s, g, p)
<1>1. PICK T : T = DOMAIN s \ {p} /\ T \in SUBSET DOMAIN s
  <2>1. DOMAIN s \ {p} \in SUBSET DOMAIN s
    OBVIOUS
  <2> QED BY <2>1
<1>2. CASE pkg = "mm.c"
  <2>1. PICK f, n : Held(h, s, f, n)
    BY <1>2 DEF Sound
  <2>2. g = Mm!mm_free(h, p)
    BY <1>2 DEF FreeOf
  <2>3. Returns(h, s, f, n, p, g)
    BY <2>1, <2>2, MmFreeStep
  <2>4. /\ \E e, l : Held(g, Unsized(s, p), e, l)
        /\ Keeps(h.mem, g.mem, T) /\ g.brk = h.brk
    BY <1>1, <2>3 DEF Returns
  <2>5. SamePayloads(h.mem, g.mem, s, T)
    BY <1>1, <2>1, <2>4, MmPayloadsKept
  <2>6. DataKept(h.mem, g.mem, s, T)
    BY <1>1, <2>5, SameIsKept
  <2> QED BY <1>1, <1>2, <2>4, <2>6 DEF Releases, Sound
<1>3. CASE pkg # "mm.c"
  <2>1. PICK D : Tidy(h, s, D)
    BY <1>3 DEF Sound
  <2>2. g = mm_free(h, p)
    BY <1>3 DEF FreeOf
  <2>3. (\E E : Tidy(g, Unsized(s, p), E)) /\ Kept(h.mem, g.mem, T)
    BY <1>1, <2>1, <2>2, FreeStep
  <2>4. g.brk = h.brk
    <3>1. PICK S : S = DOMAIN s /\ p \in S /\ WellFormed(h, D, S)
      BY <2>1 DEF Tidy
    <3> QED BY <2>2, <3>1, Freed
  <2>5. SamePayloads(h.mem, g.mem, s, T)
    BY <1>1, <2>1, <2>3, PayloadsKept
  <2>6. DataKept(h.mem, g.mem, s, T)
    BY <1>1, <2>5, SameIsKept
  <2> QED BY <1>1, <1>3, <2>3, <2>4, <2>6 DEF Releases, Sound
<1> QED BY <1>2, <1>3

(* mm_realloc changes nothing, or moves the data as far as they fit.       *)
Regrants(pkg, h, s, r, p, size) ==
  /\ Grants(pkg, h, Unsized(s, p), r, size) /\ r.bp \notin DOMAIN s
  /\ \A nth \in Nat : nth < PayloadWords(size) /\ nth < PayloadWords(s[p])
                        => r.heap.mem[r.bp + nth] = h.mem[p + nth]

\* NULL leaves the heap alone.
Declines(h, r) == r.bp = NULL => r.heap = h

LEMMA SoundRealloc ==
  ASSUME NEW pkg, pkg # "mm.c", NEW h, NEW s, Sound(pkg, h, s), NEW p \in DOMAIN s,
         NEW size \in Nat, NEW r, r = mm_realloc(h, p, size)
  PROVE  /\ Declines(h, r)
         /\ r.bp # NULL => Regrants(pkg, h, s, r, p, size)
<1>1. PICK D : Tidy(h, s, D)
  BY DEF Sound
<1>2. ASSUME r.bp = NULL PROVE r.heap = h
  <2>1. PICK S : WellFormed(h, D, S) /\ p \in S
    BY <1>1 DEF Tidy
  <2>2. r = [heap |-> h, bp |-> NULL] \/ Moves(h, S, p, size, r)
    BY <2>1, Reallocs
  <2> QED BY <1>2, <2>2 DEF Moves
<1>3. ASSUME r.bp # NULL PROVE Regrants(pkg, h, s, r, p, size)
  <2>1. PICK u : u = Unsized(s, p)
    OBVIOUS
  <2>2. /\ Finds(h, u, r, size) /\ r.bp \notin DOMAIN s
        /\ \A nth \in Nat : nth < PayloadWords(size) /\ nth < PayloadWords(s[p])
                              => r.heap.mem[r.bp + nth] = h.mem[p + nth]
    BY <1>1, <1>3, <2>1, ReallocFinds
  <2>3. PICK E : Awaits(r.heap, u, E, r.bp, size)
    BY <2>2 DEF Finds
  <2>4. Tidy(r.heap, Sized(u, r.bp, size), E)
    BY <2>3, AwaitedIsGood
  <2>5. Sound(pkg, r.heap, Sized(u, r.bp, size))
    BY <2>4 DEF Sound
  <2>6. PICK T : T = DOMAIN u /\ T \in SUBSET DOMAIN s
    BY <2>1 DEF Unsized
  <2>7. r.heap.brk >= h.brk /\ Kept(h.mem, r.heap.mem, T) /\ r.bp \notin DOMAIN u
    BY <2>2, <2>3, <2>6 DEF Finds, Awaits
  <2>8. SamePayloads(h.mem, r.heap.mem, s, T)
    BY <1>1, <2>6, <2>7, PayloadsKept
  <2>9. DataKept(h.mem, r.heap.mem, s, T)
    BY <2>6, <2>8, SameIsKept
  <2>10. DataKept(h.mem, r.heap.mem, u, T)
    <3>1. \A q \in T : u[q] = s[q]
      BY <2>1, <2>6 DEF Unsized
    <3> QED BY <2>9, <3>1 DEF DataKept
  <2>11. Grants(pkg, h, u, r, size)
    BY <2>5, <2>6, <2>7, <2>10 DEF Grants
  <2> QED BY <2>1, <2>2, <2>11 DEF Regrants
<1> QED BY <1>2, <1>3 DEF Declines

(* The driver writes to a payload.                                         *)
Marks(pkg, h, s, g, p, d) ==
  /\ Sound(pkg, g, s) /\ g.brk = h.brk
  /\ \A a \in Payload(p, s[p]) : g.mem[a] = d
  /\ DataKept(h.mem, g.mem, s, DOMAIN s \ {p})

LEMMA SoundFill ==
  ASSUME NEW pkg, NEW h, NEW s, Sound(pkg, h, s), NEW p \in DOMAIN s, NEW d \in Nat,
         NEW g, g = [h EXCEPT !.mem = Filled(@, Payload(p, s[p]), d)]
  PROVE  Marks(pkg, h, s, g, p, d)
<1>1. PICK W : W = Payload(p, s[p]) /\ W \subseteq Payload(p, s[p])
  OBVIOUS
<1>2. Sound(pkg, g, s) /\ g.mem = Filled(h.mem, W, d) /\ g.brk = h.brk
  <2>1. CASE pkg = "mm.c"
    <3>1. PICK f, n : Held(h, s, f, n)
      BY <2>1 DEF Sound
    <3>2. g = [h EXCEPT !.mem = Filled(h.mem, W, d)]
      BY <1>1
    <3>3. HeldStill(h, g, s, f, n, p, Filled(h.mem, W, d))
      BY <1>1, <3>1, <3>2, HeldFilled
    <3> QED BY <2>1, <3>3 DEF HeldStill, Sound
  <2>2. CASE pkg # "mm.c"
    <3>1. PICK D : Tidy(h, s, D)
      BY <2>2 DEF Sound
    <3>2. PICK u, size : u = Unsized(s, p) /\ size = s[p]
      OBVIOUS
    <3>3. DOMAIN u = DOMAIN s \ {p} /\ \A q \in DOMAIN s \ {p} : u[q] = s[q]
      BY <3>2 DEF Unsized
    <3>4. DOMAIN u \cup {p} = DOMAIN s
      BY <3>3
    <3>5. size \in Nat /\ ~ Spurious(size) /\ PayloadWords(size) + 2 <= Size(h.mem, p)
      <4>1. size \in Nat \ {0} /\ PayloadWords(size) + 2 <= Size(h.mem, p)
        BY <3>1, <3>2 DEF Tidy
      <4> QED BY <4>1, PayloadFacts
    <3>6. Awaits(h, u, D, p, size)
      BY <3>1, <3>3, <3>4, <3>5 DEF Awaits, Tidy
    <3>7. Writes(h, u, D, p, size, W, d)
      BY <1>1, <3>2, <3>6, WritesPayload
    <3>8. g = [h EXCEPT !.mem = Filled(h.mem, W, d)]
      BY <1>1
    <3>9. PICK t : t = Sized(u, p, size) /\ Tidy(g, t, D)
      BY <3>7, <3>8 DEF Writes
    <3>10. DOMAIN t = DOMAIN s /\ \A q \in DOMAIN s : t[q] = s[q]
      BY <3>2, <3>3, <3>9 DEF Sized
    <3>11. Tidy(g, s, D)
      BY <3>9, <3>10 DEF Tidy
    <3>12. g.mem = Filled(h.mem, W, d) /\ g.brk = h.brk
      <4>1. h \in [mem : [Addresses -> Nat], brk : 4 .. MAX_HEAP]
        BY <3>1 DEF Tidy, WellFormed
      <4> QED BY <3>8, <4>1
    <3> QED BY <2>2, <3>11, <3>12 DEF Sound
  <2> QED BY <2>1, <2>2
<1>3. h.mem \in [Addresses -> Nat] /\ h.brk \in Nat /\ h.brk <= MAX_HEAP
  BY SoundTypes, AddressFacts
<1>4. ASSUME NEW q \in DOMAIN s, NEW a \in Payload(q, s[q]) PROVE a \in Addresses
  <2>1. PICK w : w = PayloadWords(s[q])
    OBVIOUS
  <2>2. q \in Nat /\ w \in Nat /\ q + w < h.brk
    <3>1. SpotOf(h, s, q)
      BY SoundSpots
    <3> QED BY <2>1, <3>1 DEF SpotOf
  <2>3. a \in q .. q + w - 1
    BY <2>1 DEF Payload
  <2>4. a \in Nat /\ a < MAX_HEAP
    BY <1>3, <2>2, <2>3, AddressFacts
  <2> QED BY <2>4, AddressFacts
<1>5. \A a \in Payload(p, s[p]) : g.mem[a] = d
  BY <1>1, <1>2, <1>3, <1>4 DEF Filled
<1>6. ASSUME NEW q \in DOMAIN s \ {p}, NEW a \in Payload(q, s[q]) PROVE g.mem[a] = h.mem[a]
  <2>1. a \in Addresses
    BY <1>4
  <2>2. a \notin W
    BY <1>1, SoundApart
  <2> QED BY <1>2, <1>3, <2>1, <2>2 DEF Filled
<1> QED BY <1>2, <1>5, <1>6 DEF Marks, DataKept

----------------------------------------------------------------------------
(* The driver's tables: b has the pointers and z the sizes of the live     *)
(* indices L.                                                              *)

Maps(s, b, z, L) ==
  /\ DOMAIN s = {b[x] : x \in L} /\ \A x \in L : s[b[x]] = z[x]
  /\ \A x, y \in L : b[x] = b[y] => x = y

Owns(pkg, h, b, z, L) == \E s : Sound(pkg, h, s) /\ Maps(s, b, z, L)

\* The data of the indices L are the same in memory n as in m.
Unmoved(m, n, b, z, L) == \A x \in L : \A a \in Payload(b[x], z[x]) : n[a] = m[a]

\* Where the payload of x is.
LiesIn(h, b, z, L, x) ==
  /\ b[x] \in Nat /\ b[x] >= 2 /\ b[x] % 2 = 0 /\ z[x] \in Nat \ {0}
  /\ PayloadWords(z[x]) \in Nat /\ PayloadWords(z[x]) > 0
  /\ b[x] + PayloadWords(z[x]) < h.brk
  /\ \A y \in L : x # y => b[x] # b[y] /\ Payload(b[x], z[x]) \cap Payload(b[y], z[y]) = {}

LEMMA OwnsSpots ==
  ASSUME NEW pkg, NEW h, NEW b, NEW z, NEW L, Owns(pkg, h, b, z, L), NEW x \in L
  PROVE  LiesIn(h, b, z, L, x)
<1>1. PICK s : Sound(pkg, h, s) /\ Maps(s, b, z, L)
  BY DEF Owns
<1>2. PICK p : p = b[x]
  OBVIOUS
<1>3. p \in DOMAIN s /\ s[p] = z[x]
  BY <1>1, <1>2 DEF Maps
<1>4. SpotOf(h, s, p)
  BY <1>1, <1>3, SoundSpots
<1>5. ASSUME NEW y \in L, x # y
      PROVE  b[x] # b[y] /\ Payload(b[x], z[x]) \cap Payload(b[y], z[y]) = {}
  <2>1. PICK q : q = b[y]
    OBVIOUS
  <2>2. q \in DOMAIN s /\ s[q] = z[y] /\ p # q
    BY <1>1, <1>2, <1>5, <2>1 DEF Maps
  <2>3. Payload(p, s[p]) \cap Payload(q, s[q]) = {}
    BY <1>1, <1>3, <2>2, SoundApart
  <2> QED BY <1>2, <1>3, <2>1, <2>2, <2>3
<1> QED BY <1>2, <1>3, <1>4, <1>5 DEF SpotOf, LiesIn

\* Nothing is live after a reset.
LEMMA OwnsNone ==
  ASSUME NEW pkg, NEW h, h.mem \in [Addresses -> Nat], NEW b, NEW z
  PROVE  Owns(pkg, InitOf(pkg, h), b, z, {})
<1>1. PICK s : s = <<>> /\ DOMAIN s = {}
  <2>1. DOMAIN <<>> = {}
    OBVIOUS
  <2> QED BY <2>1
<1>2. Sound(pkg, InitOf(pkg, h), s)
  BY <1>1, SoundInit
<1>3. Maps(s, b, z, {})
  BY <1>1 DEF Maps
<1> QED BY <1>2, <1>3 DEF Owns

(* The steps of the allocator in the driver's terms.                       *)
OwnsMore(pkg, h, g, b, z, L, x, bp, size) ==
  /\ Owns(pkg, g, [b EXCEPT ![x] = bp], [z EXCEPT ![x] = size], L \cup {x})
  /\ g.brk >= h.brk /\ Unmoved(h.mem, g.mem, b, z, L \ {x})

LEMMA OwnsMalloc ==
  ASSUME NEW pkg, NEW h, NEW b \in [Indices -> Nat], NEW z \in [Indices -> Nat],
         NEW L \in SUBSET Indices, Owns(pkg, h, b, z, L), NEW x \in Indices, x \notin L,
         NEW size \in Nat, NEW r, r = MallocOf(pkg, h, size), r.bp # NULL
  PROVE  OwnsMore(pkg, h, r.heap, b, z, L, x, r.bp, size)
<1>1. PICK s : Sound(pkg, h, s) /\ Maps(s, b, z, L)
  BY DEF Owns
<1>2. PICK p, g : p = r.bp /\ g = r.heap
  OBVIOUS
<1>3. Grants(pkg, h, s, r, size)
  BY <1>1, SoundMalloc
<1>4. PICK t, c, y : t = Sized(s, p, size) /\ c = [b EXCEPT ![x] = p] /\ y = [z EXCEPT ![x] = size]
  OBVIOUS
<1>5. /\ p \notin DOMAIN s /\ Sound(pkg, g, t) /\ g.brk >= h.brk
      /\ DataKept(h.mem, g.mem, s, DOMAIN s)
  BY <1>2, <1>3, <1>4 DEF Grants
<1>6. /\ DOMAIN t = DOMAIN s \cup {p} /\ t[p] = size
      /\ \A q \in DOMAIN s : t[q] = s[q]
  BY <1>4, <1>5 DEF Sized
<1>7. c[x] = p /\ y[x] = size /\ \A k \in L : c[k] = b[k] /\ y[k] = z[k] /\ k # x
  BY <1>4
<1>8. /\ DOMAIN s = {b[k] : k \in L} /\ \A k \in L : s[b[k]] = z[k] /\ b[k] \in DOMAIN s
      /\ \A k, j \in L : b[k] = b[j] => k = j
  BY <1>1 DEF Maps
<1>9. Maps(t, c, y, L \cup {x})
  <2>1. DOMAIN t = {c[k] : k \in L \cup {x}}
    BY <1>6, <1>7, <1>8
  <2>2. \A k \in L \cup {x} : t[c[k]] = y[k]
    BY <1>6, <1>7, <1>8
  <2>3. \A k, j \in L \cup {x} : c[k] = c[j] => k = j
    BY <1>5, <1>7, <1>8
  <2> QED BY <2>1, <2>2, <2>3 DEF Maps
<1>10. Unmoved(h.mem, g.mem, b, z, L \ {x})
  BY <1>5, <1>8 DEF Unmoved, DataKept
<1> QED BY <1>2, <1>4, <1>5, <1>9, <1>10 DEF OwnsMore, Owns

OwnsLess(pkg, h, g, b, z, L, x) ==
  /\ Owns(pkg, g, b, z, L \ {x})
  /\ g.brk = h.brk /\ Unmoved(h.mem, g.mem, b, z, L \ {x})

LEMMA OwnsFree ==
  ASSUME NEW pkg, NEW h, NEW b, NEW z, NEW L, Owns(pkg, h, b, z, L), NEW x \in L,
         NEW g, g = FreeOf(pkg, h, b[x])
  PROVE  OwnsLess(pkg, h, g, b, z, L, x)
<1>1. PICK s : Sound(pkg, h, s) /\ Maps(s, b, z, L)
  BY DEF Owns
<1>2. PICK p, t : p = b[x] /\ t = Unsized(s, p)
  OBVIOUS
<1>3. /\ DOMAIN s = {b[k] : k \in L} /\ \A k \in L : s[b[k]] = z[k] /\ b[k] \in DOMAIN s
      /\ \A k, j \in L : b[k] = b[j] => k = j
  BY <1>1 DEF Maps
<1>4. Releases(pkg, h, s, g, p)
  BY <1>1, <1>2, <1>3, SoundFree
<1>5. /\ Sound(pkg, g, t) /\ g.brk = h.brk
      /\ DataKept(h.mem, g.mem, s, DOMAIN s \ {p})
  BY <1>2, <1>4 DEF Releases
<1>6. DOMAIN t = DOMAIN s \ {p} /\ \A q \in DOMAIN t : t[q] = s[q]
  BY <1>2 DEF Unsized
<1>7. \A k \in L \ {x} : b[k] \in DOMAIN s \ {p}
  BY <1>2, <1>3
<1>8. Maps(t, b, z, L \ {x})
  <2>1. DOMAIN t = {b[k] : k \in L \ {x}}
    BY <1>2, <1>3, <1>6, <1>7
  <2> QED BY <1>3, <1>6, <1>7, <2>1 DEF Maps
<1>9. Unmoved(h.mem, g.mem, b, z, L \ {x})
  BY <1>3, <1>5, <1>7 DEF Unmoved, DataKept
<1> QED BY <1>5, <1>8, <1>9 DEF OwnsLess, Owns

\* A reallocation moves the data as far as they fit.
Carried(m, n, p, q, old, size) ==
  \A k \in Nat : k < PayloadWords(size) /\ k < PayloadWords(old) => n[q + k] = m[p + k]

LEMMA OwnsRealloc ==
  ASSUME NEW pkg, pkg # "mm.c", NEW h, NEW b \in [Indices -> Nat], NEW z \in [Indices -> Nat],
         NEW L \in SUBSET Indices, Owns(pkg, h, b, z, L), NEW x \in L,
         NEW size \in Nat, NEW r, r = mm_realloc(h, b[x], size), r.bp # NULL
  PROVE  /\ OwnsMore(pkg, h, r.heap, b, z, L, x, r.bp, size)
         /\ Carried(h.mem, r.heap.mem, b[x], r.bp, z[x], size)
<1>1. PICK s : Sound(pkg, h, s) /\ Maps(s, b, z, L)
  BY DEF Owns
<1>2. PICK p, q, g : p = b[x] /\ q = r.bp /\ g = r.heap
  OBVIOUS
<1>3. /\ DOMAIN s = {b[k] : k \in L} /\ \A k \in L : s[b[k]] = z[k] /\ b[k] \in DOMAIN s
      /\ \A k, j \in L : b[k] = b[j] => k = j
  BY <1>1 DEF Maps
<1>4. p \in DOMAIN s /\ s[p] = z[x]
  BY <1>2, <1>3
<1>5. Regrants(pkg, h, s, r, p, size)
  BY <1>1, <1>2, <1>4, SoundRealloc
<1>6. PICK u : u = Unsized(s, p) /\ DOMAIN u = DOMAIN s \ {p} /\ \A k \in DOMAIN u : u[k] = s[k]
  <2>1. /\ DOMAIN Unsized(s, p) = DOMAIN s \ {p}
        /\ \A k \in DOMAIN Unsized(s, p) : Unsized(s, p)[k] = s[k]
    BY DEF Unsized
  <2> QED BY <2>1
<1>7. PICK t, c, y : t = Sized(u, q, size) /\ c = [b EXCEPT ![x] = q] /\ y = [z EXCEPT ![x] = size]
  OBVIOUS
<1>8. /\ q \notin DOMAIN s /\ Sound(pkg, g, t) /\ g.brk >= h.brk
      /\ DataKept(h.mem, g.mem, u, DOMAIN u)
  BY <1>2, <1>5, <1>6, <1>7 DEF Regrants, Grants
<1>9. /\ DOMAIN t = DOMAIN u \cup {q} /\ t[q] = size
      /\ \A k \in DOMAIN u : t[k] = s[k]
  BY <1>6, <1>7, <1>8 DEF Sized
<1>10. /\ c[x] = q /\ y[x] = size
       /\ \A k \in L \ {x} : c[k] = b[k] /\ y[k] = z[k] /\ b[k] \in DOMAIN u
  BY <1>2, <1>3, <1>6, <1>7
<1>11. L \cup {x} = L
  OBVIOUS
<1>12. Maps(t, c, y, L)
  <2>1. DOMAIN t = {c[k] : k \in L}
    <3>1. DOMAIN u = {b[k] : k \in L \ {x}}
      BY <1>2, <1>3, <1>6
    <3>2. \A a : a \in DOMAIN t <=> a \in DOMAIN u \/ a = q
      BY <1>9
    <3> QED BY <1>10, <3>1, <3>2
  <2>2. \A k \in L : t[c[k]] = y[k]
    BY <1>3, <1>9, <1>10
  <2>3. \A k, j \in L : c[k] = c[j] => k = j
    BY <1>3, <1>6, <1>8, <1>10
  <2> QED BY <2>1, <2>2, <2>3 DEF Maps
<1>13. Unmoved(h.mem, g.mem, b, z, L \ {x})
  BY <1>3, <1>6, <1>8, <1>10 DEF Unmoved, DataKept
<1>14. OwnsMore(pkg, h, g, b, z, L, x, q, size)
  BY <1>7, <1>8, <1>11, <1>12, <1>13 DEF OwnsMore, Owns
<1>15. Carried(h.mem, r.heap.mem, b[x], r.bp, z[x], size)
  BY <1>2, <1>4, <1>5 DEF Regrants, Carried
<1> QED BY <1>2, <1>14, <1>15

Overwritten(pkg, h, g, b, z, L, x, d) ==
  /\ Owns(pkg, g, b, z, L) /\ g.brk = h.brk /\ Unmoved(h.mem, g.mem, b, z, L \ {x})
  /\ \A a \in Payload(b[x], z[x]) : g.mem[a] = d

LEMMA OwnsFill ==
  ASSUME NEW pkg, NEW h, NEW b, NEW z, NEW L, Owns(pkg, h, b, z, L), NEW x \in L,
         NEW d \in Nat, NEW g, g = [h EXCEPT !.mem = Filled(@, Payload(b[x], z[x]), d)]
  PROVE  Overwritten(pkg, h, g, b, z, L, x, d)
<1>1. PICK s : Sound(pkg, h, s) /\ Maps(s, b, z, L)
  BY DEF Owns
<1>2. PICK p : p = b[x]
  OBVIOUS
<1>3. /\ DOMAIN s = {b[k] : k \in L} /\ \A k \in L : s[b[k]] = z[k] /\ b[k] \in DOMAIN s
      /\ \A k, j \in L : b[k] = b[j] => k = j
  BY <1>1 DEF Maps
<1>4. p \in DOMAIN s /\ s[p] = z[x]
  BY <1>2, <1>3
<1>5. g = [h EXCEPT !.mem = Filled(@, Payload(p, s[p]), d)]
  BY <1>2, <1>4
<1>6. Marks(pkg, h, s, g, p, d)
  BY <1>1, <1>4, <1>5, SoundFill
<1>7. /\ Sound(pkg, g, s) /\ g.brk = h.brk
      /\ \A a \in Payload(p, s[p]) : g.mem[a] = d
      /\ DataKept(h.mem, g.mem, s, DOMAIN s \ {p})
  BY <1>6 DEF Marks
<1>8. \A k \in L \ {x} : b[k] \in DOMAIN s \ {p}
  BY <1>2, <1>3
<1>9. Unmoved(h.mem, g.mem, b, z, L \ {x})
  BY <1>3, <1>7, <1>8 DEF Unmoved, DataKept
<1> QED BY <1>1, <1>2, <1>4, <1>7, <1>9 DEF Owns, Overwritten

----------------------------------------------------------------------------
(* Traces.                                                                 *)

DriverNumbers ==
  /\ num_tracefiles \in Nat /\ OpBound \in Nat /\ REPEATS \in Nat \ {0}
  /\ \A x : x \in Indices <=> x \in Nat /\ x < OpBound
  /\ \A size \in OpSizes : size \in Nat \ {0} /\ size = 4 * PayloadWords(size)

LEMMA DriverFacts == DriverNumbers
<1>1. /\ num_tracefiles \in Nat /\ OpBound \in Nat /\ REPEATS \in Nat \ {0}
      /\ OpSizes \subseteq {4 * n : n \in 1 .. MAX_HEAP} /\ MAX_HEAP \in Nat
  BY MdriverAssumption, AddressFacts
<1>2. ASSUME NEW size \in OpSizes PROVE size \in Nat \ {0} /\ size = 4 * PayloadWords(size)
  <2>1. PICK n \in 1 .. MAX_HEAP : size = 4 * n
    BY <1>1
  <2>2. n \in Nat /\ n > 0 /\ (4 * n + 3) \div 4 = n
    BY <1>1
  <2> QED BY <2>1, <2>2 DEF PayloadWords
<1> QED BY <1>1, <1>2 DEF DriverNumbers, Indices

\* The operations of type t among the first m, by their indices.
IndicesTo(ops, m, t) == {ops[k].index : k \in {j \in 1 .. m : ops[j].type = t}}

(* A trace of n operations.                                                *)
TraceOf(ops, n) ==
  /\ n \in Nat /\ n <= OpBound /\ Len(ops) = n /\ DOMAIN ops = 1 .. n
  /\ ops \in [1 .. n -> Operations]
  /\ \A k \in 1 .. n : ops[k] \in NextOps(SubSeq(ops, 1, k - 1))

LEMMA TraceIs ==
  ASSUME NEW ops \in Traces
  PROVE  \E n : TraceOf(ops, n)
<1>1. PICK n \in 0 .. OpBound : ops \in [1 .. n -> Operations]
  BY DEF Traces
<1>2. n \in Nat /\ n <= OpBound /\ DOMAIN ops = 1 .. n
  BY <1>1, DriverFacts DEF DriverNumbers
<1>3. ops \in Seq(Operations) /\ Len(ops) = n
  BY <1>1, <1>2
<1>4. \A k \in DOMAIN ops : ops[k] \in NextOps(SubSeq(ops, 1, k - 1))
  BY DEF Traces
<1> QED BY <1>1, <1>2, <1>3, <1>4 DEF TraceOf

LEMMA PrefixIs ==
  ASSUME NEW ops, NEW n, TraceOf(ops, n), NEW m \in 0 .. n, NEW t
  PROVE  IndicesOf(SubSeq(ops, 1, m), t) = IndicesTo(ops, m, t)
<1>1. n \in Nat /\ ops \in [1 .. n -> Operations]
  BY DEF TraceOf
<1>2. \A j \in 1 .. m : ops[j] \in Operations
  BY <1>1
<1>3. PICK q : q = SubSeq(ops, 1, m)
  OBVIOUS
<1>4. /\ q \in Seq(Operations) /\ Len(q) = IF 1 <= m THEN m - 1 + 1 ELSE 0
      /\ \A j \in 1 .. m - 1 + 1 : q[j] = ops[1 + j - 1]
  BY <1>1, <1>2, <1>3, SubSeqProperties
<1>5. DOMAIN q = 1 .. m /\ \A j \in 1 .. m : q[j] = ops[j]
  BY <1>1, <1>4
<1>6. {j \in DOMAIN q : q[j].type = t} = {j \in 1 .. m : ops[j].type = t}
  BY <1>5
<1> QED BY <1>3, <1>5, <1>6 DEF IndicesOf, IndicesTo

LEMMA OneMore ==
  ASSUME NEW ops, NEW m \in Nat \ {0}, NEW t
  PROVE  IndicesTo(ops, m, t) =
           IndicesTo(ops, m - 1, t) \cup (IF ops[m].type = t THEN {ops[m].index} ELSE {})
<1>1. 1 .. m = (1 .. m - 1) \cup {m}
  OBVIOUS
<1>2. {j \in 1 .. m : ops[j].type = t} =
        {j \in 1 .. m - 1 : ops[j].type = t} \cup (IF ops[m].type = t THEN {m} ELSE {})
  BY <1>1
<1> QED BY <1>2 DEF IndicesTo

\* An operation has the type, the index and the size that read_trace allows.
OpFits(op) ==
  /\ op.type \in {"a", "r", "f"} /\ op.index \in Indices
  /\ op.type # "f" => op.size \in OpSizes
  /\ op.type = "f" => op.size = 0

LEMMA OperationsFit ==
  ASSUME NEW op \in Operations
  PROVE  OpFits(op)
<1>1. CASE op \in {Op(type, x, size) : type \in {"a", "r"}, x \in Indices, size \in OpSizes}
  <2>1. PICK type \in {"a", "r"}, x \in Indices, size \in OpSizes : op = Op(type, x, size)
    BY <1>1
  <2> QED BY <2>1 DEF Op, OpFits
<1>2. CASE op \in {Op("f", x, 0) : x \in Indices}
  BY <1>2 DEF Op, OpFits
<1> QED BY <1>1, <1>2 DEF Operations

\* What may follow, from the operations before it.
LEMMA Follows ==
  ASSUME NEW ops, NEW op \in NextOps(ops)
  PROVE  \/ op.type = "a" /\ op.index = Cardinality(IndicesOf(ops, "a"))
         \/ op.type \in {"r", "f"} /\ op.index \in LiveIn(ops)
<1>1. CASE op \in {Op("a", Cardinality(IndicesOf(ops, "a")), size) : size \in OpSizes}
  BY <1>1 DEF Op
<1>2. CASE op \in {Op("r", x, size) : x \in LiveIn(ops), size \in OpSizes}
  BY <1>2 DEF Op
<1>3. CASE op \in {Op("f", x, 0) : x \in LiveIn(ops)}
  BY <1>3 DEF Op
<1> QED BY <1>1, <1>2, <1>3 DEF NextOps

(* The indices are allocated in order, and freed once allocated.           *)
InOrder(ops, m) ==
  /\ \E c \in Nat : IndicesTo(ops, m, "a") = 0 .. c - 1
  /\ IndicesTo(ops, m, "f") \subseteq IndicesTo(ops, m, "a")

\* What an operation does to the live indices L.
LiveStep(op, L, M) ==
  /\ op.type = "a" => op.index \notin L /\ M = L \cup {op.index}
  /\ op.type = "r" => op.index \in L /\ M = L
  /\ op.type = "f" => op.index \in L /\ M = L \ {op.index}

LEMMA OrderStep ==
  ASSUME NEW ops, NEW n, TraceOf(ops, n), NEW m \in 1 .. n, InOrder(ops, m - 1)
  PROVE  /\ InOrder(ops, m)
         /\ LiveStep(ops[m], LiveIn(SubSeq(ops, 1, m - 1)), LiveIn(SubSeq(ops, 1, m)))
<1>1. PICK X, F, B, G : /\ X = IndicesTo(ops, m - 1, "a") /\ F = IndicesTo(ops, m - 1, "f")
                        /\ B = IndicesTo(ops, m, "a") /\ G = IndicesTo(ops, m, "f")
  OBVIOUS
<1>2. PICK op : op = ops[m]
  OBVIOUS
<1>3. m \in Nat \ {0} /\ m - 1 \in 0 .. n /\ m \in 0 .. n /\ n \in Nat
  BY DEF TraceOf
<1>4. /\ B = X \cup (IF op.type = "a" THEN {op.index} ELSE {})
      /\ G = F \cup (IF op.type = "f" THEN {op.index} ELSE {})
  BY <1>1, <1>2, <1>3, OneMore
<1>5. /\ IndicesOf(SubSeq(ops, 1, m - 1), "a") = X /\ IndicesOf(SubSeq(ops, 1, m - 1), "f") = F
      /\ IndicesOf(SubSeq(ops, 1, m), "a") = B /\ IndicesOf(SubSeq(ops, 1, m), "f") = G
  BY <1>1, <1>3, PrefixIs
<1>6. LiveIn(SubSeq(ops, 1, m - 1)) = X \ F /\ LiveIn(SubSeq(ops, 1, m)) = B \ G
  BY <1>5 DEF LiveIn
<1>7. PICK c \in Nat : X = 0 .. c - 1
  BY <1>1 DEF InOrder
<1>8. F \subseteq X
  BY <1>1 DEF InOrder
<1>9. Cardinality(X) = c
  <2>1. Cardinality(0 .. c - 1) = IF 0 > c - 1 THEN 0 ELSE c - 1 - 0 + 1
    BY FS_Interval
  <2> QED BY <1>7, <2>1
<1>10. op \in NextOps(SubSeq(ops, 1, m - 1))
  BY <1>2 DEF TraceOf
<1>11. \/ op.type = "a" /\ op.index = c
       \/ op.type \in {"r", "f"} /\ op.index \in X \ F
  BY <1>5, <1>6, <1>9, <1>10, Follows
<1>12. CASE op.type = "a" /\ op.index = c
  <2>1. B = 0 .. (c + 1) - 1 /\ G = F /\ c + 1 \in Nat /\ c \notin X
    BY <1>4, <1>7, <1>12
  <2>2. InOrder(ops, m)
    BY <1>1, <1>4, <1>8, <2>1 DEF InOrder
  <2>3. op.index \notin X \ F /\ B \ G = (X \ F) \cup {op.index}
    BY <1>4, <1>8, <1>12, <2>1
  <2> QED BY <1>2, <1>6, <1>12, <2>2, <2>3 DEF LiveStep
<1>13. CASE op.type = "r" /\ op.index \in X \ F
  <2>1. B = X /\ G = F
    BY <1>4, <1>13
  <2>2. InOrder(ops, m)
    BY <1>1, <1>7, <1>8, <2>1 DEF InOrder
  <2> QED BY <1>2, <1>6, <1>13, <2>1, <2>2 DEF LiveStep
<1>14. CASE op.type = "f" /\ op.index \in X \ F
  <2>1. B = X /\ G = F \cup {op.index}
    BY <1>4, <1>14
  <2>2. InOrder(ops, m)
    BY <1>1, <1>7, <1>8, <1>14, <2>1 DEF InOrder
  <2>3. B \ G = (X \ F) \ {op.index}
    BY <2>1
  <2> QED BY <1>2, <1>6, <1>14, <2>2, <2>3 DEF LiveStep
<1> QED BY <1>11, <1>12, <1>13, <1>14

LEMMA AlwaysInOrder ==
  ASSUME NEW ops, NEW n, TraceOf(ops, n), NEW m \in 0 .. n
  PROVE  InOrder(ops, m)
<1> DEFINE Bad == {k \in 0 .. n : ~ InOrder(ops, k)}
<1>1. n \in Nat
  BY DEF TraceOf
<1> SUFFICES ASSUME Bad # {} PROVE FALSE
  OBVIOUS
<1>2. Bad \in SUBSET Nat
  BY <1>1
<1>3. PICK k \in Bad : \A j \in Bad : k <= j
  BY <1>2, LeastNat
<1>4. k # 0
  <2>1. IndicesTo(ops, 0, "a") = {} /\ IndicesTo(ops, 0, "f") = {}
    BY DEF IndicesTo
  <2>2. {} = 0 .. 0 - 1 /\ 0 \in Nat
    OBVIOUS
  <2>3. InOrder(ops, 0)
    BY <2>1, <2>2 DEF InOrder
  <2> QED BY <2>3
<1>5. k \in 1 .. n /\ k - 1 \in 0 .. n /\ k - 1 < k
  BY <1>1, <1>4
<1>6. InOrder(ops, k - 1)
  BY <1>1, <1>3, <1>5
<1>7. InOrder(ops, k)
  BY <1>5, <1>6, OrderStep
<1> QED BY <1>7

(* The live indices after m operations.                                    *)
LiveAt(ops, m) == LiveIn(SubSeq(ops, 1, m))

LEMMA LiveFacts ==
  ASSUME NEW ops, NEW n, TraceOf(ops, n), NEW m \in 0 .. n
  PROVE  LiveAt(ops, m) \in SUBSET Indices
<1>1. LiveAt(ops, m) \subseteq IndicesTo(ops, m, "a")
  BY PrefixIs DEF LiveAt, LiveIn
<1>2. ASSUME NEW k \in 1 .. m PROVE ops[k].index \in Indices
  <2>1. k \in 1 .. n /\ ops \in [1 .. n -> Operations]
    BY DEF TraceOf
  <2>2. OpFits(ops[k])
    BY <2>1, OperationsFit
  <2> QED BY <2>2 DEF OpFits
<1>3. IndicesTo(ops, m, "a") \subseteq Indices
  BY <1>2 DEF IndicesTo
<1> QED BY <1>1, <1>3

LEMMA NoneAtFirst ==
  ASSUME NEW ops \in Traces
  PROVE  LiveAt(ops, 0) = {}
<1>1. PICK n : TraceOf(ops, n)
  BY TraceIs
<1>2. 0 \in 0 .. n
  BY <1>1 DEF TraceOf
<1>3. IndicesOf(SubSeq(ops, 1, 0), "a") = IndicesTo(ops, 0, "a")
  BY <1>1, <1>2, PrefixIs
<1>4. IndicesTo(ops, 0, "a") = {}
  BY DEF IndicesTo
<1> QED BY <1>3, <1>4 DEF LiveAt, LiveIn

(* The nth operation of a trace.                                           *)
NthOf(ops, nth, op, L, M) ==
  /\ OpFits(op) /\ LiveStep(op, L, M)
  /\ L \in SUBSET Indices /\ M \in SUBSET Indices
  /\ nth \in Nat /\ nth <= OpBound
  /\ op.type = "r" => IndicesOf(ops, "r") # {}

LEMMA NthFacts ==
  ASSUME NEW ops \in Traces, NEW nth \in 1 .. Len(ops)
  PROVE  NthOf(ops, nth, ops[nth], LiveAt(ops, nth - 1), LiveAt(ops, nth))
<1>1. PICK n : TraceOf(ops, n)
  BY TraceIs
<1>2. /\ n \in Nat /\ n <= OpBound /\ nth \in 1 .. n /\ ops \in [1 .. n -> Operations]
      /\ DOMAIN ops = 1 .. n /\ OpBound \in Nat
  BY <1>1, DriverFacts DEF TraceOf, DriverNumbers
<1>3. nth - 1 \in 0 .. n /\ nth \in 0 .. n /\ nth \in Nat /\ nth <= OpBound
  BY <1>2
<1>4. OpFits(ops[nth])
  BY <1>2, OperationsFit
<1>5. InOrder(ops, nth - 1)
  BY <1>1, <1>3, AlwaysInOrder
<1>6. LiveStep(ops[nth], LiveIn(SubSeq(ops, 1, nth - 1)), LiveIn(SubSeq(ops, 1, nth)))
  BY <1>1, <1>2, <1>5, OrderStep
<1>7. LiveAt(ops, nth - 1) \in SUBSET Indices /\ LiveAt(ops, nth) \in SUBSET Indices
  BY <1>1, <1>3, LiveFacts
<1>8. ops[nth].type = "r" => IndicesOf(ops, "r") # {}
  BY <1>2 DEF IndicesOf
<1> QED BY <1>3, <1>4, <1>6, <1>7, <1>8 DEF NthOf, LiveAt

----------------------------------------------------------------------------
(* The total of the sizes z of the indices L, by partial sums.             *)

PartialSums(f, z, L) ==
  /\ f \in [0 .. OpBound -> Nat] /\ f[0] = 0
  /\ \A k \in Indices : f[k + 1] = f[k] + (IF k \in L THEN z[k] ELSE 0)

SumIs(z, L, t) == \E f : PartialSums(f, z, L) /\ t = f[OpBound]

LEMMA SumOfNone ==
  ASSUME NEW z
  PROVE  SumIs(z, {}, 0)
<1>1. PICK f : f = [k \in 0 .. OpBound |-> 0]
  OBVIOUS
<1>2. OpBound \in Nat /\ \A k \in Indices : k \in Nat /\ k < OpBound
  BY DriverFacts DEF DriverNumbers
<1>3. \A k \in Indices : k \in 0 .. OpBound /\ k + 1 \in 0 .. OpBound
  BY <1>2
<1>4. PartialSums(f, z, {}) /\ 0 = f[OpBound]
  BY <1>1, <1>2, <1>3 DEF PartialSums
<1> QED BY <1>4 DEF SumIs

\* The sums beyond an index count it.
LEMMA SumsCount ==
  ASSUME NEW f, NEW z \in [Indices -> Nat], NEW L, PartialSums(f, z, L), NEW x \in L,
         x \in Indices
  PROVE  \A k \in 0 .. OpBound : k > x => f[k] >= z[x]
<1> DEFINE Bad == {k \in 0 .. OpBound : k > x /\ ~ f[k] >= z[x]}
<1>1. OpBound \in Nat /\ x \in Nat /\ \A k : k \in Indices <=> k \in Nat /\ k < OpBound
  BY DriverFacts DEF DriverNumbers
<1>2. z[x] \in Nat /\ \A k \in 0 .. OpBound : f[k] \in Nat
  BY DEF PartialSums
<1> SUFFICES ASSUME Bad # {} PROVE FALSE
  OBVIOUS
<1>3. Bad \in SUBSET Nat
  BY <1>1
<1>4. PICK k \in Bad : \A j \in Bad : k <= j
  BY <1>3, LeastNat
<1>5. PICK j : j = k - 1
  OBVIOUS
<1>6. j \in Nat /\ k = j + 1 /\ j \in Indices /\ j \in 0 .. OpBound /\ j >= x
  BY <1>1, <1>4, <1>5
<1>7. f[k] = f[j] + (IF j \in L THEN z[j] ELSE 0)
  BY <1>6 DEF PartialSums
<1>8. CASE j = x
  <2>1. f[k] = f[j] + z[x]
    BY <1>7, <1>8
  <2> QED BY <1>2, <1>4, <1>6, <2>1
<1>9. CASE j > x
  <2>1. f[j] >= z[x]
    <3>1. j \notin Bad
      BY <1>4, <1>6
    <3> QED BY <1>6, <1>9, <3>1
  <2>2. z[j] \in Nat /\ f[j] \in Nat /\ f[k] \in Nat
    BY <1>2, <1>4, <1>6
  <2> QED BY <1>2, <1>4, <1>7, <2>1, <2>2
<1> QED BY <1>1, <1>6, <1>8, <1>9

(* One index is added, removed or resized.                                 *)
Changed(z, L, t, v, w) == t \in Nat /\ t >= v /\ SumIs(z, L, t - v + w)

LEMMA SumChange ==
  ASSUME NEW z \in [Indices -> Nat], NEW L, NEW t, SumIs(z, L, t),
         NEW x \in Indices, NEW y, NEW M, NEW v \in Nat, NEW w \in Nat,
         v = (IF x \in L THEN z[x] ELSE 0), w = (IF x \in M THEN y[x] ELSE 0),
         \A k \in Indices \ {x} : (k \in M <=> k \in L) /\ (k \in L => y[k] = z[k])
  PROVE  Changed(y, M, t, v, w)
<1>1. PICK f : PartialSums(f, z, L) /\ t = f[OpBound]
  BY DEF SumIs
<1>2. OpBound \in Nat /\ x \in Nat /\ x < OpBound
      /\ \A k : k \in Indices <=> k \in Nat /\ k < OpBound
  BY DriverFacts DEF DriverNumbers
<1>3. f \in [0 .. OpBound -> Nat] /\ f[0] = 0
  BY <1>1 DEF PartialSums
<1>4. \A k \in 0 .. OpBound : k > x => f[k] >= v
  <2>1. CASE x \in L
    BY <1>1, <2>1, SumsCount
  <2>2. CASE x \notin L
    BY <1>3, <2>2
  <2> QED BY <2>1, <2>2
<1>5. PICK g : g = [k \in 0 .. OpBound |-> IF k > x THEN f[k] - v + w ELSE f[k]]
  OBVIOUS
<1>6. g \in [0 .. OpBound -> Nat] /\ g[0] = 0
  <2>1. ASSUME NEW k \in 0 .. OpBound PROVE g[k] \in Nat
    <3>1. f[k] \in Nat
      BY <1>3
    <3> QED BY <1>2, <1>4, <1>5, <3>1
  <2>2. g[0] = 0
    BY <1>2, <1>3, <1>5
  <2> QED BY <1>5, <2>1, <2>2
<1>7. ASSUME NEW k \in Indices PROVE g[k + 1] = g[k] + (IF k \in M THEN y[k] ELSE 0)
  <2>1. PICK j : j = k + 1
    OBVIOUS
  <2>2. k \in Nat /\ k \in 0 .. OpBound /\ j \in Nat /\ j \in 0 .. OpBound
    BY <1>2, <2>1
  <2>3. f[j] = f[k] + (IF k \in L THEN z[k] ELSE 0)
    BY <1>1, <2>1 DEF PartialSums
  <2>4. PICK c : c = IF k \in L THEN z[k] ELSE 0
    OBVIOUS
  <2>5. c \in Nat /\ f[k] \in Nat /\ f[j] \in Nat /\ f[j] = f[k] + c
    BY <1>3, <2>2, <2>3, <2>4
  <2>6. /\ g[j] = IF j > x THEN f[j] - v + w ELSE f[j]
        /\ g[k] = IF k > x THEN f[k] - v + w ELSE f[k]
    BY <1>5, <2>2
  <2>7. CASE k = x
    <3>1. c = v
      BY <2>4, <2>7
    <3>2. g[j] = g[k] + w
      BY <1>2, <2>1, <2>2, <2>5, <2>6, <2>7, <3>1
    <3> QED BY <2>1, <2>7, <3>2
  <2>8. CASE k # x
    <3>1. (IF k \in M THEN y[k] ELSE 0) = c
      BY <2>4, <2>8
    <3>2. j > x <=> k > x
      BY <1>2, <2>1, <2>2, <2>8
    <3>3. g[j] = g[k] + c
      BY <2>5, <2>6, <3>2
    <3> QED BY <2>1, <3>1, <3>3
  <2> QED BY <2>7, <2>8
<1>8. PartialSums(g, y, M)
  BY <1>6, <1>7 DEF PartialSums
<1>9. OpBound \in 0 .. OpBound /\ OpBound > x
  BY <1>2
<1>10. t \in Nat /\ t >= v /\ t - v + w = g[OpBound]
  BY <1>1, <1>3, <1>4, <1>5, <1>9
<1> QED BY <1>8, <1>10 DEF SumIs, Changed

(* The words of the payloads with an index below k.                        *)
WordsTo(b, z, L, k) == {a \in Nat : \E x \in L : x < k /\ a \in Payload(b[x], z[x])}

Counts(f, b, z, L, k) ==
  /\ IsFiniteSet(WordsTo(b, z, L, k)) /\ 4 * Cardinality(WordsTo(b, z, L, k)) = f[k]

LEMMA WordsCounted ==
  ASSUME NEW pkg, NEW h, NEW b, NEW z, NEW L \in SUBSET Indices, Owns(pkg, h, b, z, L),
         \A x \in L : z[x] \in OpSizes, NEW f, PartialSums(f, z, L)
  PROVE  \A k \in 0 .. OpBound : Counts(f, b, z, L, k)
<1> DEFINE Bad == {k \in 0 .. OpBound : ~ Counts(f, b, z, L, k)}
<1>1. OpBound \in Nat /\ \A k : k \in Indices <=> k \in Nat /\ k < OpBound
  BY DriverFacts DEF DriverNumbers
<1>2. \A x \in L : x \in Nat /\ x < OpBound
  BY <1>1
<1> SUFFICES ASSUME Bad # {} PROVE FALSE
  OBVIOUS
<1>3. Bad \in SUBSET Nat
  BY <1>1
<1>4. PICK k \in Bad : \A j \in Bad : k <= j
  BY <1>3, LeastNat
<1>5. k # 0
  <2>1. WordsTo(b, z, L, 0) = {}
    BY <1>2 DEF WordsTo
  <2>2. IsFiniteSet(WordsTo(b, z, L, 0)) /\ Cardinality(WordsTo(b, z, L, 0)) = 0
    BY <2>1, FS_EmptySet
  <2>3. f[0] = 0
    BY DEF PartialSums
  <2>4. Counts(f, b, z, L, 0)
    BY <2>2, <2>3 DEF Counts
  <2> QED BY <2>4
<1>6. PICK x : x = k - 1
  OBVIOUS
<1>7. x \in Nat /\ k = x + 1 /\ x \in Indices /\ x \in 0 .. OpBound /\ x < k
  BY <1>1, <1>4, <1>5, <1>6
<1>8. f[k] = f[x] + (IF x \in L THEN z[x] ELSE 0)
  BY <1>7 DEF PartialSums
<1>9. PICK W, V : W = WordsTo(b, z, L, x) /\ V = WordsTo(b, z, L, k)
  OBVIOUS
<1>10. IsFiniteSet(W) /\ 4 * Cardinality(W) = f[x]
  <2>1. Counts(f, b, z, L, x)
    <3>1. x \notin Bad
      BY <1>4, <1>7
    <3> QED BY <1>7, <3>1
  <2> QED BY <1>9, <2>1 DEF Counts
<1>11. f[x] \in Nat /\ f[k] \in Nat
  BY <1>4, <1>7 DEF PartialSums
<1>12. \A y \in L : y < k <=> y < x \/ y = x
  BY <1>2, <1>7
<1>13. CASE x \notin L
  <2>1. V = W
    BY <1>9, <1>12, <1>13 DEF WordsTo
  <2>2. f[k] = f[x]
    BY <1>8, <1>11, <1>13
  <2>3. Counts(f, b, z, L, k)
    BY <1>9, <1>10, <2>1, <2>2 DEF Counts
  <2> QED BY <2>3
<1>14. CASE x \in L
  <2>1. PICK p, w : p = b[x] /\ w = PayloadWords(z[x])
    OBVIOUS
  <2>2. /\ p \in Nat /\ w \in Nat /\ w > 0
        /\ \A y \in L : x # y => Payload(b[x], z[x]) \cap Payload(b[y], z[y]) = {}
    <3>1. LiesIn(h, b, z, L, x)
      BY <1>14, OwnsSpots
    <3> QED BY <2>1, <3>1 DEF LiesIn
  <2>3. PICK P : P = Payload(b[x], z[x]) /\ P = p .. p + w - 1
    BY <2>1 DEF Payload
  <2>4. IsFiniteSet(P) /\ Cardinality(P) = w
    <3>1. PICK e : e = p + w - 1 /\ p \in Int /\ e \in Int
      BY <2>2
    <3>2. IsFiniteSet(p .. e) /\ Cardinality(p .. e) = IF p > e THEN 0 ELSE e - p + 1
      BY <3>1, FS_Interval
    <3>3. ~ p > e /\ e - p + 1 = w
      BY <2>2, <3>1
    <3> QED BY <2>3, <3>1, <3>2, <3>3
  <2>5. V = W \cup P
    <3>1. P \subseteq Nat
      BY <2>2, <2>3
    <3> QED BY <1>9, <1>12, <1>14, <2>3, <3>1 DEF WordsTo
  <2>6. W \cap P = {}
    <3>1. \A y \in L : y < x => y # x
      BY <1>2, <1>7
    <3> QED BY <1>9, <2>2, <2>3, <3>1 DEF WordsTo
  <2>7. IsFiniteSet(V) /\ Cardinality(V) = Cardinality(W) + w
    <3>1. /\ IsFiniteSet(W \cup P)
          /\ Cardinality(W \cup P) = Cardinality(W) + Cardinality(P) - Cardinality(W \cap P)
      BY <1>10, <2>4, FS_Union
    <3>2. Cardinality(W \cap P) = 0
      BY <2>6, FS_EmptySet
    <3>3. Cardinality(W) \in Nat
      BY <1>10, FS_CardinalityType
    <3> QED BY <2>2, <2>4, <2>5, <3>1, <3>2, <3>3
  <2>8. Cardinality(W) \in Nat
    BY <1>10, FS_CardinalityType
  <2>9. z[x] = 4 * w /\ f[k] = f[x] + z[x]
    <3>1. z[x] \in OpSizes
      BY <1>14
    <3>2. z[x] = 4 * PayloadWords(z[x])
      BY <3>1, DriverFacts DEF DriverNumbers
    <3> QED BY <1>8, <1>14, <2>1, <3>2
  <2>10. 4 * Cardinality(V) = f[k]
    BY <1>10, <2>2, <2>7, <2>8, <2>9
  <2>11. Counts(f, b, z, L, k)
    BY <1>9, <2>7, <2>10 DEF Counts
  <2> QED BY <2>11
<1> QED BY <1>13, <1>14

(* The payloads fit in the heap.                                           *)
LEMMA SumFits ==
  ASSUME NEW pkg, NEW h, NEW b, NEW z, NEW L \in SUBSET Indices, Owns(pkg, h, b, z, L),
         \A x \in L : z[x] \in OpSizes, NEW t, SumIs(z, L, t), h.brk \in Nat
  PROVE  t \in Nat /\ t <= 4 * h.brk
<1>1. PICK f : PartialSums(f, z, L) /\ t = f[OpBound]
  BY DEF SumIs
<1>2. OpBound \in Nat /\ OpBound \in 0 .. OpBound
  BY DriverFacts DEF DriverNumbers
<1>3. PICK W : W = WordsTo(b, z, L, OpBound)
  OBVIOUS
<1>4. IsFiniteSet(W) /\ 4 * Cardinality(W) = t
  <2>1. \A k \in 0 .. OpBound : Counts(f, b, z, L, k)
    BY <1>1, WordsCounted
  <2> QED BY <1>1, <1>2, <1>3, <2>1 DEF Counts
<1>5. \A a \in W : a \in Nat /\ a <= h.brk - 1 /\ h.brk - 1 \in Nat
  <2>1. ASSUME NEW x \in L, NEW a \in Payload(b[x], z[x])
        PROVE  a \in Nat /\ a < h.brk
    <3>1. LiesIn(h, b, z, L, x)
      BY OwnsSpots
    <3>2. PICK w : w = PayloadWords(z[x])
      OBVIOUS
    <3>3. b[x] \in Nat /\ w \in Nat /\ b[x] + w < h.brk /\ a \in b[x] .. b[x] + w - 1
      BY <3>1, <3>2 DEF LiesIn, Payload
    <3> QED BY <3>3
  <2> QED BY <1>3, <2>1 DEF WordsTo
<1>6. W \subseteq 0 .. h.brk - 1
  BY <1>5
<1>7. /\ IsFiniteSet(0 .. h.brk - 1)
      /\ Cardinality(0 .. h.brk - 1) = IF 0 > h.brk - 1 THEN 0 ELSE h.brk - 1 - 0 + 1
  BY FS_Interval
<1>8. Cardinality(W) <= Cardinality(0 .. h.brk - 1)
  BY <1>6, <1>7, FS_Subset
<1>9. Cardinality(0 .. h.brk - 1) = h.brk
  BY <1>7
<1>10. Cardinality(W) \in Nat
  BY <1>4, FS_CardinalityType
<1>11. t \in Nat
  BY <1>4, <1>10
<1> QED BY <1>4, <1>8, <1>9, <1>10, <1>11

(* It is what SizeOf computes.                                             *)
LEMMA SizeIs ==
  ASSUME NEW L, NEW t, SumIs(block_sizes, L, t)
  PROVE  SizeOf(L) = t
<1>1. PICK f : PartialSums(f, block_sizes, L) /\ t = f[OpBound]
  BY DEF SumIs
<1>2. OpBound \in Nat /\ \A k : k \in Indices <=> k \in Nat /\ k < OpBound
  BY DriverFacts DEF DriverNumbers
<1>3. PICK g : g = CHOOSE u : u = [n \in 0 .. OpBound |->
                 IF n = 0 THEN 0 ELSE u[n - 1] + (IF n - 1 \in L THEN block_sizes[n - 1] ELSE 0)]
  OBVIOUS
<1>4. SizeOf(L) = g[OpBound]
  BY <1>3 DEF SizeOf
<1>5. f = [n \in 0 .. OpBound |->
             IF n = 0 THEN 0 ELSE f[n - 1] + (IF n - 1 \in L THEN block_sizes[n - 1] ELSE 0)]
  <2>1. f \in [0 .. OpBound -> Nat] /\ f[0] = 0
    BY <1>1 DEF PartialSums
  <2>2. ASSUME NEW n \in 0 .. OpBound, n # 0
        PROVE  f[n] = f[n - 1] + (IF n - 1 \in L THEN block_sizes[n - 1] ELSE 0)
    <3>1. PICK k : k = n - 1
      OBVIOUS
    <3>2. k \in Indices /\ n = k + 1
      BY <1>2, <2>2, <3>1
    <3>3. f[k + 1] = f[k] + (IF k \in L THEN block_sizes[k] ELSE 0)
      BY <1>1, <3>2 DEF PartialSums
    <3> QED BY <3>1, <3>2, <3>3
  <2> QED BY <2>1, <2>2
<1>6. g = [n \in 0 .. OpBound |->
             IF n = 0 THEN 0 ELSE g[n - 1] + (IF n - 1 \in L THEN block_sizes[n - 1] ELSE 0)]
  BY <1>3, <1>5
<1> DEFINE Bad == {n \in 0 .. OpBound : g[n] # f[n]}
<1>7. Bad = {}
  <2> SUFFICES ASSUME Bad # {} PROVE FALSE
    OBVIOUS
  <2>1. Bad \in SUBSET Nat
    BY <1>2
  <2>2. PICK n \in Bad : \A j \in Bad : n <= j
    BY <2>1, LeastNat
  <2>3. n # 0
    <3>1. 0 \in 0 .. OpBound
      BY <1>2
    <3>2. g[0] = 0 /\ f[0] = 0
      BY <1>5, <1>6, <3>1
    <3> QED BY <3>2
  <2>4. PICK k : k = n - 1
    OBVIOUS
  <2>5. k \in 0 .. OpBound /\ k < n
    BY <1>2, <2>2, <2>3, <2>4
  <2>6. g[k] = f[k]
    <3>1. k \notin Bad
      BY <1>2, <2>2, <2>5
    <3> QED BY <2>5, <3>1
  <2>7. /\ g[n] = g[k] + (IF k \in L THEN block_sizes[k] ELSE 0)
        /\ f[n] = f[k] + (IF k \in L THEN block_sizes[k] ELSE 0)
    BY <1>5, <1>6, <2>2, <2>3, <2>4
  <2> QED BY <2>2, <2>6, <2>7
<1>8. OpBound \in 0 .. OpBound
  BY <1>2
<1> QED BY <1>1, <1>4, <1>7, <1>8

----------------------------------------------------------------------------
(* The steps of the driver, on any state of it.                            *)

LEMMA OwnsTypes ==
  ASSUME NEW pkg, NEW h, NEW b, NEW z, NEW L, Owns(pkg, h, b, z, L)
  PROVE  h.mem \in [Addresses -> Nat] /\ h.brk \in Nat /\ h.brk <= MAX_HEAP
<1>1. PICK s : Sound(pkg, h, s)
  BY DEF Owns
<1>2. h.mem \in [Addresses -> Nat] /\ h.brk \in 4 .. MAX_HEAP /\ h.brk \in Nat
  BY <1>1, SoundTypes
<1> QED BY <1>2, AddressFacts

LEMMA ResetIs ==
  ASSUME NEW h
  PROVE  Reset(h) = InitOf(package, h)
BY SameExplicit, SameFirstFit DEF Reset, InitOf

\* What the package returns for an operation that places a payload.
CallOf(pkg, h, b, op, r) ==
  /\ op.type = "a" => r = MallocOf(pkg, h, op.size)
  /\ op.type = "r" => pkg # "mm.c" /\ r = mm_realloc(h, b[op.index], op.size)

LEMMA CalledIs ==
  ASSUME NEW op
  PROVE  /\ op.type = "a" => Called(op) = MallocOf(package, mem_heap, op.size)
         /\ op.type = "r" => Called(op) = mm_realloc(mem_heap, blocks[op.index], op.size)
         /\ op.type = "f" => Called(op).heap = FreeOf(package, mem_heap, blocks[op.index])
<1>1. ASSUME op.type = "a" PROVE Called(op) = MallocOf(package, mem_heap, op.size)
  <2>1. CASE package = "mm.c"
    <3>1. Called(op) = Explicit!mm_malloc(mem_heap, op.size)
      BY <1>1, <2>1 DEF Called
    <3> QED BY <2>1, <3>1, SameExplicit DEF MallocOf
  <2>2. CASE package # "mm.c"
    <3>1. Called(op) = FirstFit!mm_malloc(mem_heap, op.size)
      BY <1>1, <2>2 DEF Called
    <3> QED BY <2>2, <3>1, SameFirstFit DEF MallocOf
  <2> QED BY <2>1, <2>2
<1>2. ASSUME op.type = "r"
      PROVE  Called(op) = mm_realloc(mem_heap, blocks[op.index], op.size)
  <2>1. Called(op) = FirstFit!mm_realloc(mem_heap, blocks[op.index], op.size)
    BY <1>2 DEF Called
  <2> QED BY <2>1, SameFirstFit
<1>3. ASSUME op.type = "f"
      PROVE  Called(op).heap = FreeOf(package, mem_heap, blocks[op.index])
  <2>1. Called(op).heap = IF package = "mm.c" THEN Explicit!mm_free(mem_heap, blocks[op.index])
                          ELSE FirstFit!mm_free(mem_heap, blocks[op.index])
    BY <1>3 DEF Called
  <2>2. CASE package = "mm.c"
    BY <2>1, <2>2, SameExplicit DEF FreeOf
  <2>3. CASE package # "mm.c"
    BY <2>1, <2>3, SameFirstFit DEF FreeOf
  <2> QED BY <2>2, <2>3
<1> QED BY <1>1, <1>2, <1>3

(* An allocation or a reallocation to size at bp.                          *)
PlacedAt(pkg, h, g, b, z, L, M, x, bp, size) ==
  /\ Owns(pkg, g, [b EXCEPT ![x] = bp], [z EXCEPT ![x] = size], M)
  /\ x \in M /\ M \ {x} = L \ {x}
  /\ g.brk >= h.brk /\ Unmoved(h.mem, g.mem, b, z, L \ {x})

LEMMA PlaceStep ==
  ASSUME NEW pkg, NEW h, NEW b \in [Indices -> Nat], NEW z \in [Indices -> Nat],
         NEW L, NEW M, Owns(pkg, h, b, z, L),
         NEW ops, NEW nth, NEW op, NthOf(ops, nth, op, L, M), op.type # "f",
         NEW r, CallOf(pkg, h, b, op, r), r.bp # NULL
  PROVE  /\ PlacedAt(pkg, h, r.heap, b, z, L, M, op.index, r.bp, op.size)
         /\ op.type = "r" => Carried(h.mem, r.heap.mem, b[op.index], r.bp, z[op.index], op.size)
<1>1. PICK x, size, g, bp : x = op.index /\ size = op.size /\ g = r.heap /\ bp = r.bp
  OBVIOUS
<1>2. /\ x \in Indices /\ size \in OpSizes /\ L \in SUBSET Indices
      /\ op.type \in {"a", "r"} /\ LiveStep(op, L, M)
  BY <1>1 DEF NthOf, OpFits
<1>3. size \in Nat
  BY <1>2, DriverFacts DEF DriverNumbers
<1>4. CASE op.type = "a"
  <2>1. x \notin L /\ M = L \cup {x}
    BY <1>1, <1>2, <1>4 DEF LiveStep
  <2>2. r = MallocOf(pkg, h, size)
    BY <1>1, <1>4 DEF CallOf
  <2>3. OwnsMore(pkg, h, g, b, z, L, x, bp, size)
    BY <1>1, <1>2, <1>3, <2>1, <2>2, OwnsMalloc
  <2>4. M \ {x} = L \ {x}
    BY <2>1
  <2> QED BY <1>1, <1>4, <2>1, <2>3, <2>4 DEF OwnsMore, PlacedAt
<1>5. CASE op.type = "r"
  <2>1. x \in L /\ M = L /\ L \cup {x} = M
    BY <1>1, <1>2, <1>5 DEF LiveStep
  <2>2. pkg # "mm.c" /\ r = mm_realloc(h, b[x], size)
    BY <1>1, <1>5 DEF CallOf
  <2>3. /\ OwnsMore(pkg, h, r.heap, b, z, L, x, r.bp, size)
        /\ Carried(h.mem, r.heap.mem, b[x], r.bp, z[x], size)
    BY <1>2, <1>3, <2>1, <2>2, OwnsRealloc
  <2>4. PlacedAt(pkg, h, g, b, z, L, M, x, bp, size)
    BY <1>1, <2>1, <2>3 DEF OwnsMore, PlacedAt
  <2> QED BY <1>1, <2>3, <2>4
<1> QED BY <1>2, <1>4, <1>5

\* NULL leaves the heap alone.
LEMMA NullStep ==
  ASSUME NEW pkg, NEW h, NEW b, NEW z, NEW L, NEW M, Owns(pkg, h, b, z, L),
         NEW ops, NEW nth, NEW op, NthOf(ops, nth, op, L, M), op.type # "f",
         NEW r, CallOf(pkg, h, b, op, r), r.bp = NULL
  PROVE  r.heap = h
<1>1. PICK s : Sound(pkg, h, s) /\ Maps(s, b, z, L)
  BY DEF Owns
<1>2. /\ op.type \in {"a", "r"} /\ LiveStep(op, L, M) /\ op.size \in OpSizes
  BY DEF NthOf, OpFits
<1>3. op.size \in Nat
  BY <1>2, DriverFacts DEF DriverNumbers
<1>4. CASE op.type = "a"
  <2>1. r = MallocOf(pkg, h, op.size)
    BY <1>4 DEF CallOf
  <2> QED BY <1>1, <1>3, <2>1, SoundMalloc
<1>5. CASE op.type = "r"
  <2>1. PICK p, size : p = b[op.index] /\ size = op.size
    OBVIOUS
  <2>2. p \in DOMAIN s
    BY <1>1, <1>2, <1>5, <2>1 DEF LiveStep, Maps
  <2>3. pkg # "mm.c" /\ r = mm_realloc(h, p, size) /\ size \in Nat
    BY <1>3, <1>5, <2>1 DEF CallOf
  <2>4. Sound(pkg, h, s) /\ pkg # "mm.c" /\ p \in DOMAIN s /\ size \in Nat
    BY <1>1, <2>2, <2>3
  <2>5. r = mm_realloc(h, p, size)
    BY <2>3
  <2>6. Declines(h, r)
    BY <2>4, <2>5, SoundRealloc
  <2> QED BY <2>6 DEF Declines
<1> QED BY <1>2, <1>4, <1>5

FreedAt(pkg, h, g, b, z, L, M, x) ==
  /\ Owns(pkg, g, b, z, M) /\ M \in SUBSET L /\ x \in L /\ M = L \ {x}
  /\ g.brk = h.brk /\ Unmoved(h.mem, g.mem, b, z, M)

LEMMA FreesStep ==
  ASSUME NEW pkg, NEW h, NEW b, NEW z, NEW L, NEW M, Owns(pkg, h, b, z, L),
         NEW ops, NEW nth, NEW op, NthOf(ops, nth, op, L, M), op.type = "f",
         NEW g, g = FreeOf(pkg, h, b[op.index])
  PROVE  FreedAt(pkg, h, g, b, z, L, M, op.index)
<1>1. PICK x : x = op.index
  OBVIOUS
<1>2. x \in L /\ M = L \ {x}
  BY <1>1 DEF NthOf, LiveStep
<1>3. OwnsLess(pkg, h, g, b, z, L, x)
  BY <1>1, <1>2, OwnsFree
<1> QED BY <1>1, <1>2, <1>3 DEF OwnsLess, FreedAt

(* The check: the range list rs has the live payloads, which hold their    *)
(* marks.                                                                  *)
RangesOf(b, z, L) == {RangeOf(b[x], z[x]) : x \in L}

AllMarked(h, b, z, L) == \A x \in L : \A a \in Payload(b[x], z[x]) : h.mem[a] = Mark(x)

SizesFit(z, L) == \A x \in L : z[x] \in OpSizes

ValidOf(pkg, h, b, z, L, rs) ==
  /\ Owns(pkg, h, b, z, L) /\ rs = RangesOf(b, z, L)
  /\ AllMarked(h, b, z, L) /\ SizesFit(z, L)

LEMMA RangeIs ==
  ASSUME NEW p, NEW size
  PROVE  LET r == RangeOf(p, size)
         IN  r.lo = p /\ r.hi = p + PayloadWords(size) - 1 /\ r.lo .. r.hi = Payload(p, size)
BY DEF RangeOf, Payload

LEMMA MarkIs ==
  ASSUME NEW x \in Indices
  PROVE  Mark(x) \in Nat
<1>1. x \in Nat
  BY DriverFacts DEF DriverNumbers
<1>2. x % 256 \in Nat
  BY <1>1
<1> QED BY <1>2 DEF Mark

\* Without the range of x, the list has those of the others.
LEMMA RangeRemoved ==
  ASSUME NEW pkg, NEW h, NEW b, NEW z, NEW L, NEW rs, ValidOf(pkg, h, b, z, L, rs),
         NEW x \in L
  PROVE  remove_range(rs, b[x]) = RangesOf(b, z, L \ {x})
<1>1. \A y \in L : RangeOf(b[y], z[y]).lo = b[y]
  BY DEF RangeOf
<1>2. \A y \in L : x # y => b[x] # b[y]
  <2>1. LiesIn(h, b, z, L, x)
    BY OwnsSpots DEF ValidOf
  <2> QED BY <2>1 DEF LiesIn
<1>3. \A r \in rs : \E y \in L : r = RangeOf(b[y], z[y])
  BY DEF ValidOf, RangesOf
<1>4. \A y \in L : RangeOf(b[y], z[y]) \in rs
  BY DEF ValidOf, RangesOf
<1>5. ASSUME NEW r PROVE r \in remove_range(rs, b[x]) <=> r \in RangesOf(b, z, L \ {x})
  <2>1. ASSUME r \in remove_range(rs, b[x]) PROVE r \in RangesOf(b, z, L \ {x})
    <3>1. r \in rs /\ r.lo # b[x]
      BY <2>1 DEF remove_range
    <3>2. PICK y \in L : r = RangeOf(b[y], z[y])
      BY <1>3, <3>1
    <3>3. y # x
      BY <1>1, <3>1, <3>2
    <3> QED BY <3>2, <3>3 DEF RangesOf
  <2>2. ASSUME r \in RangesOf(b, z, L \ {x}) PROVE r \in remove_range(rs, b[x])
    <3>1. PICK y \in L \ {x} : r = RangeOf(b[y], z[y])
      BY <2>2 DEF RangesOf
    <3>2. r \in rs /\ r.lo = b[y] /\ b[y] # b[x]
      BY <1>1, <1>2, <1>4, <3>1
    <3> QED BY <3>2 DEF remove_range
  <2> QED BY <2>1, <2>2
<1> QED BY <1>5

\* add_range accepts a new payload.
LEMMA RangeAccepted ==
  ASSUME NEW pkg, NEW g, NEW c, NEW y, NEW M, Owns(pkg, g, c, y, M), NEW x \in M
  PROVE  Accepts(RangesOf(c, y, M \ {x}), RangeOf(c[x], y[x]), g.brk)
<1>1. PICK w : w = PayloadWords(y[x])
  OBVIOUS
<1>2. PICK new : new = RangeOf(c[x], y[x])
  OBVIOUS
<1>3. LiesIn(g, c, y, M, x) /\ g.brk \in Nat
  BY OwnsSpots, OwnsTypes
<1>4. /\ c[x] \in Nat /\ c[x] % 2 = 0 /\ w \in Nat /\ w > 0 /\ c[x] + w < g.brk
      /\ \A k \in M : x # k => Payload(c[x], y[x]) \cap Payload(c[k], y[k]) = {}
  BY <1>1, <1>3 DEF LiesIn
<1>5. new.lo = c[x] /\ new.hi = c[x] + w - 1 /\ Payload(c[x], y[x]) = c[x] .. c[x] + w - 1
  BY <1>1, <1>2 DEF RangeOf, Payload
<1>6. new.lo \in Payload(c[x], y[x]) /\ new.hi \in Payload(c[x], y[x])
  BY <1>4, <1>5
<1>7. new.lo % 2 = 0 /\ {new.lo, new.hi} \subseteq 0 .. g.brk - 1
  BY <1>3, <1>4, <1>5
<1>8. ASSUME NEW q \in RangesOf(c, y, M \ {x})
      PROVE  new.lo \notin q.lo .. q.hi /\ new.hi \notin q.lo .. q.hi
  <2>1. PICK k \in M \ {x} : q = RangeOf(c[k], y[k])
    BY DEF RangesOf
  <2>2. q.lo .. q.hi = Payload(c[k], y[k])
    BY <2>1, RangeIs
  <2> QED BY <1>4, <1>6, <2>2
<1> QED BY <1>2, <1>7, <1>8 DEF Accepts

(* A payload is placed, listed and marked.                                 *)
Lists(pkg, g, b, z, L, M, x, bp, size) ==
  /\ Accepts(RangesOf(b, z, L \ {x}), RangeOf(bp, size), g.brk)
  /\ ValidOf(pkg, Marked(g, RangeOf(bp, size), x), [b EXCEPT ![x] = bp],
             [z EXCEPT ![x] = size], M, RangesOf(b, z, L \ {x}) \cup {RangeOf(bp, size)})

LEMMA MarkStep ==
  ASSUME NEW pkg, NEW h, NEW b \in [Indices -> Nat], NEW z \in [Indices -> Nat], NEW L, NEW rs,
         ValidOf(pkg, h, b, z, L, rs), NEW g, NEW M, NEW x \in Indices, NEW bp,
         NEW size \in OpSizes, L \in SUBSET Indices, PlacedAt(pkg, h, g, b, z, L, M, x, bp, size)
  PROVE  Lists(pkg, g, b, z, L, M, x, bp, size)
<1>1. PICK c, y : c = [b EXCEPT ![x] = bp] /\ y = [z EXCEPT ![x] = size]
  OBVIOUS
<1>2. /\ Owns(pkg, g, c, y, M) /\ x \in M /\ M \ {x} = L \ {x}
      /\ Unmoved(h.mem, g.mem, b, z, L \ {x})
  BY <1>1 DEF PlacedAt
<1>3. c[x] = bp /\ y[x] = size /\ \A k : k # x /\ k \in Indices => c[k] = b[k] /\ y[k] = z[k]
  BY <1>1
<1>4. \A k \in M \ {x} : k \in L \ {x} /\ c[k] = b[k] /\ y[k] = z[k]
  BY <1>2, <1>3
<1>5. RangesOf(c, y, M \ {x}) = RangesOf(b, z, L \ {x})
  BY <1>2, <1>4 DEF RangesOf
<1>6. Accepts(RangesOf(b, z, L \ {x}), RangeOf(bp, size), g.brk)
  BY <1>2, <1>3, <1>5, RangeAccepted
<1>7. PICK d, e : d = Mark(x) /\ e = Marked(g, RangeOf(bp, size), x)
  OBVIOUS
<1>8. d \in Nat
  BY <1>7, MarkIs
<1>9. e = [g EXCEPT !.mem = Filled(@, Payload(c[x], y[x]), d)]
  BY <1>3, <1>7, RangeIs DEF Marked
<1>10. /\ Owns(pkg, e, c, y, M) /\ Unmoved(g.mem, e.mem, c, y, M \ {x})
       /\ \A a \in Payload(c[x], y[x]) : e.mem[a] = d
  <2>1. Overwritten(pkg, g, e, c, y, M, x, d)
    BY <1>2, <1>8, <1>9, OwnsFill
  <2> QED BY <2>1 DEF Overwritten
<1>11. AllMarked(e, c, y, M)
  <2>1. ASSUME NEW k \in M, NEW a \in Payload(c[k], y[k]) PROVE e.mem[a] = Mark(k)
    <3>1. CASE k = x
      BY <1>7, <1>10, <3>1
    <3>2. CASE k # x
      <4>1. k \in M \ {x} /\ k \in L \ {x} /\ a \in Payload(b[k], z[k])
        BY <1>4, <3>2
      <4>2. e.mem[a] = g.mem[a]
        BY <1>10, <4>1 DEF Unmoved
      <4>3. g.mem[a] = h.mem[a]
        BY <1>2, <4>1 DEF Unmoved
      <4>4. h.mem[a] = Mark(k)
        BY <4>1 DEF ValidOf, AllMarked
      <4> QED BY <4>2, <4>3, <4>4
    <3> QED BY <3>1, <3>2
  <2> QED BY <2>1 DEF AllMarked
<1>12. SizesFit(y, M)
  <2>1. \A k \in L : z[k] \in OpSizes
    BY DEF ValidOf, SizesFit
  <2> QED BY <1>3, <1>4, <2>1 DEF SizesFit
<1>13. RangesOf(b, z, L \ {x}) \cup {RangeOf(bp, size)} = RangesOf(c, y, M)
  <2>1. RangesOf(c, y, M \ {x}) \cup {RangeOf(c[x], y[x])} = RangesOf(c, y, M)
    BY <1>2 DEF RangesOf
  <2> QED BY <1>3, <1>5, <2>1
<1>14. ValidOf(pkg, e, c, y, M, RangesOf(b, z, L \ {x}) \cup {RangeOf(bp, size)})
  BY <1>10, <1>11, <1>12, <1>13 DEF ValidOf
<1> QED BY <1>1, <1>6, <1>7, <1>14 DEF Lists

\* What was marked is found after a reallocation.
LEMMA MovedIsPreserved ==
  ASSUME NEW pkg, NEW h, NEW b \in [Indices -> Nat], NEW z \in [Indices -> Nat],
         NEW L, NEW rs, ValidOf(pkg, h, b, z, L, rs), NEW x \in L, x \in Indices,
         NEW g, NEW bp \in Nat, NEW size \in OpSizes, Carried(h.mem, g.mem, b[x], bp, z[x], size)
  PROVE  Preserved(g, RangeOf(bp, size), x, z[x])
<1>1. PICK v, w, p : v = PayloadWords(size) /\ w = PayloadWords(z[x]) /\ p = b[x]
  OBVIOUS
<1>2. v \in Nat /\ w \in Nat /\ p \in Nat
  <2>1. LiesIn(h, b, z, L, x)
    BY OwnsSpots DEF ValidOf
  <2>2. size \in Nat \ {0}
    BY DriverFacts DEF DriverNumbers
  <2> QED BY <1>1, <2>1, <2>2, PayloadFacts DEF LiesIn
<1>3. PICK new : new = RangeOf(bp, size) /\ new.lo = bp /\ new.hi = bp + v - 1
  <2>1. RangeOf(bp, size).lo = bp /\ RangeOf(bp, size).hi = bp + v - 1
    BY <1>1 DEF RangeOf
  <2> QED BY <2>1
<1>4. ASSUME NEW a \in bp .. bp + v - 1, a < bp + w PROVE g.mem[a] = Mark(x)
  <2>1. PICK k : k = a - bp
    OBVIOUS
  <2>2. k \in Nat /\ k < v /\ k < w /\ a = bp + k
    BY <1>2, <1>4, <2>1
  <2>3. g.mem[bp + k] = h.mem[p + k]
    BY <1>1, <2>2 DEF Carried
  <2>4. PICK c : c = p + k
    OBVIOUS
  <2>5. c \in p .. p + w - 1
    BY <1>2, <2>2, <2>4
  <2>6. c \in Payload(b[x], z[x])
    BY <1>1, <2>5 DEF Payload
  <2>7. h.mem[c] = Mark(x)
    BY <2>6 DEF ValidOf, AllMarked
  <2> QED BY <2>2, <2>3, <2>4, <2>7
<1> QED BY <1>1, <1>3, <1>4 DEF Preserved

\* A payload is freed.
LEMMA UnmarkStep ==
  ASSUME NEW pkg, NEW h, NEW b, NEW z, NEW L, NEW rs, ValidOf(pkg, h, b, z, L, rs),
         NEW g, NEW M, NEW x, FreedAt(pkg, h, g, b, z, L, M, x)
  PROVE  ValidOf(pkg, g, b, z, M, remove_range(rs, b[x]))
<1>1. /\ Owns(pkg, g, b, z, M) /\ x \in L /\ M = L \ {x}
      /\ Unmoved(h.mem, g.mem, b, z, M)
  BY DEF FreedAt
<1>2. remove_range(rs, b[x]) = RangesOf(b, z, M)
  BY <1>1, RangeRemoved
<1>3. AllMarked(g, b, z, M) /\ SizesFit(z, M)
  BY <1>1 DEF ValidOf, AllMarked, SizesFit, Unmoved
<1> QED BY <1>1, <1>2, <1>3 DEF ValidOf

\* The ranges are in the heap.
RangesFit(rs) == \A r \in rs : {r.lo, r.hi} \subseteq Addresses

LEMMA RangesTyped ==
  ASSUME NEW pkg, NEW h, NEW b, NEW z, NEW L, NEW rs, ValidOf(pkg, h, b, z, L, rs)
  PROVE  RangesFit(rs)
<1> SUFFICES ASSUME NEW r \in rs PROVE {r.lo, r.hi} \subseteq Addresses
  BY DEF RangesFit
<1>1. PICK x \in L : r = RangeOf(b[x], z[x])
  BY DEF ValidOf, RangesOf
<1>2. LiesIn(h, b, z, L, x) /\ h.brk \in Nat /\ h.brk <= MAX_HEAP
  BY OwnsSpots, OwnsTypes DEF ValidOf
<1>3. PICK w : w = PayloadWords(z[x])
  OBVIOUS
<1>4. b[x] \in Nat /\ w \in Nat /\ w > 0 /\ b[x] + w < h.brk
  BY <1>2, <1>3 DEF LiesIn
<1>5. r.lo = b[x] /\ r.hi = b[x] + w - 1
  BY <1>1, <1>3 DEF RangeOf
<1>6. \A a : a \in Addresses <=> a \in Nat /\ a < MAX_HEAP
  BY AddressFacts
<1> QED BY <1>2, <1>4, <1>5, <1>6, AddressFacts

\* And so is what the allocator returns.
LEMMA PlaceTyped ==
  ASSUME NEW pkg, NEW h, NEW g, NEW b \in [Indices -> Nat], NEW z \in [Indices -> Nat],
         NEW L, NEW M, NEW x \in Indices, NEW bp, NEW size,
         PlacedAt(pkg, h, g, b, z, L, M, x, bp, size)
  PROVE  bp \in Addresses /\ bp \in Nat /\ g.brk \in Nat
<1>1. PICK c, y : c = [b EXCEPT ![x] = bp] /\ y = [z EXCEPT ![x] = size]
  OBVIOUS
<1>2. Owns(pkg, g, c, y, M) /\ x \in M
  BY <1>1 DEF PlacedAt
<1>3. LiesIn(g, c, y, M, x) /\ g.brk \in Nat /\ g.brk <= MAX_HEAP
  BY <1>2, OwnsSpots, OwnsTypes
<1>4. c[x] = bp
  BY <1>1
<1>5. bp \in Nat /\ bp < g.brk
  <2>1. PICK w : w = PayloadWords(y[x])
    OBVIOUS
  <2>2. bp \in Nat /\ w \in Nat /\ bp + w < g.brk
    BY <1>3, <1>4, <2>1 DEF LiesIn
  <2> QED BY <1>3, <2>2
<1> QED BY <1>3, <1>5, AddressFacts

(* The measurement of the use of space: t is the total, mx its maximum.    *)
UtilOf(pkg, h, b, z, L, t, mx) ==
  /\ Owns(pkg, h, b, z, L) /\ SizesFit(z, L) /\ SumIs(z, L, t)
  /\ mx \in Nat /\ mx <= 4 * h.brk

LEMMA TotalGrows ==
  ASSUME NEW pkg, NEW h, NEW b \in [Indices -> Nat], NEW z \in [Indices -> Nat],
         NEW L \in SUBSET Indices, NEW t, NEW mx, UtilOf(pkg, h, b, z, L, t, mx),
         NEW ops, NEW nth, NEW op, NEW M, NthOf(ops, nth, op, L, M), op.type # "f",
         NEW g, NEW bp, PlacedAt(pkg, h, g, b, z, L, M, op.index, bp, op.size),
         NEW u, u = t + op.size - (IF op.type = "r" THEN z[op.index] ELSE 0)
  PROVE  UtilOf(pkg, g, [b EXCEPT ![op.index] = bp], [z EXCEPT ![op.index] = op.size], M,
                u, IF u > mx THEN u ELSE mx) /\ u \in Nat
<1>1. PICK x, size : x = op.index /\ size = op.size
  OBVIOUS
<1>2. PICK c, y : c = [b EXCEPT ![x] = bp] /\ y = [z EXCEPT ![x] = size]
  OBVIOUS
<1>3. /\ x \in Indices /\ size \in OpSizes /\ op.type \in {"a", "r"}
      /\ LiveStep(op, L, M) /\ M \in SUBSET Indices
  BY <1>1 DEF NthOf, OpFits
<1>4. size \in Nat
  BY <1>3, DriverFacts DEF DriverNumbers
<1>5. /\ Owns(pkg, g, c, y, M) /\ x \in M /\ M \ {x} = L \ {x} /\ g.brk >= h.brk
  BY <1>1, <1>2 DEF PlacedAt
<1>6. y[x] = size /\ \A k \in Indices \ {x} : y[k] = z[k]
  BY <1>2, <1>3
<1>7. PICK v : v = IF op.type = "r" THEN z[x] ELSE 0
  OBVIOUS
<1>8. v \in Nat /\ v = IF x \in L THEN z[x] ELSE 0
  BY <1>1, <1>3, <1>7 DEF LiveStep
<1>9. \A k \in Indices \ {x} : (k \in M <=> k \in L) /\ (k \in L => y[k] = z[k])
  BY <1>5, <1>6
<1>10. size = IF x \in M THEN y[x] ELSE 0
  BY <1>5, <1>6
<1>11. SumIs(z, L, t)
  BY DEF UtilOf
<1>12. t \in Nat /\ t >= v /\ SumIs(y, M, t - v + size)
  <2>1. Changed(y, M, t, v, size)
    BY <1>3, <1>4, <1>8, <1>9, <1>10, <1>11, SumChange
  <2> QED BY <2>1 DEF Changed
<1>13. u = t - v + size /\ u \in Nat
  BY <1>1, <1>4, <1>7, <1>8, <1>12
<1>14. SizesFit(y, M)
  <2>1. \A k \in L : z[k] \in OpSizes
    BY DEF UtilOf, SizesFit
  <2> QED BY <1>3, <1>5, <1>6, <2>1 DEF SizesFit
<1>15. g.brk \in Nat /\ h.brk \in Nat
  BY <1>5, OwnsTypes DEF UtilOf
<1>16. u <= 4 * g.brk
  <2>1. \A k \in M : y[k] \in OpSizes
    BY <1>14 DEF SizesFit
  <2>2. SumIs(y, M, u)
    BY <1>12, <1>13
  <2> QED BY <1>3, <1>5, <1>15, <2>1, <2>2, SumFits
<1>17. mx \in Nat /\ mx <= 4 * g.brk
  BY <1>5, <1>15 DEF UtilOf
<1>18. PICK my : my = IF u > mx THEN u ELSE mx
  OBVIOUS
<1>19. my \in Nat /\ my <= 4 * g.brk
  BY <1>13, <1>16, <1>17, <1>18
<1>20. UtilOf(pkg, g, c, y, M, u, my)
  BY <1>5, <1>12, <1>13, <1>14, <1>19 DEF UtilOf
<1> QED BY <1>1, <1>2, <1>13, <1>18, <1>20

LEMMA TotalShrinks ==
  ASSUME NEW pkg, NEW h, NEW b, NEW z \in [Indices -> Nat],
         NEW L \in SUBSET Indices, NEW t, NEW mx, UtilOf(pkg, h, b, z, L, t, mx),
         NEW g, NEW M, NEW x \in Indices, FreedAt(pkg, h, g, b, z, L, M, x)
  PROVE  UtilOf(pkg, g, b, z, M, t - z[x], mx) /\ t - z[x] \in Nat
<1>1. Owns(pkg, g, b, z, M) /\ x \in L /\ M = L \ {x} /\ g.brk = h.brk
  BY DEF FreedAt
<1>2. SumIs(z, L, t) /\ SizesFit(z, L) /\ mx \in Nat /\ mx <= 4 * h.brk
  BY DEF UtilOf
<1>3. PICK v : v = z[x] /\ v \in Nat
  OBVIOUS
<1>4. v = (IF x \in L THEN z[x] ELSE 0) /\ 0 = IF x \in M THEN z[x] ELSE 0
  BY <1>1, <1>3
<1>5. \A k \in Indices \ {x} : (k \in M <=> k \in L) /\ (k \in L => z[k] = z[k])
  BY <1>1
<1>6. t \in Nat /\ t >= v /\ SumIs(z, M, t - v + 0)
  <2>1. 0 \in Nat
    OBVIOUS
  <2>2. Changed(z, M, t, v, 0)
    BY <1>2, <1>3, <1>4, <1>5, <2>1, SumChange
  <2> QED BY <2>2 DEF Changed
<1>7. t - v + 0 = t - v /\ t - v \in Nat
  BY <1>3, <1>6
<1>8. SizesFit(z, M)
  BY <1>1, <1>2 DEF SizesFit
<1> QED BY <1>1, <1>2, <1>3, <1>6, <1>7, <1>8 DEF UtilOf

----------------------------------------------------------------------------
(* The inductive invariant of the driver.                                  *)

DriverTyped ==
  /\ package \in Packages
  /\ mem_heap.mem \in [Addresses -> Nat] /\ mem_heap.brk \in Nat /\ mem_heap.brk <= MAX_HEAP
  /\ blocks \in [Indices -> Addresses] /\ block_sizes \in [Indices -> OpSizes \cup {0}]
  /\ RangesFit(ranges)
  /\ total_size \in Nat /\ max_total_size \in Nat
  /\ repeat \in Nat /\ repeat <= REPEATS
  /\ exit \in {"no", "exit(0)", "mm_realloc", "app_error"}
  /\ answers \in Seq(Nat \X Nat) /\ Len(answers) <= OpBound

DriverAt ==
  /\ tracenum \in Nat /\ tracenum <= num_tracefiles /\ errors \in Nat /\ errors <= tracenum
  /\ pass \in {"read", "valid", "util", "speed"}
  /\ trace = <<>> \/ trace \in Traces
  /\ pass = "read" => i = 1
  /\ pass # "read" => /\ tracenum < num_tracefiles /\ trace \in Traces /\ CanRun(trace)
                      /\ i \in Nat /\ i >= 1 /\ i <= Len(trace) + 1

\* What the driver has been given is what the package holds.
DriverOwns ==
  /\ pass = "valid" => /\ ValidOf(package, mem_heap, blocks, block_sizes, Live, ranges)
                       /\ Len(answers) = i - 1
  /\ pass = "util" =>
       UtilOf(package, mem_heap, blocks, block_sizes, Live, total_size, max_total_size)
  /\ pass = "speed" => \E z \in [Indices -> Nat] : Owns(package, mem_heap, blocks, z, Live)

DInv == DriverTyped /\ DriverAt /\ DriverOwns

LEMMA Tables ==
  ASSUME DInv
  PROVE  blocks \in [Indices -> Nat] /\ block_sizes \in [Indices -> Nat]
<1>1. \A a \in Addresses : a \in Nat
  BY AddressFacts
<1>2. \A size \in OpSizes \cup {0} : size \in Nat
  BY DriverFacts DEF DriverNumbers
<1> QED BY <1>1, <1>2 DEF DInv, DriverTyped

\* The step from one operation to the next.
OpIs(op) ==
  /\ i \in Nat /\ i >= 1 /\ i <= Len(trace) /\ i <= OpBound /\ Len(trace) \in Nat
  /\ op = trace[i]
  /\ NthOf(trace, i, op, Live, LiveAt(trace, i))
  /\ op.type # "f" => CallOf(package, mem_heap, blocks, op, Called(op))
  /\ op.type = "f" => Called(op).heap = FreeOf(package, mem_heap, blocks[op.index])

LEMMA LengthFacts ==
  ASSUME NEW ops \in Traces
  PROVE  Len(ops) \in Nat /\ Len(ops) <= OpBound /\ \A k \in DOMAIN ops : ops[k] \in Operations
<1>1. PICK n : TraceOf(ops, n)
  BY TraceIs
<1> QED BY <1>1 DEF TraceOf

LEMMA OpNow ==
  ASSUME DInv, NEW op, NEW p, At(p, op), p # "read"
  PROVE  OpIs(op)
<1>1. pass = p /\ i <= Len(trace) /\ op = trace[i]
  BY DEF At, Running
<1>2. trace \in Traces /\ CanRun(trace) /\ i \in Nat /\ i >= 1
  BY <1>1 DEF DInv, DriverAt
<1>3. Len(trace) \in Nat
  BY <1>2, LengthFacts
<1>4. i \in 1 .. Len(trace)
  BY <1>1, <1>2, <1>3
<1>5. NthOf(trace, i, trace[i], LiveAt(trace, i - 1), LiveAt(trace, i))
  BY <1>2, <1>4, NthFacts
<1>6. Live = LiveAt(trace, i - 1)
  BY DEF Live, Done, LiveAt
<1>7. op.type \in {"a", "r", "f"}
  BY <1>1, <1>5 DEF NthOf, OpFits
<1>8. op.type = "r" => package # "mm.c"
  BY <1>1, <1>2, <1>5 DEF NthOf, CanRun
<1>9. op.type # "f" => CallOf(package, mem_heap, blocks, op, Called(op))
  BY <1>7, <1>8, CalledIs DEF CallOf
<1>10. op.type = "f" => Called(op).heap = FreeOf(package, mem_heap, blocks[op.index])
  BY CalledIs
<1>11. i <= OpBound
  BY <1>5 DEF NthOf
<1> QED BY <1>1, <1>2, <1>3, <1>5, <1>6, <1>9, <1>10, <1>11 DEF OpIs

LEMMA NextLive ==
  ASSUME i \in Nat, i' = i + 1, trace' = trace
  PROVE  Live' = LiveAt(trace, i)
<1>1. i' - 1 = i
  OBVIOUS
<1> QED BY <1>1 DEF Live, Done, LiveAt

LEMMA DriverInits == DriverInit => DInv
<1> SUFFICES ASSUME DriverInit PROVE DInv
  OBVIOUS
<1>1. NULL \in Addresses /\ \A a \in Addresses : 0 \in Nat
  BY AddressFacts DEF NULL
<1>2. mem_heap.mem \in [Addresses -> Nat] /\ mem_heap.brk = 0
  BY DEF DriverInit
<1>3. 0 <= MAX_HEAP /\ 0 <= OpBound /\ 0 <= REPEATS /\ 0 <= num_tracefiles
  BY AddressFacts, DriverFacts DEF DriverNumbers
<1>4. blocks \in [Indices -> Addresses] /\ block_sizes \in [Indices -> OpSizes \cup {0}]
  BY <1>1 DEF DriverInit
<1>5. RangesFit(ranges)
  BY DEF DriverInit, RangesFit
<1>6. answers \in Seq(Nat \X Nat) /\ Len(answers) = 0
  BY DEF DriverInit
<1>7. DriverTyped
  BY <1>2, <1>3, <1>4, <1>5, <1>6 DEF DriverInit, DriverTyped
<1>8. DriverAt
  BY <1>3 DEF DriverInit, DriverAt
<1>9. DriverOwns
  BY DEF DriverInit, DriverOwns
<1> QED BY <1>7, <1>8, <1>9 DEF DInv

\* The driver stops where it is.
LEMMA HaltStep ==
  ASSUME DInv, mem_heap' = mem_heap, exit' \in {"no", "exit(0)", "mm_realloc", "app_error"},
         UNCHANGED <<package, where, blocks, block_sizes, ranges, stats, errors, answers>>
  PROVE  DInv'
<1>1. /\ package' = package /\ tracenum' = tracenum /\ trace' = trace /\ pass' = pass /\ i' = i
      /\ repeat' = repeat /\ blocks' = blocks /\ block_sizes' = block_sizes /\ ranges' = ranges
      /\ total_size' = total_size /\ max_total_size' = max_total_size /\ errors' = errors
      /\ answers' = answers
  <2>1. where' = where /\ stats' = stats
    OBVIOUS
  <2>2. /\ tracenum' = tracenum /\ trace' = trace /\ pass' = pass /\ i' = i
        /\ repeat' = repeat
    BY <2>1 DEF where
  <2>3. total_size' = total_size /\ max_total_size' = max_total_size
    BY <2>1 DEF stats
  <2> QED BY <2>2, <2>3
<1>2. Live' = Live
  BY <1>1 DEF Live, Done
<1>3. DriverTyped'
  BY <1>1 DEF DInv, DriverTyped, RangesFit
<1>4. DriverAt'
  BY <1>1 DEF DInv, DriverAt, CanRun
<1>5. DriverOwns'
  BY <1>1, <1>2 DEF DInv, DriverOwns
<1> QED BY <1>3, <1>4, <1>5 DEF DInv

\* A pass starts on a reset heap.
LEMMA StartOwns ==
  ASSUME NEW p, p # "read", Starts(p), DInv, trace' \in Traces, package' = package
  PROVE  /\ pass' = p /\ i' = 1 /\ Live' = {}
         /\ mem_heap'.mem \in [Addresses -> Nat]
         /\ mem_heap'.brk \in Nat /\ mem_heap'.brk <= MAX_HEAP
         /\ \A b, z : Owns(package, mem_heap', b, z, {})
<1>1. pass' = p /\ i' = 1 /\ mem_heap' = InitOf(package, mem_heap)
  BY ResetIs DEF Starts
<1>2. Live' = {}
  <2>1. i' - 1 = 0
    BY <1>1
  <2>2. Live' = LiveAt(trace', 0)
    BY <2>1 DEF Live, Done, LiveAt
  <2> QED BY <2>2, NoneAtFirst
<1>3. mem_heap.mem \in [Addresses -> Nat]
  BY DEF DInv, DriverTyped
<1>4. ASSUME NEW b, NEW z PROVE Owns(package, mem_heap', b, z, {})
  BY <1>1, <1>3, OwnsNone
<1>5. PICK g : g = mem_heap' /\ Owns(package, g, 0, 0, {})
  BY <1>4
<1>6. g.mem \in [Addresses -> Nat] /\ g.brk \in Nat /\ g.brk <= MAX_HEAP
  BY <1>5, OwnsTypes
<1> QED BY <1>1, <1>2, <1>4, <1>5, <1>6

(* The actions.                                                            *)

\* Only an allocation that returns NULL is an error.
Blames == errors' # errors => trace[i].type = "a" /\ Called(trace[i]).bp = NULL

LEMMA ReadStep ==
  ASSUME DInv, ReadTrace
  PROVE  DInv' /\ Blames
<1>1. /\ exit = "no" /\ pass = "read" /\ tracenum < num_tracefiles
      /\ trace' \in Traces /\ CanRun(trace') /\ Starts("valid")
      /\ blocks' = [x \in Indices |-> NULL] /\ block_sizes' = [x \in Indices |-> 0]
      /\ ranges' = {} /\ answers' = <<>>
      /\ package' = package /\ tracenum' = tracenum /\ repeat' = repeat /\ errors' = errors
      /\ exit' = exit /\ total_size' = total_size /\ max_total_size' = max_total_size
  BY DEF ReadTrace, Running, stats
<1>2. /\ pass' = "valid" /\ i' = 1 /\ Live' = {}
      /\ mem_heap'.mem \in [Addresses -> Nat]
      /\ mem_heap'.brk \in Nat /\ mem_heap'.brk <= MAX_HEAP
      /\ \A b, z : Owns(package, mem_heap', b, z, {})
  BY <1>1, StartOwns
<1>3. NULL \in Addresses /\ OpBound \in Nat
  BY AddressFacts, DriverFacts DEF NULL, DriverNumbers
<1>4. answers' \in Seq(Nat \X Nat) /\ Len(answers') = 0
  BY <1>1
<1>5. RangesFit(ranges')
  BY <1>1 DEF RangesFit
<1>6. /\ blocks' \in [Indices -> Addresses] /\ block_sizes' \in [Indices -> OpSizes \cup {0}]
  BY <1>1, <1>3
<1>7. DriverTyped'
  BY <1>1, <1>2, <1>3, <1>4, <1>5, <1>6 DEF DInv, DriverTyped, RangesFit
<1>8. Len(trace') \in Nat
  BY <1>1, LengthFacts
<1>9. DriverAt'
  BY <1>1, <1>2, <1>8 DEF DInv, DriverAt, CanRun
<1>10. ValidOf(package, mem_heap', blocks', block_sizes', {}, ranges')
  BY <1>1, <1>2 DEF ValidOf, RangesOf, AllMarked, SizesFit
<1>11. DriverOwns'
  BY <1>1, <1>2, <1>4, <1>10 DEF DriverOwns
<1> QED BY <1>1, <1>7, <1>9, <1>11 DEF DInv, Blames

\* The check goes on.
LEMMA ValidNext ==
  ASSUME DInv, pass = "valid", i \in Nat, i >= 1, i <= Len(trace), i <= OpBound,
         Len(trace) \in Nat, i' = i + 1,
         UNCHANGED <<package, tracenum, trace, pass, repeat, stats, errors, exit>>,
         ValidOf(package, mem_heap', blocks', block_sizes', LiveAt(trace, i), ranges'),
         blocks' \in [Indices -> Addresses], block_sizes' \in [Indices -> OpSizes \cup {0}],
         NEW t \in Nat \X Nat, answers' = Append(answers, t)
  PROVE  DInv' /\ Blames
<1>1. /\ package' = package /\ tracenum' = tracenum /\ trace' = trace /\ pass' = pass
      /\ repeat' = repeat /\ total_size' = total_size /\ max_total_size' = max_total_size
      /\ errors' = errors /\ exit' = exit
  BY DEF stats
<1>2. Live' = LiveAt(trace, i)
  BY <1>1, NextLive
<1>3. ValidOf(package', mem_heap', blocks', block_sizes', Live', ranges')
  BY <1>1, <1>2
<1>4. answers' \in Seq(Nat \X Nat) /\ Len(answers') = i
  <2>1. answers \in Seq(Nat \X Nat) /\ Len(answers) = i - 1
    BY DEF DInv, DriverTyped, DriverOwns
  <2> QED BY <2>1
<1>5. PICK g, c, y, M : g = mem_heap' /\ c = blocks' /\ y = block_sizes' /\ M = Live'
  OBVIOUS
<1>6. Owns(package, g, c, y, M)
  BY <1>1, <1>3, <1>5 DEF ValidOf
<1>7. /\ mem_heap'.mem \in [Addresses -> Nat]
      /\ mem_heap'.brk \in Nat /\ mem_heap'.brk <= MAX_HEAP
  BY <1>5, <1>6, OwnsTypes
<1>8. PICK rs : rs = ranges' /\ ValidOf(package, g, c, y, M, rs)
  BY <1>1, <1>3, <1>5
<1>9. RangesFit(rs)
  BY <1>8, RangesTyped
<1>10. RangesFit(ranges)'
  BY <1>8, <1>9 DEF RangesFit
<1>11. DriverTyped'
  BY <1>1, <1>4, <1>7, <1>10 DEF DInv, DriverTyped
<1>12. DriverAt'
  BY <1>1 DEF DInv, DriverAt, CanRun
<1>13. DriverOwns'
  BY <1>1, <1>3, <1>4 DEF DriverOwns
<1>14. Blames
  BY <1>1 DEF Blames
<1> QED BY <1>11, <1>12, <1>13, <1>14 DEF DInv

LEMMA ValidAllocStep ==
  ASSUME DInv, NEW op, ValidAlloc(op)
  PROVE  DInv' /\ Blames
<1>1. At("valid", op) /\ op.type = "a" /\ pass = "valid" /\ exit = "no"
  BY DEF ValidAlloc, At, Running
<1>2. OpIs(op)
  BY <1>1, OpNow
<1>3. PICK r : r = Called(op)
  OBVIOUS
<1>4. PICK x, size, L, M : x = op.index /\ size = op.size /\ L = Live /\ M = LiveAt(trace, i)
  OBVIOUS
<1>5. PICK new : new = RangeOf(r.bp, size)
  OBVIOUS
<1>6. /\ NthOf(trace, i, op, L, M) /\ CallOf(package, mem_heap, blocks, op, r)
      /\ op.type # "f" /\ op = trace[i] /\ i \in Nat /\ i <= OpBound /\ i >= 1
      /\ i <= Len(trace) /\ Len(trace) \in Nat
  BY <1>1, <1>2, <1>3, <1>4 DEF OpIs
<1>7. x \in Indices /\ size \in OpSizes /\ L \in SUBSET Indices /\ x \notin L
  BY <1>1, <1>4, <1>6 DEF NthOf, OpFits, LiveStep
<1>8. /\ ValidOf(package, mem_heap, blocks, block_sizes, L, ranges) /\ Len(answers) = i - 1
      /\ Owns(package, mem_heap, blocks, block_sizes, L)
  BY <1>1, <1>4 DEF DInv, DriverOwns, ValidOf
<1>9. blocks \in [Indices -> Nat] /\ block_sizes \in [Indices -> Nat]
  BY Tables
<1>10. IF r.bp = NULL \/ ~ Accepts(ranges, new, r.heap.brk)
       THEN mem_heap' = r.heap /\ Fault(ranges)
       ELSE /\ mem_heap' = Marked(r.heap, new, op.index)
            /\ ranges' = ranges \cup {new}
            /\ Remembers(op, r.bp)
            /\ answers' = Append(answers, <<r.bp, r.heap.brk>>)
            /\ UNCHANGED <<package, tracenum, trace, pass, repeat, stats, errors, exit>>
  BY <1>3, <1>4, <1>5 DEF ValidAlloc
<1>11. CASE r.bp = NULL
  <2>1. mem_heap' = r.heap /\ r.heap = mem_heap
    BY <1>6, <1>8, <1>10, <1>11, NullStep
  <2>2. /\ errors' = errors + 1 /\ tracenum' = tracenum + 1 /\ pass' = "read" /\ i' = 1
        /\ ranges' = ranges /\ package' = package /\ trace' = trace /\ repeat' = repeat
        /\ blocks' = blocks /\ block_sizes' = block_sizes /\ exit' = exit
        /\ answers' = answers /\ total_size' = total_size /\ max_total_size' = max_total_size
    BY <1>10, <1>11 DEF Fault, NextTrace, stats
  <2>3. DriverTyped'
    BY <2>1, <2>2 DEF DInv, DriverTyped, RangesFit
  <2>4. DriverAt'
    BY <1>1, <2>2, DriverFacts DEF DInv, DriverAt, DriverNumbers
  <2>5. DriverOwns'
    BY <2>2 DEF DriverOwns
  <2>6. Blames
    BY <1>1, <1>3, <1>6, <1>11 DEF Blames
  <2> QED BY <2>3, <2>4, <2>5, <2>6 DEF DInv
<1>12. CASE r.bp # NULL
  <2>1. PlacedAt(package, mem_heap, r.heap, blocks, block_sizes, L, M, x, r.bp, size)
    BY <1>4, <1>6, <1>8, <1>9, <1>12, PlaceStep
  <2>2. PICK rs : rs = RangesOf(blocks, block_sizes, L \ {x}) /\ rs = ranges
    <3>1. L \ {x} = L
      BY <1>7
    <3>2. RangesOf(blocks, block_sizes, L \ {x}) = ranges
      BY <1>8, <3>1 DEF ValidOf
    <3> QED BY <3>2
  <2>3. PICK c, y, g : /\ c = [blocks EXCEPT ![x] = r.bp] /\ y = [block_sizes EXCEPT ![x] = size]
                       /\ g = Marked(r.heap, new, x)
    OBVIOUS
  <2>4. Accepts(rs, new, r.heap.brk) /\ ValidOf(package, g, c, y, M, rs \cup {new})
    <3>1. Lists(package, r.heap, blocks, block_sizes, L, M, x, r.bp, size)
      BY <1>7, <1>8, <1>9, <2>1, MarkStep
    <3> QED BY <1>5, <2>2, <2>3, <3>1 DEF Lists
  <2>5. r.bp \in Addresses /\ r.bp \in Nat /\ r.heap.brk \in Nat
    BY <1>7, <1>9, <2>1, PlaceTyped
  <2>6. /\ mem_heap' = g /\ ranges' = rs \cup {new} /\ blocks' = c /\ block_sizes' = y
        /\ i' = i + 1 /\ answers' = Append(answers, <<r.bp, r.heap.brk>>)
        /\ UNCHANGED <<package, tracenum, trace, pass, repeat, stats, errors, exit>>
    BY <1>4, <1>10, <1>12, <2>2, <2>3, <2>4 DEF Remembers
  <2>7. ValidOf(package, mem_heap', blocks', block_sizes', LiveAt(trace, i), ranges')
    BY <1>4, <2>4, <2>6
  <2>8. blocks' \in [Indices -> Addresses] /\ block_sizes' \in [Indices -> OpSizes \cup {0}]
    BY <1>7, <2>3, <2>5, <2>6 DEF DInv, DriverTyped
  <2>9. <<r.bp, r.heap.brk>> \in Nat \X Nat
    BY <2>5
  <2> QED BY <1>1, <1>6, <2>6, <2>7, <2>8, <2>9, ValidNext
<1> QED BY <1>11, <1>12

LEMMA ValidReallocStep ==
  ASSUME DInv, NEW op, ValidRealloc(op)
  PROVE  DInv' /\ Blames
<1>1. At("valid", op) /\ op.type = "r" /\ pass = "valid" /\ exit = "no"
  BY DEF ValidRealloc, At, Running
<1>2. OpIs(op)
  BY <1>1, OpNow
<1>3. PICK r : r = Called(op)
  OBVIOUS
<1>4. PICK x, size, L, M : x = op.index /\ size = op.size /\ L = Live /\ M = LiveAt(trace, i)
  OBVIOUS
<1>5. PICK new, rs : new = RangeOf(r.bp, size) /\ rs = remove_range(ranges, blocks[x])
  OBVIOUS
<1>6. /\ NthOf(trace, i, op, L, M) /\ CallOf(package, mem_heap, blocks, op, r)
      /\ op.type # "f" /\ op = trace[i] /\ i \in Nat /\ i <= OpBound /\ i >= 1
      /\ i <= Len(trace) /\ Len(trace) \in Nat
  BY <1>1, <1>2, <1>3, <1>4 DEF OpIs
<1>7. x \in Indices /\ size \in OpSizes /\ L \in SUBSET Indices /\ x \in L
  BY <1>1, <1>4, <1>6 DEF NthOf, OpFits, LiveStep
<1>8. /\ ValidOf(package, mem_heap, blocks, block_sizes, L, ranges) /\ Len(answers) = i - 1
      /\ Owns(package, mem_heap, blocks, block_sizes, L)
  BY <1>1, <1>4 DEF DInv, DriverOwns, ValidOf
<1>9. blocks \in [Indices -> Nat] /\ block_sizes \in [Indices -> Nat]
  BY Tables
<1>10. IF r.bp = NULL THEN mem_heap' = r.heap /\ Exits("mm_realloc")
       ELSE IF ~ Accepts(rs, new, r.heap.brk) THEN mem_heap' = r.heap /\ Fault(rs)
       ELSE IF ~ Preserved(r.heap, new, x, block_sizes[x])
       THEN mem_heap' = r.heap /\ Fault(rs \cup {new})
       ELSE /\ mem_heap' = Marked(r.heap, new, x)
            /\ ranges' = rs \cup {new}
            /\ Remembers(op, r.bp)
            /\ answers' = Append(answers, <<r.bp, r.heap.brk>>)
            /\ UNCHANGED <<package, tracenum, trace, pass, repeat, stats, errors, exit>>
  BY <1>3, <1>4, <1>5 DEF ValidRealloc
<1>11. CASE r.bp = NULL
  <2>1. r.heap = mem_heap
    BY <1>6, <1>8, <1>11, NullStep
  <2>2. mem_heap' = mem_heap /\ Exits("mm_realloc")
    BY <1>10, <1>11, <2>1
  <2>3. exit' \in {"no", "exit(0)", "mm_realloc", "app_error"}
    BY <2>2 DEF Exits
  <2>4. DInv'
    BY <2>2, <2>3, HaltStep DEF Exits
  <2> QED BY <2>2, <2>4 DEF Exits, Blames
<1>12. CASE r.bp # NULL
  <2>1. /\ PlacedAt(package, mem_heap, r.heap, blocks, block_sizes, L, M, x, r.bp, size)
        /\ Carried(mem_heap.mem, r.heap.mem, blocks[x], r.bp, block_sizes[x], size)
    BY <1>1, <1>4, <1>6, <1>8, <1>9, <1>12, PlaceStep
  <2>2. rs = RangesOf(blocks, block_sizes, L \ {x})
    BY <1>5, <1>7, <1>8, RangeRemoved
  <2>3. PICK c, y, g : /\ c = [blocks EXCEPT ![x] = r.bp] /\ y = [block_sizes EXCEPT ![x] = size]
                       /\ g = Marked(r.heap, new, x)
    OBVIOUS
  <2>4. Accepts(rs, new, r.heap.brk) /\ ValidOf(package, g, c, y, M, rs \cup {new})
    <3>1. Lists(package, r.heap, blocks, block_sizes, L, M, x, r.bp, size)
      BY <1>7, <1>8, <1>9, <2>1, MarkStep
    <3> QED BY <1>5, <2>2, <2>3, <3>1 DEF Lists
  <2>5. r.bp \in Addresses /\ r.bp \in Nat /\ r.heap.brk \in Nat
    BY <1>7, <1>9, <2>1, PlaceTyped
  <2>6. Preserved(r.heap, new, x, block_sizes[x])
    BY <1>5, <1>7, <1>8, <1>9, <2>1, <2>5, MovedIsPreserved
  <2>7. /\ mem_heap' = g /\ ranges' = rs \cup {new} /\ blocks' = c /\ block_sizes' = y
        /\ i' = i + 1 /\ answers' = Append(answers, <<r.bp, r.heap.brk>>)
        /\ UNCHANGED <<package, tracenum, trace, pass, repeat, stats, errors, exit>>
    BY <1>4, <1>10, <1>12, <2>3, <2>4, <2>6 DEF Remembers
  <2>8. ValidOf(package, mem_heap', blocks', block_sizes', LiveAt(trace, i), ranges')
    BY <1>4, <2>4, <2>7
  <2>9. blocks' \in [Indices -> Addresses] /\ block_sizes' \in [Indices -> OpSizes \cup {0}]
    BY <1>7, <2>3, <2>5, <2>7 DEF DInv, DriverTyped
  <2>10. <<r.bp, r.heap.brk>> \in Nat \X Nat
    BY <2>5
  <2> QED BY <1>1, <1>6, <2>7, <2>8, <2>9, <2>10, ValidNext
<1> QED BY <1>11, <1>12

LEMMA ValidFreeStep ==
  ASSUME DInv, NEW op, ValidFree(op)
  PROVE  DInv' /\ Blames
<1>1. At("valid", op) /\ op.type = "f" /\ pass = "valid" /\ exit = "no"
  BY DEF ValidFree, At, Running
<1>2. OpIs(op)
  BY <1>1, OpNow
<1>3. PICK x, L, M : x = op.index /\ L = Live /\ M = LiveAt(trace, i)
  OBVIOUS
<1>4. PICK g : g = Called(op).heap
  OBVIOUS
<1>5. /\ NthOf(trace, i, op, L, M) /\ g = FreeOf(package, mem_heap, blocks[op.index])
      /\ op = trace[i] /\ i \in Nat /\ i <= OpBound /\ i >= 1
      /\ i <= Len(trace) /\ Len(trace) \in Nat
  BY <1>1, <1>2, <1>3, <1>4 DEF OpIs
<1>6. x \in Indices /\ x \in L
  BY <1>1, <1>3, <1>5 DEF NthOf, OpFits, LiveStep
<1>7. /\ ValidOf(package, mem_heap, blocks, block_sizes, L, ranges)
      /\ Owns(package, mem_heap, blocks, block_sizes, L)
  BY <1>1, <1>3 DEF DInv, DriverOwns, ValidOf
<1>8. FreedAt(package, mem_heap, g, blocks, block_sizes, L, M, x)
  BY <1>1, <1>3, <1>5, <1>7, FreesStep
<1>9. ValidOf(package, g, blocks, block_sizes, M, remove_range(ranges, blocks[x]))
  BY <1>7, <1>8, UnmarkStep
<1>10. /\ mem_heap' = g /\ ranges' = remove_range(ranges, blocks[x])
       /\ i' = i + 1 /\ answers' = Append(answers, <<blocks[x], mem_heap.brk>>)
       /\ blocks' = blocks /\ block_sizes' = block_sizes
       /\ UNCHANGED <<package, tracenum, trace, pass, repeat, stats, errors, exit>>
  BY <1>3, <1>4 DEF ValidFree
<1>11. ValidOf(package, mem_heap', blocks', block_sizes', LiveAt(trace, i), ranges')
  BY <1>3, <1>9, <1>10
<1>12. blocks' \in [Indices -> Addresses] /\ block_sizes' \in [Indices -> OpSizes \cup {0}]
  BY <1>10 DEF DInv, DriverTyped
<1>13. <<blocks[x], mem_heap.brk>> \in Nat \X Nat
  BY <1>6, Tables DEF DInv, DriverTyped
<1> QED BY <1>1, <1>5, <1>10, <1>11, <1>12, <1>13, ValidNext

LEMMA ValidDoneStep ==
  ASSUME DInv, ValidDone
  PROVE  DInv' /\ Blames
<1>1. /\ pass = "valid" /\ Starts("util") /\ total_size' = 0 /\ max_total_size' = 0
      /\ package' = package /\ tracenum' = tracenum /\ trace' = trace /\ repeat' = repeat
      /\ blocks' = blocks /\ block_sizes' = block_sizes /\ ranges' = ranges
      /\ errors' = errors /\ exit' = exit /\ answers' = answers
  BY DEF ValidDone, Passed, Running
<1>2. trace \in Traces
  BY <1>1 DEF DInv, DriverAt
<1>3. /\ pass' = "util" /\ i' = 1 /\ Live' = {}
      /\ mem_heap'.mem \in [Addresses -> Nat]
      /\ mem_heap'.brk \in Nat /\ mem_heap'.brk <= MAX_HEAP
      /\ \A b, z : Owns(package, mem_heap', b, z, {})
  BY <1>1, <1>2, StartOwns
<1>4. DriverTyped'
  BY <1>1, <1>3 DEF DInv, DriverTyped, RangesFit
<1>5. Len(trace) \in Nat
  BY <1>2, LengthFacts
<1>6. DriverAt'
  BY <1>1, <1>3, <1>5 DEF DInv, DriverAt, CanRun
<1>7. SumIs(block_sizes, {}, 0) /\ SizesFit(block_sizes, {})
  BY SumOfNone DEF SizesFit
<1>8. UtilOf(package, mem_heap', blocks, block_sizes, {}, 0, 0)
  BY <1>3, <1>7 DEF UtilOf
<1>9. DriverOwns'
  BY <1>1, <1>3, <1>8 DEF DriverOwns
<1> QED BY <1>1, <1>4, <1>6, <1>9 DEF DInv, Blames

\* The measurement goes on.
LEMMA UtilNext ==
  ASSUME DInv, pass = "util", i \in Nat, i >= 1, i <= Len(trace), Len(trace) \in Nat,
         i' = i + 1,
         UNCHANGED <<package, tracenum, trace, pass, repeat, ranges, errors, exit, answers>>,
         UtilOf(package, mem_heap', blocks', block_sizes', LiveAt(trace, i), total_size',
                max_total_size'),
         total_size' \in Nat,
         blocks' \in [Indices -> Addresses], block_sizes' \in [Indices -> OpSizes \cup {0}]
  PROVE  DInv' /\ Blames
<1>1. Live' = LiveAt(trace, i)
  BY NextLive
<1>2. PICK g, c, y, M : g = mem_heap' /\ c = blocks' /\ y = block_sizes' /\ M = Live'
  OBVIOUS
<1>3. Owns(package, g, c, y, M) /\ max_total_size' \in Nat
  BY <1>1, <1>2 DEF UtilOf
<1>4. /\ mem_heap'.mem \in [Addresses -> Nat]
      /\ mem_heap'.brk \in Nat /\ mem_heap'.brk <= MAX_HEAP
  BY <1>2, <1>3, OwnsTypes
<1>5. DriverTyped'
  BY <1>3, <1>4 DEF DInv, DriverTyped, RangesFit
<1>6. DriverAt'
  BY DEF DInv, DriverAt, CanRun
<1>7. DriverOwns'
  BY <1>1 DEF DriverOwns
<1> QED BY <1>5, <1>6, <1>7 DEF DInv, Blames

LEMMA UtilPlaceStep ==
  ASSUME DInv, NEW op, UtilPlace(op)
  PROVE  DInv' /\ Blames
<1>1. At("util", op) /\ op.type # "f" /\ pass = "util" /\ exit = "no"
  BY DEF UtilPlace, At, Running
<1>2. OpIs(op)
  BY <1>1, OpNow
<1>3. PICK r : r = Called(op)
  OBVIOUS
<1>4. PICK x, size, L, M : x = op.index /\ size = op.size /\ L = Live /\ M = LiveAt(trace, i)
  OBVIOUS
<1>5. /\ NthOf(trace, i, op, L, M) /\ CallOf(package, mem_heap, blocks, op, r)
      /\ op = trace[i] /\ i \in Nat /\ i <= OpBound /\ i >= 1
      /\ i <= Len(trace) /\ Len(trace) \in Nat
  BY <1>1, <1>2, <1>3, <1>4 DEF OpIs
<1>6. x \in Indices /\ size \in OpSizes /\ L \in SUBSET Indices
  BY <1>1, <1>4, <1>5 DEF NthOf, OpFits
<1>7. /\ UtilOf(package, mem_heap, blocks, block_sizes, L, total_size, max_total_size)
      /\ Owns(package, mem_heap, blocks, block_sizes, L)
  BY <1>1, <1>4 DEF DInv, DriverOwns, UtilOf
<1>8. blocks \in [Indices -> Nat] /\ block_sizes \in [Indices -> Nat]
  BY Tables
<1>9. /\ mem_heap' = r.heap
      /\ IF r.bp = NULL THEN Exits("app_error")
         ELSE /\ Remembers(op, r.bp) /\ Totals(Resized(op))
              /\ UNCHANGED <<package, tracenum, trace, pass, repeat, ranges, errors, exit, answers>>
  BY <1>3 DEF UtilPlace
<1>10. CASE r.bp = NULL
  <2>1. r.heap = mem_heap
    BY <1>1, <1>5, <1>7, <1>10, NullStep
  <2>2. mem_heap' = mem_heap /\ Exits("app_error")
    BY <1>9, <1>10, <2>1
  <2>3. exit' \in {"no", "exit(0)", "mm_realloc", "app_error"}
    BY <2>2 DEF Exits
  <2>4. DInv'
    BY <2>2, <2>3, HaltStep DEF Exits
  <2> QED BY <2>2, <2>4 DEF Exits, Blames
<1>11. CASE r.bp # NULL
  <2>1. PlacedAt(package, mem_heap, r.heap, blocks, block_sizes, L, M, x, r.bp, size)
    BY <1>1, <1>4, <1>5, <1>7, <1>8, <1>11, PlaceStep
  <2>2. PICK u : u = Resized(op)
    OBVIOUS
  <2>3. u = total_size + op.size - (IF op.type = "r" THEN block_sizes[op.index] ELSE 0)
    BY <2>2 DEF Resized
  <2>4. PICK c, y, mx : /\ c = [blocks EXCEPT ![x] = r.bp] /\ y = [block_sizes EXCEPT ![x] = size]
                        /\ mx = IF u > max_total_size THEN u ELSE max_total_size
    OBVIOUS
  <2>5. UtilOf(package, r.heap, c, y, M, u, mx) /\ u \in Nat
    BY <1>1, <1>4, <1>5, <1>6, <1>7, <1>8, <2>1, <2>3, <2>4, TotalGrows
  <2>6. /\ blocks' = c /\ block_sizes' = y /\ i' = i + 1
        /\ total_size' = u /\ max_total_size' = mx
        /\ UNCHANGED <<package, tracenum, trace, pass, repeat, ranges, errors, exit, answers>>
    BY <1>4, <1>9, <1>11, <2>2, <2>4 DEF Remembers, Totals
  <2>7. UtilOf(package, mem_heap', blocks', block_sizes', LiveAt(trace, i), total_size',
               max_total_size')
    BY <1>4, <1>9, <2>5, <2>6
  <2>8. r.bp \in Addresses
    BY <1>6, <1>8, <2>1, PlaceTyped
  <2>9. blocks' \in [Indices -> Addresses] /\ block_sizes' \in [Indices -> OpSizes \cup {0}]
    BY <1>6, <2>4, <2>6, <2>8 DEF DInv, DriverTyped
  <2> QED BY <1>1, <1>5, <2>5, <2>6, <2>7, <2>9, UtilNext
<1> QED BY <1>10, <1>11

LEMMA UtilFreeStep ==
  ASSUME DInv, NEW op, UtilFree(op)
  PROVE  DInv' /\ Blames
<1>1. At("util", op) /\ op.type = "f" /\ pass = "util" /\ exit = "no"
  BY DEF UtilFree, At, Running
<1>2. OpIs(op)
  BY <1>1, OpNow
<1>3. PICK x, L, M : x = op.index /\ L = Live /\ M = LiveAt(trace, i)
  OBVIOUS
<1>4. PICK g : g = Called(op).heap
  OBVIOUS
<1>5. /\ NthOf(trace, i, op, L, M) /\ g = FreeOf(package, mem_heap, blocks[op.index])
      /\ op = trace[i] /\ i \in Nat /\ i <= OpBound /\ i >= 1
      /\ i <= Len(trace) /\ Len(trace) \in Nat
  BY <1>1, <1>2, <1>3, <1>4 DEF OpIs
<1>6. x \in Indices /\ L \in SUBSET Indices
  BY <1>3, <1>5 DEF NthOf, OpFits
<1>7. /\ UtilOf(package, mem_heap, blocks, block_sizes, L, total_size, max_total_size)
      /\ Owns(package, mem_heap, blocks, block_sizes, L)
  BY <1>1, <1>3 DEF DInv, DriverOwns, UtilOf
<1>8. FreedAt(package, mem_heap, g, blocks, block_sizes, L, M, x)
  BY <1>1, <1>3, <1>5, <1>7, FreesStep
<1>9. block_sizes \in [Indices -> Nat]
  BY Tables
<1>10. /\ UtilOf(package, g, blocks, block_sizes, M, total_size - block_sizes[x], max_total_size)
       /\ total_size - block_sizes[x] \in Nat
  BY <1>6, <1>7, <1>8, <1>9, TotalShrinks
<1>11. /\ mem_heap' = g /\ total_size' = total_size - block_sizes[x] /\ i' = i + 1
       /\ max_total_size' = max_total_size /\ blocks' = blocks /\ block_sizes' = block_sizes
       /\ UNCHANGED <<package, tracenum, trace, pass, repeat, ranges, errors, exit, answers>>
  BY <1>3, <1>4 DEF UtilFree
<1>12. UtilOf(package, mem_heap', blocks', block_sizes', LiveAt(trace, i), total_size',
              max_total_size')
  BY <1>3, <1>10, <1>11
<1>13. blocks' \in [Indices -> Addresses] /\ block_sizes' \in [Indices -> OpSizes \cup {0}]
  BY <1>11 DEF DInv, DriverTyped
<1> QED BY <1>1, <1>5, <1>10, <1>11, <1>12, <1>13, UtilNext

\* The clock runs on a reset heap, once more or for the first time.
LEMMA SpeedStart ==
  ASSUME DInv, pass # "read", Starts("speed"), repeat' \in Nat, repeat' <= REPEATS,
         UNCHANGED <<package, tracenum, trace, blocks, block_sizes, ranges, stats, errors,
                     exit, answers>>
  PROVE  DInv' /\ Blames
<1>1. trace \in Traces
  BY DEF DInv, DriverAt
<1>2. /\ pass' = "speed" /\ i' = 1 /\ Live' = {}
      /\ mem_heap'.mem \in [Addresses -> Nat]
      /\ mem_heap'.brk \in Nat /\ mem_heap'.brk <= MAX_HEAP
      /\ \A b, z : Owns(package, mem_heap', b, z, {})
  BY <1>1, StartOwns
<1>3. total_size' = total_size /\ max_total_size' = max_total_size
  BY DEF stats
<1>4. DriverTyped'
  BY <1>2, <1>3 DEF DInv, DriverTyped, RangesFit
<1>5. Len(trace) \in Nat
  BY <1>1, LengthFacts
<1>6. DriverAt'
  BY <1>2, <1>5 DEF DInv, DriverAt, CanRun
<1>7. block_sizes \in [Indices -> Nat]
  BY Tables
<1>8. \E z \in [Indices -> Nat] : Owns(package', mem_heap', blocks', z, Live')
  BY <1>2, <1>7
<1>9. DriverOwns'
  BY <1>2, <1>8 DEF DriverOwns
<1> QED BY <1>4, <1>6, <1>9 DEF DInv, Blames

LEMMA SpeedNext ==
  ASSUME DInv, pass = "speed", i \in Nat, i >= 1, i <= Len(trace), Len(trace) \in Nat,
         i' = i + 1,
         UNCHANGED <<package, tracenum, trace, pass, repeat, block_sizes, ranges, stats, errors,
                     exit, answers>>,
         NEW z \in [Indices -> Nat], Owns(package, mem_heap', blocks', z, LiveAt(trace, i)),
         blocks' \in [Indices -> Addresses]
  PROVE  DInv' /\ Blames
<1>1. Live' = LiveAt(trace, i)
  BY NextLive
<1>2. PICK g, c, M : g = mem_heap' /\ c = blocks' /\ M = LiveAt(trace, i)
  OBVIOUS
<1>3. Owns(package, g, c, z, M)
  BY <1>2
<1>4. /\ mem_heap'.mem \in [Addresses -> Nat]
      /\ mem_heap'.brk \in Nat /\ mem_heap'.brk <= MAX_HEAP
  BY <1>2, <1>3, OwnsTypes
<1>5. total_size' = total_size /\ max_total_size' = max_total_size
  BY DEF stats
<1>6. DriverTyped'
  BY <1>4, <1>5 DEF DInv, DriverTyped, RangesFit
<1>7. DriverAt'
  BY DEF DInv, DriverAt, CanRun
<1>8. DriverOwns'
  BY <1>1 DEF DriverOwns
<1> QED BY <1>6, <1>7, <1>8 DEF DInv, Blames

LEMMA SpeedPlaceStep ==
  ASSUME DInv, NEW op, SpeedPlace(op)
  PROVE  DInv' /\ Blames
<1>1. At("speed", op) /\ op.type # "f" /\ pass = "speed" /\ exit = "no"
  BY DEF SpeedPlace, At, Running
<1>2. OpIs(op)
  BY <1>1, OpNow
<1>3. PICK r : r = Called(op)
  OBVIOUS
<1>4. PICK x, size, L, M : x = op.index /\ size = op.size /\ L = Live /\ M = LiveAt(trace, i)
  OBVIOUS
<1>5. /\ NthOf(trace, i, op, L, M) /\ CallOf(package, mem_heap, blocks, op, r)
      /\ op = trace[i] /\ i \in Nat /\ i <= OpBound /\ i >= 1
      /\ i <= Len(trace) /\ Len(trace) \in Nat
  BY <1>1, <1>2, <1>3, <1>4 DEF OpIs
<1>6. x \in Indices /\ size \in OpSizes /\ size \in Nat
  BY <1>1, <1>4, <1>5, DriverFacts DEF NthOf, OpFits, DriverNumbers
<1>7. PICK z \in [Indices -> Nat] : Owns(package, mem_heap, blocks, z, L)
  BY <1>1, <1>4 DEF DInv, DriverOwns
<1>8. blocks \in [Indices -> Nat]
  BY Tables
<1>9. /\ mem_heap' = r.heap
      /\ IF r.bp = NULL THEN Exits("app_error")
         ELSE /\ blocks' = [blocks EXCEPT ![op.index] = r.bp]
              /\ i' = i + 1
              /\ UNCHANGED <<package, tracenum, trace, pass, repeat, block_sizes, ranges,
                             stats, errors, exit, answers>>
  BY <1>3 DEF SpeedPlace
<1>10. CASE r.bp = NULL
  <2>1. r.heap = mem_heap
    BY <1>1, <1>5, <1>7, <1>10, NullStep
  <2>2. mem_heap' = mem_heap /\ Exits("app_error")
    BY <1>9, <1>10, <2>1
  <2>3. exit' \in {"no", "exit(0)", "mm_realloc", "app_error"}
    BY <2>2 DEF Exits
  <2>4. DInv'
    BY <2>2, <2>3, HaltStep DEF Exits
  <2> QED BY <2>2, <2>4 DEF Exits, Blames
<1>11. CASE r.bp # NULL
  <2>1. PlacedAt(package, mem_heap, r.heap, blocks, z, L, M, x, r.bp, size)
    BY <1>1, <1>4, <1>5, <1>7, <1>8, <1>11, PlaceStep
  <2>2. PICK c, y : c = [blocks EXCEPT ![x] = r.bp] /\ y = [z EXCEPT ![x] = size]
    OBVIOUS
  <2>3. Owns(package, r.heap, c, y, M)
    BY <2>1, <2>2 DEF PlacedAt
  <2>4. y \in [Indices -> Nat]
    BY <1>6, <2>2
  <2>5. /\ blocks' = c /\ i' = i + 1
        /\ UNCHANGED <<package, tracenum, trace, pass, repeat, block_sizes, ranges, stats,
                       errors, exit, answers>>
    BY <1>4, <1>9, <1>11, <2>2
  <2>6. r.bp \in Addresses
    BY <1>6, <1>8, <2>1, PlaceTyped
  <2>7. blocks' \in [Indices -> Addresses]
    BY <1>6, <2>2, <2>5, <2>6 DEF DInv, DriverTyped
  <2>8. Owns(package, mem_heap', blocks', y, LiveAt(trace, i))
    BY <1>4, <1>9, <2>3, <2>5
  <2> QED BY <1>1, <1>5, <2>4, <2>5, <2>7, <2>8, SpeedNext
<1> QED BY <1>10, <1>11

LEMMA SpeedFreeStep ==
  ASSUME DInv, NEW op, SpeedFree(op)
  PROVE  DInv' /\ Blames
<1>1. At("speed", op) /\ op.type = "f" /\ pass = "speed" /\ exit = "no"
  BY DEF SpeedFree, At, Running
<1>2. OpIs(op)
  BY <1>1, OpNow
<1>3. PICK x, L, M : x = op.index /\ L = Live /\ M = LiveAt(trace, i)
  OBVIOUS
<1>4. PICK g : g = Called(op).heap
  OBVIOUS
<1>5. /\ NthOf(trace, i, op, L, M) /\ g = FreeOf(package, mem_heap, blocks[op.index])
      /\ op = trace[i] /\ i \in Nat /\ i <= OpBound /\ i >= 1
      /\ i <= Len(trace) /\ Len(trace) \in Nat
  BY <1>1, <1>2, <1>3, <1>4 DEF OpIs
<1>6. PICK z \in [Indices -> Nat] : Owns(package, mem_heap, blocks, z, L)
  BY <1>1, <1>3 DEF DInv, DriverOwns
<1>7. FreedAt(package, mem_heap, g, blocks, z, L, M, x)
  BY <1>1, <1>3, <1>5, <1>6, FreesStep
<1>8. /\ mem_heap' = g /\ i' = i + 1 /\ blocks' = blocks
      /\ UNCHANGED <<package, tracenum, trace, pass, repeat, block_sizes, ranges, stats,
                     errors, exit, answers>>
  BY <1>4 DEF SpeedFree
<1>9. Owns(package, mem_heap', blocks', z, LiveAt(trace, i))
  BY <1>3, <1>7, <1>8 DEF FreedAt
<1>10. blocks' \in [Indices -> Addresses]
  BY <1>8 DEF DInv, DriverTyped
<1> QED BY <1>1, <1>5, <1>8, <1>9, <1>10, SpeedNext

LEMMA SpeedDoneStep ==
  ASSUME DInv, SpeedDone
  PROVE  DInv' /\ Blames
<1>1. /\ pass = "speed" /\ tracenum' = tracenum + 1 /\ pass' = "read" /\ i' = 1
      /\ package' = package /\ mem_heap' = mem_heap /\ trace' = trace /\ repeat' = repeat
      /\ blocks' = blocks /\ block_sizes' = block_sizes /\ ranges' = ranges
      /\ total_size' = total_size /\ max_total_size' = max_total_size /\ errors' = errors
      /\ exit' = exit /\ answers' = answers
  BY DEF SpeedDone, Passed, Running, NextTrace, stats
<1>2. DriverTyped'
  BY <1>1 DEF DInv, DriverTyped, RangesFit
<1>3. DriverAt'
  BY <1>1, DriverFacts DEF DInv, DriverAt, DriverNumbers
<1>4. DriverOwns'
  BY <1>1 DEF DriverOwns
<1> QED BY <1>1, <1>2, <1>3, <1>4 DEF DInv, Blames

LEMMA DriverStep ==
  ASSUME DInv, [DriverNext]_driverVars
  PROVE  DInv' /\ Blames
<1>1. CASE ReadTrace
  BY <1>1, ReadStep
<1>2. ASSUME NEW k \in DOMAIN trace,
             \/ ValidAlloc(trace[k]) \/ ValidRealloc(trace[k]) \/ ValidFree(trace[k])
             \/ UtilPlace(trace[k]) \/ UtilFree(trace[k])
             \/ SpeedPlace(trace[k]) \/ SpeedFree(trace[k])
      PROVE  DInv' /\ Blames
  BY <1>2, ValidAllocStep, ValidReallocStep, ValidFreeStep, UtilPlaceStep, UtilFreeStep,
     SpeedPlaceStep, SpeedFreeStep
<1>3. CASE ValidDone
  BY <1>3, ValidDoneStep
<1>4. CASE UtilDone
  <2>1. 1 \in Nat /\ 1 <= REPEATS
    BY DriverFacts DEF DriverNumbers
  <2> QED BY <1>4, <2>1, SpeedStart DEF UtilDone, Passed, Running
<1>5. CASE SpeedAgain
  <2>1. repeat + 1 \in Nat /\ repeat + 1 <= REPEATS
    BY <1>5, DriverFacts DEF SpeedAgain, DInv, DriverTyped, DriverNumbers
  <2> QED BY <1>5, <2>1, SpeedStart DEF SpeedAgain, Passed, Running
<1>6. CASE SpeedDone
  BY <1>6, SpeedDoneStep
<1>7. CASE Finish
  <2>1. /\ exit' = "exit(0)" /\ mem_heap' = mem_heap
        /\ UNCHANGED <<package, where, blocks, block_sizes, ranges, stats, errors, answers>>
    BY <1>7 DEF Finish
  <2>2. exit' \in {"no", "exit(0)", "mm_realloc", "app_error"}
    BY <2>1
  <2> QED BY <2>1, <2>2, HaltStep DEF Blames
<1>8. CASE UNCHANGED driverVars
  <2>1. /\ exit' = exit /\ mem_heap' = mem_heap
        /\ UNCHANGED <<package, where, blocks, block_sizes, ranges, stats, errors, answers>>
    BY <1>8 DEF driverVars
  <2>2. exit' \in {"no", "exit(0)", "mm_realloc", "app_error"}
    BY <2>1 DEF DInv, DriverTyped
  <2> QED BY <2>1, <2>2, HaltStep DEF Blames
<1>9. CASE Exited
  BY <1>8, <1>9 DEF Exited
<1> QED BY <1>1, <1>2, <1>3, <1>4, <1>5, <1>6, <1>7, <1>8, <1>9 DEF DriverNext

(* The invariant of the driver: what it has been given is what its package *)
(* holds, in every pass.                                                   *)
THEOREM DriverInvariance == DriverSpec => []DInv
<1>1. DInv /\ [DriverNext]_driverVars => DInv'
  BY DriverStep
<1> QED BY <1>1, DriverInits, PTL DEF DriverSpec

----------------------------------------------------------------------------
(* The programs of the lab.                                                *)

LEMMA LabRuns ==
  /\ LabSpec => Spec
  /\ LabSpec => MmSpec
  /\ LabSpec => DriverSpec
  /\ LabSpec => FcycSpec
<1>1. LabInit => Init /\ MmInit /\ DriverInit /\ FcycInit
  BY DEF LabInit
<1>2. ASSUME [LabNext]_labVars
      PROVE  /\ [Next]_vars /\ [MmNext]_mmVars
             /\ [DriverNext]_driverVars /\ [FcycNext]_fcycVars
  <2>1. CASE UNCHANGED labVars
    BY <2>1 DEF labVars
  <2>2. CASE LabNext
    BY <2>2 DEF LabNext
  <2> QED BY <1>2, <2>1, <2>2
<1>3. [LabNext]_labVars => [Next]_vars
  BY <1>2
<1>4. [LabNext]_labVars => [MmNext]_mmVars
  BY <1>2
<1>5. [LabNext]_labVars => [DriverNext]_driverVars
  BY <1>2
<1>6. [LabNext]_labVars => [FcycNext]_fcycVars
  BY <1>2
<1>7. LabSpec => Spec
  BY <1>1, <1>3, PTL DEF LabSpec, Spec
<1>8. LabSpec => MmSpec
  BY <1>1, <1>4, PTL DEF LabSpec, MmSpec
<1>9. LabSpec => DriverSpec
  BY <1>1, <1>5, PTL DEF LabSpec, DriverSpec
<1>10. LabSpec => FcycSpec
  BY <1>1, <1>6, PTL DEF LabSpec, FcycSpec
<1> QED BY <1>7, <1>8, <1>9, <1>10

LabPrograms == program \in {"mm-firstfit.c", "mm.c", "mdriver.c", "fcyc.c"}

LEMMA LabProgram == LabSpec => []LabPrograms
<1>1. LabInit => LabPrograms
  BY DEF LabInit, LabPrograms
<1>2. LabPrograms /\ [LabNext]_labVars => LabPrograms'
  <2> SUFFICES ASSUME LabPrograms, [LabNext]_labVars PROVE LabPrograms'
    OBVIOUS
  <2>1. program' = program
    BY DEF LabNext, labVars
  <2> QED BY <2>1 DEF LabPrograms
<1> QED BY <1>1, <1>2, PTL DEF LabSpec

(* The driver blames its package for nothing but running out of memory:    *)
(* whatever the trace, no payload that either allocator returns is         *)
(* misaligned, out of the heap or on another one, and mm_realloc of        *)
(* mm-firstfit.c keeps the data.                                           *)
THEOREM OnlyMemory == LabSpec => OnlyMemoryFails
<1>1. DInv /\ [DriverNext]_driverVars => [Blames]_driverVars
  BY DriverStep
<1>2. DriverSpec => [][Blames]_driverVars
  BY <1>1, DriverInvariance, PTL DEF DriverSpec
<1>3. [Blames]_driverVars =>
        [errors' # errors => trace[i].type = "a" /\ Called(trace[i]).bp = NULL]_driverVars
  BY DEF Blames
<1>4. DriverSpec =>
        [][errors' # errors => trace[i].type = "a" /\ Called(trace[i]).bp = NULL]_driverVars
  BY <1>2, <1>3, PTL
<1> QED BY <1>4, LabRuns DEF OnlyMemoryFails

LEMMA Accounts == DInv => RangesAreLive /\ UtilAtMostOne
<1> SUFFICES ASSUME DInv PROVE RangesAreLive /\ UtilAtMostOne
  OBVIOUS
<1>1. ASSUME pass = "valid" PROVE RangesAreLive
  <2>1. PICK L, b, z : L = Live /\ b = blocks /\ z = block_sizes
    OBVIOUS
  <2>2. ValidOf(package, mem_heap, b, z, L, ranges)
    BY <1>1, <2>1 DEF DInv, DriverOwns
  <2>3. ranges = {RangeOf(b[x], z[x]) : x \in L}
    BY <2>2 DEF ValidOf, RangesOf
  <2>4. \A x \in L : \A a \in Payload(b[x], z[x]) : mem_heap.mem[a] = Mark(x)
    BY <2>2 DEF ValidOf, AllMarked
  <2>5. ASSUME NEW x \in L, NEW y \in L, x # y
        PROVE  Payload(b[x], z[x]) \cap Payload(b[y], z[y]) = {}
    <3>1. LiesIn(mem_heap, b, z, L, x)
      BY <2>2, OwnsSpots DEF ValidOf
    <3> QED BY <2>5, <3>1 DEF LiesIn
  <2> QED BY <2>1, <2>3, <2>4, <2>5 DEF RangesAreLive
<1>2. ASSUME pass = "util" PROVE UtilAtMostOne
  <2>1. PICK L : L = Live
    OBVIOUS
  <2>2. UtilOf(package, mem_heap, blocks, block_sizes, L, total_size, max_total_size)
    BY <1>2, <2>1 DEF DInv, DriverOwns
  <2>3. SumIs(block_sizes, L, total_size) /\ max_total_size <= 4 * mem_heap.brk
    BY <2>2 DEF UtilOf
  <2>4. SizeOf(L) = total_size
    BY <2>3, SizeIs
  <2> QED BY <2>1, <2>3, <2>4 DEF UtilAtMostOne
<1> QED BY <1>1, <1>2 DEF RangesAreLive, UtilAtMostOne

(* The accounts of the driver are right for every trace: the range list    *)
(* has the live payloads, which hold their marks, and the totals are their *)
(* sizes, of which the heap has room for the largest.                      *)
THEOREM AccountsAlwaysMatch == LabSpec => []AccountsMatch
<1>1. DInv => AccountsMatch
  BY Accounts DEF AccountsMatch
<1> QED BY <1>1, DriverInvariance, LabRuns, PTL

LEMMA DriverTypesHold == DInv => DriverTypeOK
<1> SUFFICES ASSUME DInv PROVE DriverTypeOK
  OBVIOUS
<1>1. /\ num_tracefiles \in Nat /\ OpBound \in Nat /\ REPEATS \in Nat
  BY DriverFacts DEF DriverNumbers
<1>2. Len(trace) \in Nat /\ Len(trace) <= OpBound /\ \A k \in DOMAIN trace : trace[k] \in Operations
  <2>1. CASE trace = <<>>
    <3>1. Len(<<>>) = 0 /\ DOMAIN <<>> = {}
      OBVIOUS
    <3> QED BY <1>1, <2>1, <3>1
  <2>2. CASE trace \in Traces
    BY <2>2, LengthFacts
  <2> QED BY <2>1, <2>2 DEF DInv, DriverAt
<1>3. i \in 1 .. OpBound + 1
  <2>1. CASE pass = "read"
    BY <1>1, <2>1 DEF DInv, DriverAt
  <2>2. CASE pass # "read"
    <3>1. i \in Nat /\ i >= 1 /\ i <= Len(trace) + 1
      BY <2>2 DEF DInv, DriverAt
    <3> QED BY <1>1, <1>2, <3>1
  <2> QED BY <2>1, <2>2
<1>4. /\ mem_heap.brk \in 0 .. MAX_HEAP /\ repeat \in 0 .. REPEATS
  BY <1>1, AddressFacts DEF DInv, DriverTyped
<1>5. tracenum \in 0 .. num_tracefiles /\ errors \in 0 .. num_tracefiles
  BY <1>1 DEF DInv, DriverAt
<1>6. \A r \in ranges : {r.lo, r.hi} \subseteq Addresses
  BY DEF DInv, DriverTyped, RangesFit
<1>7. /\ package \in Packages /\ mem_heap.mem \in [Addresses -> Nat]
      /\ blocks \in [Indices -> Addresses] /\ block_sizes \in [Indices -> OpSizes \cup {0}]
      /\ total_size \in Nat /\ max_total_size \in Nat
      /\ exit \in {"no", "exit(0)", "mm_realloc", "app_error"}
      /\ Len(answers) <= OpBound
  BY DEF DInv, DriverTyped
<1>8. pass \in {"read", "valid", "util", "speed"}
  BY DEF DInv, DriverAt
<1> QED BY <1>2, <1>3, <1>4, <1>5, <1>6, <1>7, <1>8 DEF DriverTypeOK

(* Each program of the lab keeps its types; for the allocators that is     *)
(* their inductive invariant.                                              *)
THEOREM LabTypes == LabSpec => []TypesOK
<1>1. LabPrograms /\ IInv /\ MmIInv /\ DInv /\ FcycTypeOK => TypesOK
  <2> SUFFICES ASSUME LabPrograms, IInv, MmIInv, DriverTypeOK, FcycTypeOK PROVE TypesOK
    BY DriverTypesHold
  <2>1. CASE program = "mm-firstfit.c"
    BY <2>1 DEF TypesOK
  <2>2. CASE program = "mm.c"
    BY <2>2 DEF TypesOK
  <2>3. CASE program = "mdriver.c"
    BY <2>3 DEF TypesOK
  <2>4. CASE program = "fcyc.c"
    BY <2>4 DEF TypesOK
  <2> QED BY <2>1, <2>2, <2>3, <2>4 DEF LabPrograms
<1> QED BY <1>1, LabProgram, LabRuns, Invariance, MmInvariance, DriverInvariance, FcycTypes, PTL

----------------------------------------------------------------------------
(* Two heaps of mm.c with blocks of the same sizes at the same places, and *)
(* the same list, whatever their words hold.                               *)

Alike(h, g, f, n, P) ==
  /\ Layout(h, f, n, P) /\ Layout(g, f, n, P) /\ g.brk = h.brk
  /\ SizesSame(h.mem, g.mem, Members(f, n) \cup P)

\* What alike heaps share.
LEMMA AlikeParts ==
  ASSUME NEW h, NEW g, NEW f, NEW n, NEW P, Alike(h, g, f, n, P)
  PROVE  /\ Layout(h, f, n, P) /\ Layout(g, f, n, P) /\ g.brk = h.brk
         /\ g.root = h.root /\ g.end = h.end /\ n \in Nat
         /\ \A b \in P : Size(g.mem, b) = Size(h.mem, b)
         /\ \A nth \in 1 .. n : /\ f[nth] \in Members(f, n)
                                /\ Size(g.mem, f[nth]) = Size(h.mem, f[nth])
<1>1. /\ Layout(h, f, n, P) /\ Layout(g, f, n, P) /\ g.brk = h.brk
      /\ SizesSame(h.mem, g.mem, Members(f, n) \cup P)
  BY DEF Alike
<1>2. Chain(h, f, n) /\ Chain(g, f, n) /\ n \in Nat
  BY <1>1, LayoutParts
<1>3. g.root = h.root /\ g.end = h.end
  BY <1>2 DEF Chain
<1>4. \A nth \in 1 .. n : f[nth] \in Members(f, n)
  BY DEF Members
<1> QED BY <1>1, <1>2, <1>3, <1>4 DEF SizesSame

\* The sizes decide where a block is put.
LEMMA SpotSame ==
  ASSUME NEW m, NEW o, NEW f, NEW n \in Nat, NEW b, Size(o, b) = Size(m, b),
         \A nth \in 1 .. n : Size(o, f[nth]) = Size(m, f[nth])
  PROVE  Spot(o, f, n, b) = Spot(m, f, n, b)
<1>1. {nth \in 1 .. n : Size(o, b) <= Size(o, f[nth])}
        = {nth \in 1 .. n : Size(m, b) <= Size(m, f[nth])}
  OBVIOUS
<1>2. n # 0 => Size(o, f[1]) = Size(m, f[1]) /\ Size(o, f[n]) = Size(m, f[n])
  OBVIOUS
<1> DEFINE S(w) == {nth \in 1 .. n : Size(w, b) <= Size(w, f[nth])}
<1>3. CASE n = 0
  BY <1>3 DEF Spot
<1>4. CASE n # 0 /\ Size(m, b) <= Size(m, f[1])
  BY <1>2, <1>4 DEF Spot
<1>5. CASE n # 0 /\ ~ (Size(m, b) <= Size(m, f[1])) /\ Size(m, b) >= Size(m, f[n])
  BY <1>2, <1>5 DEF Spot
<1>6. CASE n # 0 /\ ~ (Size(m, b) <= Size(m, f[1])) /\ ~ (Size(m, b) >= Size(m, f[n]))
  <2>1. Spot(o, f, n, b) = CHOOSE k \in S(o) : \A nth \in S(o) : k <= nth
    BY <1>2, <1>6 DEF Spot
  <2>2. Spot(m, f, n, b) = CHOOSE k \in S(m) : \A nth \in S(m) : k <= nth
    BY <1>6 DEF Spot
  <2>3. S(o) = S(m)
    BY <1>1
  <2> HIDE DEF S
  <2> QED BY <2>1, <2>2, <2>3
<1> QED BY <1>3, <1>4, <1>5, <1>6

\* Kept blocks keep their sizes.
LEMMA KeptAlike ==
  ASSUME NEW h, NEW f, NEW n, NEW P, Layout(h, f, n, P), NEW C,
         C \subseteq Members(f, n) \cup P, NEW m, Keeps(h.mem, m, C)
  PROVE  SizesSame(h.mem, m, C)
<1>1. PICK B : B = Members(f, n) \cup P /\ C \subseteq B
  OBVIOUS
<1>2. h.mem \in [Addresses -> Nat] /\ h.brk \in 4 .. MAX_HEAP /\ BlocksOf(h.mem, h.brk, B)
  BY <1>1, LayoutParts
<1>3. \A b \in C : SameBlock(h.mem, m, b)
  BY <1>1, <1>2, KeptSame
<1> QED BY <1>3 DEF SizesSame, SameBlock

(* add_free_block puts a block at the same place of both lists.            *)
LEMMA AlikeInserts ==
  ASSUME NEW h, NEW g, NEW f, NEW n, NEW P, Alike(h, g, f, n, P), NEW p \in P,
         ~ Allocated(h.mem, p), ~ Allocated(g.mem, p),
         NEW x, x = Mm!add_free_block(h, p), NEW y, y = Mm!add_free_block(g, p)
  PROVE  \E e, l : Alike(x, y, e, l, P \ {p})
<1>1. /\ Layout(h, f, n, P) /\ Layout(g, f, n, P) /\ g.brk = h.brk /\ n \in Nat
      /\ Size(g.mem, p) = Size(h.mem, p)
      /\ \A nth \in 1 .. n : Size(g.mem, f[nth]) = Size(h.mem, f[nth])
  BY AlikeParts
<1>2. Spot(g.mem, f, n, p) = Spot(h.mem, f, n, p)
  BY <1>1, SpotSame
<1>3. PICK e, l : e = InsertedAt(f, n, Spot(h.mem, f, n, p), p) /\ l = n + 1
  OBVIOUS
<1>4. e = InsertedAt(f, n, Spot(g.mem, f, n, p), p)
  BY <1>2, <1>3
<1>5. OnList(h, x, f, n, e, l, P, p)
  BY <1>1, <1>3, Inserts
<1>6. OnList(g, y, f, n, e, l, P, p)
  BY <1>1, <1>3, <1>4, Inserts
<1>7. SizesSame(x.mem, y.mem, Members(e, l) \cup (P \ {p}))
  <2>1. /\ SizesSame(h.mem, x.mem, Members(f, n) \cup P)
        /\ SizesSame(g.mem, y.mem, Members(f, n) \cup P)
        /\ SizesSame(h.mem, g.mem, Members(f, n) \cup P)
        /\ Members(e, l) = Members(f, n) \cup {p}
    BY <1>5, <1>6 DEF OnList, Alike
  <2>2. SizesSame(x.mem, y.mem, Members(f, n) \cup P)
    BY <2>1 DEF SizesSame
  <2>3. Members(e, l) \cup (P \ {p}) \subseteq Members(f, n) \cup P
    BY <2>1
  <2> QED BY <2>2, <2>3 DEF SizesSame
<1>8. Alike(x, y, e, l, P \ {p})
  BY <1>1, <1>5, <1>6, <1>7 DEF OnList, Alike
<1> QED BY <1>8
(* A block taken off both lists and cut to the same size.                  *)
LEMMA AlikeTaken ==
  ASSUME NEW h, NEW g, NEW f, NEW n, NEW P, Alike(h, g, f, n, P), NEW k \in 1 .. n,
         NEW asize \in Nat, asize % 2 = 0, asize >= 4, asize <= Size(h.mem, f[k]),
         NEW x, x = Mm!Taken(h, f[k], asize), NEW y, y = Mm!Taken(g, f[k], asize)
  PROVE  \E e, l : Alike(x, y, e, l, P \cup {f[k]})
<1>1. PICK bp, csize : bp = f[k] /\ csize = Size(h.mem, bp)
  OBVIOUS
<1>2. /\ Layout(h, f, n, P) /\ Layout(g, f, n, P) /\ g.brk = h.brk
      /\ bp \in Members(f, n) /\ Size(g.mem, bp) = csize /\ asize <= Size(g.mem, bp)
      /\ SizesSame(h.mem, g.mem, Members(f, n) \cup P)
  <2>1. /\ Layout(h, f, n, P) /\ Layout(g, f, n, P) /\ g.brk = h.brk
        /\ f[k] \in Members(f, n) /\ Size(g.mem, f[k]) = Size(h.mem, f[k])
    BY AlikeParts
  <2>2. SizesSame(h.mem, g.mem, Members(f, n) \cup P)
    BY DEF Alike
  <2> QED BY <1>1, <2>1, <2>2
<1>3. PICK e, l : e = Removed(f, n, k) /\ l = n - 1
  OBVIOUS
<1>4. PICK t : t = [Mm!remove_free_block(h, bp) EXCEPT !.mem = PutTags(@, bp, asize, 1)]
  OBVIOUS
<1>5. PICK v : v = [Mm!remove_free_block(g, bp) EXCEPT !.mem = PutTags(@, bp, asize, 1)]
  OBVIOUS
<1>6. PICK u : u = [t EXCEPT !.mem = PutTags(@, bp + asize, csize - asize, 0)]
  OBVIOUS
<1>7. PICK w : w = [v EXCEPT !.mem = PutTags(@, bp + asize, csize - asize, 0)]
  OBVIOUS
<1>8. TakenWith(bp, asize, csize, t, u, x)
  <2>1. x = Mm!Taken(h, bp, asize)
    BY <1>1
  <2> QED BY <1>1, <1>4, <1>6, <2>1, TakenIs
<1>9. TakenWith(bp, asize, csize, v, w, y)
  <2>1. y = Mm!Taken(g, bp, asize)
    BY <1>1
  <2> QED BY <1>2, <1>5, <1>7, <2>1, TakenIs
<1>10. CutOff(h, t, f, n, e, l, P, bp, asize)
  <2>1. t = [Mm!remove_free_block(h, f[k]) EXCEPT !.mem = PutTags(@, f[k], asize, 1)]
    BY <1>1, <1>4
  <2>2. CutOff(h, t, f, n, e, l, P, f[k], asize)
    BY <1>2, <1>3, <2>1, Cuts
  <2> QED BY <1>1, <2>2
<1>11. CutOff(g, v, f, n, e, l, P, bp, asize)
  <2>1. v = [Mm!remove_free_block(g, f[k]) EXCEPT !.mem = PutTags(@, f[k], asize, 1)]
    BY <1>1, <1>5
  <2>2. asize <= Size(g.mem, f[k])
    BY <1>1, <1>2
  <2>3. CutOff(g, v, f, n, e, l, P, f[k], asize)
    BY <1>2, <1>3, <2>1, <2>2, Cuts
  <2> QED BY <1>1, <2>3
<1>12. PICK Q, B : Q = P \cup {bp} /\ B = Members(e, l) \cup Q
  OBVIOUS
<1>13. /\ Layout(t, e, l, Q) /\ Layout(v, e, l, Q) /\ v.brk = t.brk
       /\ Members(e, l) = Members(f, n) \ {bp} /\ B = Members(f, n) \cup P
       /\ Size(t.mem, bp) = asize /\ Size(v.mem, bp) = asize
       /\ SizesSame(h.mem, t.mem, (Members(f, n) \cup P) \ {bp})
       /\ SizesSame(g.mem, v.mem, (Members(f, n) \cup P) \ {bp})
  BY <1>2, <1>10, <1>11, <1>12 DEF CutOff
<1>14. SizesSame(t.mem, v.mem, B)
  BY <1>2, <1>13 DEF SizesSame
<1>15. Alike(t, v, e, l, Q)
  BY <1>12, <1>13, <1>14 DEF Alike
<1>16. CASE csize - asize >= 4
  <2>1. PICK rest : rest = bp + asize
    OBVIOUS
  <2>2. x = Mm!add_free_block(u, rest) /\ y = Mm!add_free_block(w, rest)
    BY <1>8, <1>9, <1>16, <2>1 DEF TakenWith
  <2>3. LeftOver(h, t, u, e, l, P, bp, asize)
    <3>1. u = [t EXCEPT !.mem = PutTags(@, bp + asize, Size(h.mem, bp) - asize, 0)]
      BY <1>1, <1>6
    <3>2. HeapType(t) /\ Size(h.mem, bp) - asize >= 4
      BY <1>1, <1>13, <1>16, LayoutParts
    <3> QED BY <1>2, <1>10, <3>1, <3>2, LeavesRest
  <2>4. LeftOver(g, v, w, e, l, P, bp, asize)
    <3>1. w = [v EXCEPT !.mem = PutTags(@, bp + asize, Size(g.mem, bp) - asize, 0)]
      BY <1>2, <1>7
    <3>2. HeapType(v) /\ Size(g.mem, bp) - asize >= 4
      BY <1>2, <1>13, <1>16, LayoutParts
    <3> QED BY <1>2, <1>11, <3>1, <3>2, LeavesRest
  <2>5. PICK R : R = Q \cup {rest}
    OBVIOUS
  <2>6. /\ Layout(u, e, l, R) /\ Layout(w, e, l, R) /\ u.brk = t.brk /\ w.brk = v.brk
        /\ rest \notin B /\ ~ Allocated(u.mem, rest) /\ ~ Allocated(w.mem, rest)
        /\ Size(u.mem, rest) = csize - asize /\ Size(w.mem, rest) = csize - asize
        /\ Keeps(t.mem, u.mem, B) /\ Keeps(v.mem, w.mem, B)
    BY <1>1, <1>2, <1>12, <2>1, <2>3, <2>4, <2>5 DEF LeftOver
  <2>7. SizesSame(t.mem, u.mem, B) /\ SizesSame(v.mem, w.mem, B)
    BY <1>12, <1>13, <2>6, KeptAlike
  <2>8. SizesSame(u.mem, w.mem, Members(e, l) \cup R)
    <3>1. Members(e, l) \cup R = B \cup {rest}
      BY <1>12, <2>5
    <3>2. SizesSame(u.mem, w.mem, B \cup {rest})
      BY <1>14, <2>6, <2>7 DEF SizesSame
    <3> QED BY <3>1, <3>2
  <2>9. Alike(u, w, e, l, R)
    BY <1>13, <2>6, <2>8 DEF Alike
  <2>10. R \ {rest} = Q /\ rest \in R
    BY <1>12, <2>5, <2>6
  <2>11. \E a, c : Alike(x, y, a, c, R \ {rest})
    BY <2>2, <2>6, <2>9, <2>10, AlikeInserts
  <2> QED BY <1>1, <1>12, <2>10, <2>11
<1>17. CASE ~ (csize - asize >= 4)
  <2>1. x = t /\ y = v
    BY <1>8, <1>9, <1>17 DEF TakenWith
  <2> QED BY <1>1, <1>12, <1>15, <2>1
<1> QED BY <1>16, <1>17

(* A new block at the same break of both.                                  *)
LEMMA AlikeExtended ==
  ASSUME NEW h, NEW g, NEW f, NEW n, NEW P, Alike(h, g, f, n, P),
         NEW asize \in Nat, asize % 2 = 0, asize >= 4, h.brk + asize <= MAX_HEAP,
         NEW x, x = Mm!Extended(h, asize), NEW y, y = Mm!Extended(g, asize)
  PROVE  Alike(x, y, f, n, P \cup {h.brk})
<1>1. PICK B, bp : B = Members(f, n) \cup P /\ bp = h.brk
  OBVIOUS
<1>2. /\ Layout(h, f, n, P) /\ Layout(g, f, n, P) /\ g.brk = bp
      /\ SizesSame(h.mem, g.mem, B)
  BY <1>1 DEF Alike
<1>3. Beyond(h, x, f, n, P, bp, asize)
  BY <1>1, <1>2, ExtendedAt
<1>4. Beyond(g, y, f, n, P, bp, asize)
  <2>1. g.brk + asize <= MAX_HEAP
    BY <1>1, <1>2
  <2>2. Beyond(g, y, f, n, P, g.brk, asize)
    BY <1>2, <2>1, ExtendedAt
  <2> QED BY <1>2, <2>2
<1>5. /\ Layout(x, f, n, P \cup {bp}) /\ Layout(y, f, n, P \cup {bp})
      /\ x.brk = bp + asize /\ y.brk = bp + asize
      /\ Size(x.mem, bp) = asize /\ Size(y.mem, bp) = asize
      /\ Keeps(h.mem, x.mem, B) /\ Keeps(g.mem, y.mem, B)
  BY <1>1, <1>3, <1>4 DEF Beyond
<1>6. SizesSame(h.mem, x.mem, B) /\ SizesSame(g.mem, y.mem, B)
  BY <1>1, <1>2, <1>5, KeptAlike
<1>7. SizesSame(x.mem, y.mem, B \cup {bp})
  BY <1>2, <1>5, <1>6 DEF SizesSame
<1>8. B \cup {bp} = Members(f, n) \cup (P \cup {bp})
  BY <1>1
<1> QED BY <1>1, <1>5, <1>7, <1>8 DEF Alike

\* Both searches find the same block.
LEMMA AlikeChosen ==
  ASSUME NEW h, NEW g, NEW f, NEW n, NEW P, Alike(h, g, f, n, P), NEW asize \in Nat,
         Mm!Searches(h, asize)
  PROVE  Mm!Chosen(g, asize) = Mm!Chosen(h, asize)
<1>1. /\ Layout(h, f, n, P) /\ Layout(g, f, n, P) /\ g.root = h.root /\ g.end = h.end
      /\ n \in Nat /\ \A nth \in 1 .. n : Size(g.mem, f[nth]) = Size(h.mem, f[nth])
  BY AlikeParts
<1>2. Chain(h, f, n) /\ Chain(g, f, n)
  BY <1>1, LayoutParts
<1>3. /\ h.root # NULL /\ asize >= Size(h.mem, h.root)
      /\ h.end # NULL /\ asize <= Size(h.mem, h.end)
  BY SameMacros DEF Mm!Searches
<1>4. n # 0 /\ h.root = f[1] /\ h.end = f[n] /\ 1 \in 1 .. n /\ n \in 1 .. n
  <2>1. n # 0
    BY <1>1, <1>2, <1>3 DEF Chain
  <2> QED BY <1>1, <1>2, <2>1 DEF Chain
<1>5. Size(g.mem, h.root) = Size(h.mem, h.root) /\ Size(g.mem, h.end) = Size(h.mem, h.end)
  BY <1>1, <1>4
<1>6. Mm!find_fit(g, asize, g.root) = Mm!find_fit(h, asize, h.root)
  <2> DEFINE Large == {nth \in 1 .. n : asize <= Size(h.mem, f[nth])}
  <2>1. PICK k \in Large : \A nth \in Large : k <= nth
    <3>1. n \in Large /\ Large \in SUBSET Nat
      BY <1>1, <1>3, <1>4
    <3> HIDE DEF Large
    <3> QED BY <3>1, LeastNat
  <2>2. k \in 1 .. n /\ asize <= Size(h.mem, f[k]) /\ asize <= Size(g.mem, f[k])
    BY <1>1
  <2>3. ASSUME NEW nth \in 1 .. k - 1
        PROVE  ~ (asize <= Size(h.mem, f[nth])) /\ ~ (asize <= Size(g.mem, f[nth]))
    <3>1. nth \in 1 .. n /\ ~ (k <= nth)
      BY <1>1, <2>2
    <3>2. nth \notin Large
      <4> HIDE DEF Large
      <4> QED BY <2>1, <3>1
    <3> QED BY <1>1, <3>1, <3>2
  <2>4. /\ \A nth \in 1 .. k - 1 : ~ (asize <= Size(h.mem, f[nth]))
        /\ \A nth \in 1 .. k - 1 : ~ (asize <= Size(g.mem, f[nth]))
    BY <2>3
  <2> HIDE DEF Large
  <2>5. Mm!find_fit(h, asize, h.root) = f[k]
    BY ONLY <1>2, <2>2, <2>4, FindFit
  <2>6. Mm!find_fit(g, asize, g.root) = f[k]
    BY ONLY <1>2, <2>2, <2>4, FindFit
  <2> QED BY <2>5, <2>6
<1>7. PICK a, b, c : /\ a = Mm!find_fit(h, asize, h.root) /\ b = Size(h.mem, h.root)
                     /\ c = Size(h.mem, h.end)
  OBVIOUS
<1>8. Mm!Chosen(h, asize) = IF asize = b THEN h.root ELSE IF asize = c THEN h.end ELSE a
  BY <1>7, SameMacros DEF Mm!Chosen
<1>9. Mm!Chosen(g, asize) = IF asize = b THEN h.root ELSE IF asize = c THEN h.end ELSE a
  BY <1>1, <1>5, <1>6, <1>7, SameMacros DEF Mm!Chosen
<1> QED BY <1>8, <1>9

(* mm_malloc and mm_free give both heaps the same blocks again.            *)
LEMMA AlikeMalloc ==
  ASSUME NEW h, NEW g, NEW f, NEW n, NEW P, Alike(h, g, f, n, P), NEW size \in Nat,
         NEW r, r = Mm!mm_malloc(h, size), r.bp # NULL, NEW q, q = Mm!mm_malloc(g, size)
  PROVE  q.bp = r.bp /\ \E e, l : Alike(r.heap, q.heap, e, l, P \cup {r.bp})
<1>1. PICK asize : asize = adjusted(size)
  OBVIOUS
<1>2. /\ Layout(h, f, n, P) /\ Layout(g, f, n, P) /\ g.brk = h.brk
      /\ g.root = h.root /\ g.end = h.end /\ n \in Nat
      /\ \A nth \in 1 .. n : Size(g.mem, f[nth]) = Size(h.mem, f[nth])
  BY AlikeParts
<1>3. r = IF Spurious(size) THEN [heap |-> h, bp |-> NULL]
          ELSE IF Mm!Searches(h, asize)
          THEN [heap |-> Mm!Taken(h, Mm!Chosen(h, asize), asize), bp |-> Mm!Chosen(h, asize)]
          ELSE IF h.brk + asize <= MAX_HEAP
          THEN [heap |-> Mm!Extended(h, asize), bp |-> h.brk]
          ELSE [heap |-> h, bp |-> NULL]
  BY <1>1, SameMacros DEF Mm!mm_malloc
<1>4. q = IF Spurious(size) THEN [heap |-> g, bp |-> NULL]
          ELSE IF Mm!Searches(g, asize)
          THEN [heap |-> Mm!Taken(g, Mm!Chosen(g, asize), asize), bp |-> Mm!Chosen(g, asize)]
          ELSE IF h.brk + asize <= MAX_HEAP
          THEN [heap |-> Mm!Extended(g, asize), bp |-> h.brk]
          ELSE [heap |-> g, bp |-> NULL]
  BY <1>1, <1>2, SameMacros DEF Mm!mm_malloc
<1>5. ~ Spurious(size)
  BY <1>3
<1>6. asize \in Nat /\ asize % 2 = 0 /\ asize >= 4
  BY <1>1, <1>5, AdjustedFits
<1>7. Mm!Searches(g, asize) <=> Mm!Searches(h, asize)
  <2>1. Chain(h, f, n)
    BY <1>2, LayoutParts
  <2>2. CASE n = 0
    BY <1>2, <2>1, <2>2, SameMacros DEF Chain, Mm!Searches
  <2>3. CASE n # 0
    <3>1. h.root = f[1] /\ h.end = f[n] /\ 1 \in 1 .. n /\ n \in 1 .. n
      BY <1>2, <2>1, <2>3 DEF Chain
    <3>2. Size(g.mem, h.root) = Size(h.mem, h.root) /\ Size(g.mem, h.end) = Size(h.mem, h.end)
      BY <1>2, <3>1
    <3> QED BY <1>2, <3>2, SameMacros DEF Mm!Searches
  <2> QED BY <2>2, <2>3
<1>8. CASE Mm!Searches(h, asize)
  <2>1. PICK k \in 1 .. n : Mm!Chosen(h, asize) = f[k] /\ asize <= Size(h.mem, f[k])
    BY <1>2, <1>6, <1>8, ChosenFits
  <2>2. Mm!Chosen(g, asize) = f[k]
    BY <1>6, <1>8, <2>1, AlikeChosen
  <2>3. /\ r.heap = Mm!Taken(h, f[k], asize) /\ r.bp = f[k]
        /\ q.heap = Mm!Taken(g, f[k], asize) /\ q.bp = f[k]
    BY <1>3, <1>4, <1>5, <1>7, <1>8, <2>1, <2>2
  <2>4. \E e, l : Alike(r.heap, q.heap, e, l, P \cup {f[k]})
    BY <1>6, <2>1, <2>3, AlikeTaken
  <2> QED BY <2>3, <2>4
<1>9. CASE ~ Mm!Searches(h, asize)
  <2>1. h.brk + asize <= MAX_HEAP
    BY <1>3, <1>5, <1>9
  <2>2. /\ r.heap = Mm!Extended(h, asize) /\ r.bp = h.brk
        /\ q.heap = Mm!Extended(g, asize) /\ q.bp = h.brk
    BY <1>3, <1>4, <1>5, <1>7, <1>9, <2>1
  <2>3. Alike(r.heap, q.heap, f, n, P \cup {h.brk})
    BY <1>6, <2>1, <2>2, AlikeExtended
  <2> QED BY <2>2, <2>3
<1> QED BY <1>8, <1>9

\* A free puts its block in the same place of both lists.
LEMMA AlikeFree ==
  ASSUME NEW h, NEW g, NEW f, NEW n, NEW P, Alike(h, g, f, n, P), NEW p \in P,
         NEW x, x = Mm!mm_free(h, p), NEW y, y = Mm!mm_free(g, p)
  PROVE  \E e, l : Alike(x, y, e, l, P \ {p})
<1>1. /\ Layout(h, f, n, P) /\ Layout(g, f, n, P) /\ g.brk = h.brk
      /\ SizesSame(h.mem, g.mem, Members(f, n) \cup P)
  BY DEF Alike
<1>2. PICK t : t = [h EXCEPT !.mem = PutTags(@, p, Size(h.mem, p), 0)]
  OBVIOUS
<1>3. PICK u : u = [g EXCEPT !.mem = PutTags(@, p, Size(g.mem, p), 0)]
  OBVIOUS
<1>4. FreeTagged(h, t, x, f, n, P, p) /\ FreeTagged(g, u, y, f, n, P, p)
  BY <1>1, <1>2, <1>3, FreeTags
<1>5. PICK C : C = (Members(f, n) \cup P) \ {p} /\ C \subseteq Members(f, n) \cup P
  OBVIOUS
<1>6. /\ x = Mm!add_free_block(t, p) /\ Layout(t, f, n, P) /\ ~ Allocated(t.mem, p)
      /\ y = Mm!add_free_block(u, p) /\ Layout(u, f, n, P) /\ ~ Allocated(u.mem, p)
      /\ t.brk = h.brk /\ u.brk = g.brk
      /\ Size(t.mem, p) = Size(h.mem, p) /\ Size(u.mem, p) = Size(g.mem, p)
      /\ Keeps(h.mem, t.mem, C) /\ Keeps(g.mem, u.mem, C)
  BY <1>4, <1>5 DEF FreeTagged
<1>7. SizesSame(h.mem, t.mem, C) /\ SizesSame(g.mem, u.mem, C)
  BY <1>1, <1>5, <1>6, KeptAlike
<1>8. SizesSame(t.mem, u.mem, Members(f, n) \cup P)
  <2> SUFFICES ASSUME NEW b \in Members(f, n) \cup P PROVE Size(u.mem, b) = Size(t.mem, b)
    BY DEF SizesSame
  <2>1. Size(g.mem, b) = Size(h.mem, b)
    BY <1>1 DEF SizesSame
  <2>2. CASE b = p
    BY <1>6, <2>1, <2>2
  <2>3. CASE b # p
    <3>1. b \in C
      BY <1>5, <2>3
    <3> QED BY <1>7, <2>1, <3>1 DEF SizesSame
  <2> QED BY <2>2, <2>3
<1>9. Alike(t, u, f, n, P)
  BY <1>1, <1>6, <1>8 DEF Alike
<1> QED BY <1>6, <1>9, AlikeInserts

(* The driver fills a payload of one of them.                              *)
LEMMA AlikeFilled ==
  ASSUME NEW h, NEW g, NEW s, NEW f, NEW n, Held(h, s, f, n), Alike(h, g, f, n, DOMAIN s),
         NEW p \in DOMAIN s, NEW W, W \subseteq Payload(p, s[p]), NEW d \in Nat,
         NEW x, x = [h EXCEPT !.mem = Filled(h.mem, W, d)]
  PROVE  Held(x, s, f, n) /\ Alike(x, g, f, n, DOMAIN s)
<1>1. HeldStill(h, x, s, f, n, p, Filled(h.mem, W, d))
  BY HeldFilled
<1>2. /\ Held(x, s, f, n) /\ x.brk = h.brk
      /\ SizesSame(h.mem, x.mem, Members(f, n) \cup DOMAIN s)
  BY <1>1 DEF HeldStill
<1>3. /\ Layout(g, f, n, DOMAIN s) /\ g.brk = h.brk
      /\ SizesSame(h.mem, g.mem, Members(f, n) \cup DOMAIN s)
  BY DEF Alike
<1>4. SizesSame(x.mem, g.mem, Members(f, n) \cup DOMAIN s)
  BY <1>2, <1>3 DEF SizesSame
<1> QED BY <1>2, <1>3, <1>4 DEF Held, Alike

\* Both after mm_init.
LEMMA AlikeInit ==
  ASSUME NEW h, h.mem \in [Addresses -> Nat], NEW g, g.mem \in [Addresses -> Nat],
         NEW x, x = Mm!mm_init(h), NEW y, y = Mm!mm_init(g), NEW s, s = <<>>
  PROVE  Held(x, s, <<>>, 0) /\ Alike(x, y, <<>>, 0, DOMAIN s)
<1>1. DOMAIN s = {} /\ Members(<<>>, 0) = {}
  BY DEF Members
<1>2. Held(x, s, <<>>, 0) /\ Held(y, s, <<>>, 0)
  BY MmInits
<1>3. x.brk = 4 /\ y.brk = 4
  BY DEF Mm!mm_init
<1>4. SizesSame(x.mem, y.mem, Members(<<>>, 0) \cup DOMAIN s)
  BY <1>1 DEF SizesSame
<1> QED BY <1>2, <1>3, <1>4 DEF Held, Alike

----------------------------------------------------------------------------
(* The pass that checks and a later one: two heaps of either allocator,    *)
(* with payloads at P and, besides what those hold, the same words.        *)

Twins(pkg, h, g, P) ==
  IF pkg = "mm.c" THEN \E f, n : Alike(h, g, f, n, P) ELSE SameShape(h, g, P)

\* Twins are of the same size.
LEMMA TwinsBreak ==
  ASSUME NEW pkg, NEW h, NEW g, NEW P, Twins(pkg, h, g, P)
  PROVE  g.brk = h.brk
BY DEF Twins, Alike, SameShape

\* What the driver fills is not looked at.
LEMMA FillsWithin ==
  ASSUME NEW h, NEW s, NEW D, Tidy(h, s, D), NEW p \in DOMAIN s, NEW d \in Nat
  PROVE  WritesWithin(h.mem, Filled(h.mem, Payload(p, s[p]), d), p)
<1>1. PICK w, z : w = PayloadWords(s[p]) /\ z = Size(h.mem, p)
  OBVIOUS
<1>2. WellFormed(h, D, DOMAIN s) /\ s[p] \in Nat \ {0} /\ w + 2 <= z
  BY <1>1 DEF Tidy
<1>3. w \in Nat
  BY <1>1, <1>2, PayloadFacts
<1>4. /\ p \in Nat /\ z \in Nat /\ h.mem \in [Addresses -> Nat]
      /\ FTRP(h.mem, p) = p + z - 2
  BY <1>1, <1>2, HeldFacts
<1>5. Payload(p, s[p]) = p .. p + w - 1
  BY <1>1 DEF Payload
<1>6. ASSUME NEW a \in Payload(p, s[p]) PROVE a \in p .. FTRP(h.mem, p) - 1
  BY <1>2, <1>3, <1>4, <1>5, <1>6
<1>7. Filled(h.mem, Payload(p, s[p]), d) =
        [a \in Addresses |-> IF a \in Payload(p, s[p]) THEN d ELSE h.mem[a]]
  BY <1>4 DEF Filled
<1> QED BY <1>4, <1>6, <1>7 DEF WritesWithin

(* Each step keeps them twins: the payloads of h are s, or with the        *)
(* driver's tables those of L.                                             *)
LEMMA TwinsInit ==
  ASSUME NEW pkg, NEW h, h.mem \in [Addresses -> Nat], NEW g, g.mem \in [Addresses -> Nat]
  PROVE  Twins(pkg, InitOf(pkg, h), InitOf(pkg, g), {})
<1>1. CASE pkg = "mm.c"
  <2>1. PICK s : s = <<>> /\ DOMAIN s = {}
    <3>1. DOMAIN <<>> = {}
      OBVIOUS
    <3> QED BY <3>1
  <2>2. PICK x, y : x = Mm!mm_init(h) /\ y = Mm!mm_init(g)
    OBVIOUS
  <2>3. Alike(x, y, <<>>, 0, DOMAIN s)
    BY <2>1, <2>2, AlikeInit
  <2> QED BY <1>1, <2>1, <2>2, <2>3 DEF Twins, InitOf
<1>2. CASE pkg # "mm.c"
  <2>1. PICK m, n : m = h.mem /\ n = g.mem
    OBVIOUS
  <2>2. SameShape(mm_init(m), mm_init(n), {})
    BY <2>1, InitsShape
  <2> QED BY <1>2, <2>1, <2>2 DEF Twins, InitOf
<1> QED BY <1>1, <1>2

\* mm_malloc of both returns the same pointer.
LEMMA TwinsMalloc ==
  ASSUME NEW pkg, NEW h, NEW s, Sound(pkg, h, s), NEW g, Twins(pkg, h, g, DOMAIN s),
         NEW size \in Nat, NEW r, r = MallocOf(pkg, h, size), r.bp # NULL,
         NEW q, q = MallocOf(pkg, g, size)
  PROVE  q.bp = r.bp /\ Twins(pkg, r.heap, q.heap, DOMAIN s \cup {r.bp})
<1>1. CASE pkg = "mm.c"
  <2>1. PICK f, n : Alike(h, g, f, n, DOMAIN s)
    BY <1>1 DEF Twins
  <2>2. r = Mm!mm_malloc(h, size) /\ q = Mm!mm_malloc(g, size)
    BY <1>1 DEF MallocOf
  <2>3. PICK P : P = DOMAIN s
    OBVIOUS
  <2>4. q.bp = r.bp /\ \E e, l : Alike(r.heap, q.heap, e, l, P \cup {r.bp})
    BY <2>1, <2>2, <2>3, AlikeMalloc
  <2> QED BY <1>1, <2>3, <2>4 DEF Twins
<1>2. CASE pkg # "mm.c"
  <2>1. PICK D : Tidy(h, s, D)
    BY <1>2 DEF Sound
  <2>2. PICK P : P = DOMAIN s
    OBVIOUS
  <2>3. WellFormed(h, D, P) /\ SameShape(h, g, P)
    BY <1>2, <2>1, <2>2 DEF Tidy, Twins
  <2>4. r = mm_malloc(h, size) /\ q = mm_malloc(g, size)
    BY <1>2 DEF MallocOf
  <2>5. q.bp = r.bp /\ (r.bp # NULL => SameShape(r.heap, q.heap, P \cup {r.bp}))
    BY <2>3, <2>4, MallocsShape
  <2> QED BY <1>2, <2>2, <2>5 DEF Twins
<1> QED BY <1>1, <1>2

\* mm_free of the same payload in both.
LEMMA TwinsFree ==
  ASSUME NEW pkg, NEW h, NEW s, Sound(pkg, h, s), NEW g, Twins(pkg, h, g, DOMAIN s),
         NEW p \in DOMAIN s
  PROVE  Twins(pkg, FreeOf(pkg, h, p), FreeOf(pkg, g, p), DOMAIN s \ {p})
<1>1. PICK x, y, P : x = FreeOf(pkg, h, p) /\ y = FreeOf(pkg, g, p) /\ P = DOMAIN s
  OBVIOUS
<1>2. CASE pkg = "mm.c"
  <2>1. PICK f, n : Alike(h, g, f, n, P)
    BY <1>1, <1>2 DEF Twins
  <2>2. x = Mm!mm_free(h, p) /\ y = Mm!mm_free(g, p) /\ p \in P
    BY <1>1, <1>2 DEF FreeOf
  <2>3. \E e, l : Alike(x, y, e, l, P \ {p})
    BY <2>1, <2>2, AlikeFree
  <2> QED BY <1>1, <1>2, <2>3 DEF Twins
<1>3. CASE pkg # "mm.c"
  <2>1. PICK D : Tidy(h, s, D)
    BY <1>3 DEF Sound
  <2>2. WellFormed(h, D, P) /\ SameShape(h, g, P) /\ p \in P
    BY <1>1, <1>3, <2>1 DEF Tidy, Twins
  <2>3. SameShape(mm_free(h, p), mm_free(g, p), P \ {p})
    BY <2>2, FreedShape
  <2> QED BY <1>1, <1>3, <2>3 DEF Twins, FreeOf
<1> QED BY <1>2, <1>3

\* mm_realloc of both returns the same pointer, whatever data it moves.
LEMMA TwinsRealloc ==
  ASSUME NEW pkg, pkg # "mm.c", NEW h, NEW s, Sound(pkg, h, s),
         NEW g, Twins(pkg, h, g, DOMAIN s), NEW p \in DOMAIN s, NEW size \in Nat,
         NEW r, r = mm_realloc(h, p, size), r.bp # NULL, NEW q, q = mm_realloc(g, p, size)
  PROVE  q.bp = r.bp /\ Twins(pkg, r.heap, q.heap, (DOMAIN s \ {p}) \cup {r.bp})
<1>1. PICK D : Tidy(h, s, D)
  BY DEF Sound
<1>2. PICK P : P = DOMAIN s
  OBVIOUS
<1>3. WellFormed(h, D, P) /\ SameShape(h, g, P) /\ p \in P
  BY <1>1, <1>2 DEF Tidy, Twins
<1>4. q.bp = r.bp /\ (r.bp # NULL => SameShape(r.heap, q.heap, (P \ {p}) \cup {r.bp}))
  BY <1>3, ReallocsShape
<1> QED BY <1>2, <1>4 DEF Twins

\* Only the heap of the check is marked.
LEMMA TwinsFill ==
  ASSUME NEW pkg, NEW h, NEW s, Sound(pkg, h, s), NEW g, Twins(pkg, h, g, DOMAIN s),
         NEW p \in DOMAIN s, NEW d \in Nat,
         NEW x, x = [h EXCEPT !.mem = Filled(@, Payload(p, s[p]), d)]
  PROVE  Twins(pkg, x, g, DOMAIN s)
<1>1. PICK W : W = Payload(p, s[p]) /\ W \subseteq Payload(p, s[p])
  OBVIOUS
<1>2. x = [h EXCEPT !.mem = Filled(h.mem, W, d)]
  BY <1>1
<1>3. CASE pkg = "mm.c"
  <2>1. PICK f, n : Alike(h, g, f, n, DOMAIN s)
    BY <1>3 DEF Twins
  <2>2. PICK e, l : Held(h, s, e, l)
    BY <1>3 DEF Sound
  <2>3. Held(h, s, f, n)
    BY <2>1, <2>2 DEF Held, Alike
  <2>4. Alike(x, g, f, n, DOMAIN s)
    BY <1>1, <1>2, <2>1, <2>3, AlikeFilled
  <2> QED BY <1>3, <2>4 DEF Twins
<1>4. CASE pkg # "mm.c"
  <2>1. PICK D : Tidy(h, s, D)
    BY <1>4 DEF Sound
  <2>2. PICK P, n : P = DOMAIN s /\ n = Filled(h.mem, W, d)
    OBVIOUS
  <2>3. WellFormed(h, D, P) /\ SameShape(h, g, P) /\ p \in P
    BY <1>4, <2>1, <2>2 DEF Tidy, Twins
  <2>4. WritesWithin(h.mem, n, p)
    BY <1>1, <2>1, <2>2, FillsWithin
  <2>5. WritesWithin(h.mem, n, p) => SameShape([h EXCEPT !.mem = n], g, P)
    BY <2>3, WrittenShape
  <2> QED BY <1>2, <1>4, <2>2, <2>4, <2>5 DEF Twins
<1> QED BY <1>3, <1>4

Spots(b, L) == {b[x] : x \in L}

Mirrored(pkg, h, g, b, z, L) == Owns(pkg, h, b, z, L) /\ Twins(pkg, h, g, Spots(b, L))

\* Both are reset, from whatever memory each had.
LEMMA MirrorNone ==
  ASSUME NEW pkg, NEW h, h.mem \in [Addresses -> Nat], NEW g, g.mem \in [Addresses -> Nat],
         NEW b, NEW z
  PROVE  Mirrored(pkg, InitOf(pkg, h), InitOf(pkg, g), b, z, {})
<1>1. Spots(b, {}) = {}
  BY DEF Spots
<1>2. Twins(pkg, InitOf(pkg, h), InitOf(pkg, g), {})
  BY TwinsInit
<1>3. Owns(pkg, InitOf(pkg, h), b, z, {})
  BY OwnsNone
<1> QED BY <1>1, <1>2, <1>3 DEF Mirrored

\* The payloads without that of x.
LEMMA SpotLeaves ==
  ASSUME NEW s, NEW b, NEW z, NEW L, Maps(s, b, z, L)
  PROVE  /\ DOMAIN s = Spots(b, L)
         /\ \A x \in L : b[x] \in DOMAIN s /\ DOMAIN s \ {b[x]} = Spots(b, L \ {x})
<1>1. DOMAIN s = Spots(b, L) /\ \A x, y \in L : b[x] = b[y] => x = y
  BY DEF Maps, Spots
<1>2. ASSUME NEW x \in L PROVE b[x] \in DOMAIN s /\ DOMAIN s \ {b[x]} = Spots(b, L \ {x})
  BY <1>1 DEF Spots
<1> QED BY <1>1, <1>2

(* The driver marks the payload of x in one of them.                       *)
LEMMA MirrorMark ==
  ASSUME NEW pkg, NEW h, NEW g, NEW b, NEW z, NEW L, Mirrored(pkg, h, g, b, z, L),
         NEW x \in L, x \in Indices
  PROVE  Mirrored(pkg, Marked(h, RangeOf(b[x], z[x]), x), g, b, z, L)
<1>1. PICK s : Sound(pkg, h, s) /\ Maps(s, b, z, L)
  BY DEF Mirrored, Owns
<1>2. PICK p, d, k : p = b[x] /\ d = Mark(x) /\ k = Marked(h, RangeOf(b[x], z[x]), x)
  OBVIOUS
<1>3. d \in Nat
  BY <1>2, MarkIs
<1>4. p \in DOMAIN s /\ s[p] = z[x] /\ DOMAIN s = Spots(b, L)
  BY <1>1, <1>2, SpotLeaves DEF Maps
<1>5. k = [h EXCEPT !.mem = Filled(@, Payload(b[x], z[x]), d)]
  BY <1>2, RangeIs DEF Marked
<1>6. k = [h EXCEPT !.mem = Filled(@, Payload(p, s[p]), d)]
  BY <1>2, <1>4, <1>5
<1>7. Twins(pkg, h, g, DOMAIN s)
  BY <1>4 DEF Mirrored
<1>8. Twins(pkg, k, g, DOMAIN s)
  BY <1>1, <1>3, <1>4, <1>6, <1>7, TwinsFill
<1>9. Owns(pkg, h, b, z, L)
  BY DEF Mirrored
<1>10. Overwritten(pkg, h, k, b, z, L, x, d)
  BY <1>3, <1>5, <1>9, OwnsFill
<1> QED BY <1>2, <1>4, <1>8, <1>10 DEF Overwritten, Mirrored

(* An allocation or a reallocation gets the same from both.                *)
Mirrors(pkg, r, q, b, z, M, x, size) ==
  /\ q.bp = r.bp /\ q.heap.brk = r.heap.brk
  /\ Mirrored(pkg, Marked(r.heap, RangeOf(r.bp, size), x), q.heap, [b EXCEPT ![x] = r.bp],
              [z EXCEPT ![x] = size], M)

LEMMA MirrorPlace ==
  ASSUME NEW pkg, NEW h, NEW g, NEW b \in [Indices -> Nat], NEW z \in [Indices -> Nat],
         NEW L, NEW M, Mirrored(pkg, h, g, b, z, L), NEW c, \A x \in L : c[x] = b[x],
         NEW ops, NEW nth, NEW op, NthOf(ops, nth, op, L, M), op.type # "f",
         NEW r, CallOf(pkg, h, b, op, r), r.bp # NULL, NEW q, CallOf(pkg, g, c, op, q)
  PROVE  Mirrors(pkg, r, q, b, z, M, op.index, op.size)
<1>1. PICK x, size, u, v, bp :
        x = op.index /\ size = op.size /\ u = r.heap /\ v = q.heap /\ bp = r.bp
  OBVIOUS
<1>2. /\ x \in Indices /\ size \in OpSizes /\ L \in SUBSET Indices
      /\ op.type \in {"a", "r"} /\ LiveStep(op, L, M)
  BY <1>1 DEF NthOf, OpFits
<1>3. size \in Nat
  BY <1>2, DriverFacts DEF DriverNumbers
<1>4. Owns(pkg, h, b, z, L)
  BY DEF Mirrored
<1>5. PlacedAt(pkg, h, r.heap, b, z, L, M, op.index, r.bp, op.size)
  BY <1>4, PlaceStep
<1>6. PICK e, y : e = [b EXCEPT ![x] = bp] /\ y = [z EXCEPT ![x] = size]
  OBVIOUS
<1>7. Owns(pkg, u, e, y, M) /\ x \in M /\ M \ {x} = L \ {x}
  BY <1>1, <1>5, <1>6 DEF PlacedAt
<1>8. PICK s : Sound(pkg, h, s) /\ Maps(s, b, z, L)
  BY <1>4 DEF Owns
<1>9. DOMAIN s = Spots(b, L) /\ Twins(pkg, h, g, DOMAIN s)
  BY <1>8, SpotLeaves DEF Mirrored
<1>10. Spots(e, M) = Spots(b, L \ {x}) \cup {bp}
  <2>1. e[x] = bp /\ \A k \in M \ {x} : k \in Indices /\ e[k] = b[k]
    BY <1>2, <1>6, <1>7
  <2>2. Spots(e, M) = Spots(e, M \ {x}) \cup {bp}
    BY <1>7, <2>1 DEF Spots
  <2>3. Spots(e, M \ {x}) = Spots(b, M \ {x})
    BY <2>1 DEF Spots
  <2> QED BY <1>7, <2>2, <2>3
<1>11. q.bp = r.bp /\ Twins(pkg, u, v, Spots(e, M))
  <2>1. CASE op.type = "a"
    <3>1. L \ {x} = L
      BY <1>1, <1>2, <2>1 DEF LiveStep
    <3>2. r = MallocOf(pkg, h, size) /\ q = MallocOf(pkg, g, size)
      BY <1>1, <2>1 DEF CallOf
    <3>3. q.bp = r.bp /\ Twins(pkg, r.heap, q.heap, DOMAIN s \cup {r.bp})
      BY <1>3, <1>8, <1>9, <3>2, TwinsMalloc
    <3> QED BY <1>1, <1>9, <1>10, <3>1, <3>3
  <2>2. CASE op.type = "r"
    <3>1. x \in L
      BY <1>1, <1>2, <2>2 DEF LiveStep
    <3>2. PICK p : p = b[x] /\ p = c[x]
      BY <3>1
    <3>3. p \in DOMAIN s /\ DOMAIN s \ {p} = Spots(b, L \ {x})
      BY <1>8, <3>1, <3>2, SpotLeaves
    <3>4. pkg # "mm.c" /\ r = mm_realloc(h, p, size) /\ q = mm_realloc(g, p, size)
      BY <1>1, <2>2, <3>2 DEF CallOf
    <3>5. q.bp = r.bp /\ Twins(pkg, r.heap, q.heap, (DOMAIN s \ {p}) \cup {r.bp})
      BY <1>3, <1>8, <1>9, <3>3, <3>4, TwinsRealloc
    <3> QED BY <1>1, <1>10, <3>3, <3>5
  <2> QED BY <1>2, <2>1, <2>2
<1>12. v.brk = u.brk
  BY <1>11, TwinsBreak
<1>13. Mirrored(pkg, u, v, e, y, M)
  BY <1>7, <1>11 DEF Mirrored
<1>14. Mirrored(pkg, Marked(u, RangeOf(e[x], y[x]), x), v, e, y, M)
  BY <1>2, <1>7, <1>13, MirrorMark
<1>15. e[x] = bp /\ y[x] = size
  BY <1>2, <1>6
<1> QED BY <1>1, <1>6, <1>11, <1>12, <1>14, <1>15 DEF Mirrors

\* The same payload is freed in both.
LEMMA MirrorFree ==
  ASSUME NEW pkg, NEW h, NEW g, NEW b, NEW z, NEW L, NEW M, Mirrored(pkg, h, g, b, z, L),
         NEW c, \A k \in L : c[k] = b[k],
         NEW ops, NEW nth, NEW op, NthOf(ops, nth, op, L, M), op.type = "f",
         NEW x, x = FreeOf(pkg, h, b[op.index]), NEW y, y = FreeOf(pkg, g, c[op.index])
  PROVE  y.brk = h.brk /\ c[op.index] = b[op.index] /\ Mirrored(pkg, x, y, b, z, M)
<1>1. PICK k : k = op.index
  OBVIOUS
<1>2. k \in L /\ M = L \ {k} /\ c[k] = b[k]
  BY <1>1 DEF NthOf, LiveStep
<1>3. PICK p : p = b[k] /\ x = FreeOf(pkg, h, p) /\ y = FreeOf(pkg, g, p)
  BY <1>1, <1>2
<1>4. PICK s : Sound(pkg, h, s) /\ Maps(s, b, z, L)
  BY DEF Mirrored, Owns
<1>5. /\ DOMAIN s = Spots(b, L) /\ Twins(pkg, h, g, DOMAIN s)
      /\ p \in DOMAIN s /\ DOMAIN s \ {p} = Spots(b, M)
  BY <1>2, <1>3, <1>4, SpotLeaves DEF Mirrored
<1>6. Twins(pkg, x, y, Spots(b, M))
  BY <1>3, <1>4, <1>5, TwinsFree
<1>7. OwnsLess(pkg, h, x, b, z, L, k)
  BY <1>2, <1>3, OwnsFree DEF Mirrored
<1>8. y.brk = h.brk
  BY <1>6, <1>7, TwinsBreak DEF OwnsLess
<1> QED BY <1>1, <1>2, <1>3, <1>6, <1>7, <1>8 DEF OwnsLess, Mirrored

----------------------------------------------------------------------------
(* What a later pass repeats: st[k] is the heap and the tables of the      *)
(* check after k operations, ans what it was given.                        *)

Tabled(u) == u.b \in [Indices -> Nat] /\ u.z \in [Indices -> Nat]

\* From u to v by an operation.
Placing(pkg, u, op, answer, v, r) ==
  /\ CallOf(pkg, u.heap, u.b, op, r) /\ r.bp # NULL /\ answer = <<r.bp, r.heap.brk>>
  /\ v.heap = Marked(r.heap, RangeOf(r.bp, op.size), op.index)
  /\ v.b = [u.b EXCEPT ![op.index] = r.bp] /\ v.z = [u.z EXCEPT ![op.index] = op.size]

Freeing(pkg, u, op, answer, v) ==
  /\ answer = <<u.b[op.index], u.heap.brk>>
  /\ v.heap = FreeOf(pkg, u.heap, u.b[op.index]) /\ v.b = u.b /\ v.z = u.z

StepOf(pkg, u, op, answer, v) ==
  /\ op.type # "f" => \E r : Placing(pkg, u, op, answer, v, r)
  /\ op.type = "f" => Freeing(pkg, u, op, answer, v)

Starting(pkg, u) == \E h : h.mem \in [Addresses -> Nat] /\ u.heap = InitOf(pkg, h)

Ran(pkg, ops, ans, m, st) ==
  /\ Starting(pkg, st[0]) /\ \A k \in 0 .. m : Tabled(st[k])
  /\ \A k \in 1 .. m : StepOf(pkg, st[k - 1], ops[k], ans[k], st[k])

(* The first m operations lead the check to u.                             *)
Leads(pkg, ops, ans, m, u) == \E st : Ran(pkg, ops, ans, m, st) /\ st[m] = u

\* The history grows by a step.
LEMMA RanMore ==
  ASSUME NEW pkg, NEW ops, NEW ans \in Seq(Nat \X Nat), NEW m \in Nat, Len(ans) = m,
         NEW u, Leads(pkg, ops, ans, m, u), NEW answer \in Nat \X Nat,
         NEW v, Tabled(v), StepOf(pkg, u, ops[m + 1], answer, v)
  PROVE  Leads(pkg, ops, Append(ans, answer), m + 1, v)
<1>1. PICK st : Ran(pkg, ops, ans, m, st) /\ st[m] = u
  BY DEF Leads
<1>2. PICK l : l = Append(ans, answer)
  OBVIOUS
<1>3. l[m + 1] = answer /\ \A k \in 1 .. m : l[k] = ans[k]
  BY <1>2
<1>4. PICK t : t = [k \in 0 .. m + 1 |-> IF k <= m THEN st[k] ELSE v]
  OBVIOUS
<1>5. t[m + 1] = v /\ \A k \in 0 .. m : t[k] = st[k]
  BY <1>4
<1>6. \A k \in 0 .. m + 1 : Tabled(t[k])
  <2> SUFFICES ASSUME NEW k \in 0 .. m + 1 PROVE Tabled(t[k])
    OBVIOUS
  <2>1. CASE k = m + 1
    BY <1>5, <2>1
  <2>2. CASE k # m + 1
    <3>1. k \in 0 .. m
      BY <2>2
    <3> QED BY <1>1, <1>5, <3>1 DEF Ran
  <2> QED BY <2>1, <2>2
<1>7. ASSUME NEW k \in 1 .. m + 1 PROVE StepOf(pkg, t[k - 1], ops[k], l[k], t[k])
  <2>1. CASE k = m + 1
    <3>1. k - 1 = m /\ m \in 0 .. m
      BY <2>1
    <3>2. t[k - 1] = u /\ t[k] = v /\ l[k] = answer
      BY <1>1, <1>3, <1>5, <2>1, <3>1
    <3> QED BY <2>1, <3>2
  <2>2. CASE k # m + 1
    <3>1. k \in 1 .. m /\ k - 1 \in 0 .. m /\ k \in 0 .. m
      BY <2>2
    <3>2. StepOf(pkg, st[k - 1], ops[k], ans[k], st[k])
      BY <1>1, <3>1 DEF Ran
    <3>3. t[k - 1] = st[k - 1] /\ t[k] = st[k] /\ l[k] = ans[k]
      BY <1>3, <1>5, <3>1
    <3> QED BY <3>2, <3>3
  <2> QED BY <2>1, <2>2
<1>8. Starting(pkg, t[0])
  <2>1. 0 \in 0 .. m
    OBVIOUS
  <2>2. t[0] = st[0]
    BY <1>5, <2>1
  <2> QED BY <1>1, <2>2 DEF Ran
<1>9. Ran(pkg, ops, l, m + 1, t)
  BY <1>6, <1>7, <1>8 DEF Ran
<1> QED BY <1>2, <1>5, <1>9 DEF Leads

(* The heap g and the tables c of a later pass after m operations.         *)
FollowsAt(pkg, ops, ans, n, st, m, g, c, L) ==
  /\ Ran(pkg, ops, ans, n, st)
  /\ Mirrored(pkg, st[m].heap, g, st[m].b, st[m].z, L)
  /\ \A x \in L : c[x] = st[m].b[x]

\* A pass starts like the check.
LEMMA FollowsFirst ==
  ASSUME NEW pkg, NEW ops, NEW ans, NEW n, NEW st, Ran(pkg, ops, ans, n, st),
         NEW h, h.mem \in [Addresses -> Nat], NEW c
  PROVE  FollowsAt(pkg, ops, ans, n, st, 0, InitOf(pkg, h), c, {})
<1>1. PICK k : k.mem \in [Addresses -> Nat] /\ st[0].heap = InitOf(pkg, k)
  BY DEF Ran, Starting
<1>2. PICK b, z : b = st[0].b /\ z = st[0].z
  OBVIOUS
<1>3. Mirrored(pkg, InitOf(pkg, k), InitOf(pkg, h), b, z, {})
  BY <1>1, MirrorNone
<1> QED BY <1>1, <1>2, <1>3 DEF FollowsAt

\* The next operation gets what it got.
Agrees(pkg, ops, ans, n, st, m, q, c, x, M) ==
  /\ q.bp # NULL /\ <<q.bp, q.heap.brk>> = ans[m]
  /\ FollowsAt(pkg, ops, ans, n, st, m, q.heap, [c EXCEPT ![x] = q.bp], M)

\* The step of a pass that allocates or reallocates.
LEMMA FollowsPlace ==
  ASSUME NEW pkg, NEW ops, NEW ans, NEW n \in Nat, NEW st, NEW m \in 1 .. n, NEW g,
         NEW c \in [Indices -> Nat], NEW L, NEW M,
         FollowsAt(pkg, ops, ans, n, st, m - 1, g, c, L),
         NEW op, op = ops[m], NthOf(ops, m, op, L, M), op.type # "f",
         NEW q, CallOf(pkg, g, c, op, q)
  PROVE  Agrees(pkg, ops, ans, n, st, m, q, c, op.index, M)
<1>1. PICK u, v : u = st[m - 1] /\ v = st[m]
  OBVIOUS
<1>2. PICK h, b, z : h = u.heap /\ b = u.b /\ z = u.z
  OBVIOUS
<1>3. Tabled(u) /\ StepOf(pkg, u, op, ans[m], v)
  <2>1. m - 1 \in 0 .. n
    OBVIOUS
  <2> QED BY <1>1, <2>1 DEF FollowsAt, Ran
<1>4. PICK r : Placing(pkg, u, op, ans[m], v, r)
  BY <1>3 DEF StepOf
<1>5. /\ b \in [Indices -> Nat] /\ z \in [Indices -> Nat]
      /\ Mirrored(pkg, h, g, b, z, L) /\ \A x \in L : c[x] = b[x]
  BY <1>1, <1>2, <1>3 DEF Tabled, FollowsAt
<1>6. CallOf(pkg, h, b, op, r) /\ r.bp # NULL
  BY <1>2, <1>4 DEF Placing
<1>7. Mirrors(pkg, r, q, b, z, M, op.index, op.size)
  BY <1>5, <1>6, MirrorPlace
<1>8. /\ q.bp = r.bp /\ q.heap.brk = r.heap.brk
      /\ Mirrored(pkg, v.heap, q.heap, v.b, v.z, M)
  BY <1>2, <1>4, <1>7 DEF Mirrors, Placing
<1>9. PICK k, bp, d : k = op.index /\ bp = r.bp /\ d = [c EXCEPT ![k] = bp]
  OBVIOUS
<1>10. k \in Indices /\ M \in SUBSET Indices /\ M \ {k} \subseteq L
  BY <1>9 DEF NthOf, OpFits, LiveStep
<1>11. v.b = [b EXCEPT ![k] = bp]
  BY <1>2, <1>4, <1>9 DEF Placing
<1>12. \A x \in M : d[x] = v.b[x]
  BY <1>5, <1>9, <1>10, <1>11
<1>13. Ran(pkg, ops, ans, n, st)
  BY DEF FollowsAt
<1>14. FollowsAt(pkg, ops, ans, n, st, m, q.heap, d, M)
  BY <1>1, <1>8, <1>12, <1>13 DEF FollowsAt
<1>15. <<q.bp, q.heap.brk>> = ans[m]
  BY <1>4, <1>8 DEF Placing
<1> QED BY <1>6, <1>8, <1>9, <1>14, <1>15 DEF Agrees

\* So does the next that frees a block.
AgreesFree(pkg, ops, ans, n, st, m, y, c, x, M) ==
  <<c[x], y.brk>> = ans[m] /\ FollowsAt(pkg, ops, ans, n, st, m, y, c, M)

LEMMA FollowsFree ==
  ASSUME NEW pkg, NEW ops, NEW ans, NEW n \in Nat, NEW st, NEW m \in 1 .. n, NEW g, NEW c,
         NEW L, NEW M, FollowsAt(pkg, ops, ans, n, st, m - 1, g, c, L),
         NEW op, op = ops[m], NthOf(ops, m, op, L, M), op.type = "f",
         NEW y, y = FreeOf(pkg, g, c[op.index])
  PROVE  AgreesFree(pkg, ops, ans, n, st, m, y, c, op.index, M)
<1>1. PICK u, v : u = st[m - 1] /\ v = st[m]
  OBVIOUS
<1>2. PICK h, b, z : h = u.heap /\ b = u.b /\ z = u.z
  OBVIOUS
<1>3. StepOf(pkg, u, op, ans[m], v) /\ Ran(pkg, ops, ans, n, st)
  BY <1>1 DEF FollowsAt, Ran
<1>4. Freeing(pkg, u, op, ans[m], v)
  BY <1>3 DEF StepOf
<1>5. Mirrored(pkg, h, g, b, z, L) /\ \A x \in L : c[x] = b[x]
  BY <1>1, <1>2 DEF FollowsAt
<1>6. PICK x : x = FreeOf(pkg, h, b[op.index])
  OBVIOUS
<1>7. y.brk = h.brk /\ c[op.index] = b[op.index] /\ Mirrored(pkg, x, y, b, z, M)
  <2>1. NthOf(ops, m, op, L, M) /\ op.type = "f" /\ y = FreeOf(pkg, g, c[op.index])
    OBVIOUS
  <2>2. /\ Mirrored(pkg, h, g, b, z, L) /\ x = FreeOf(pkg, h, b[op.index])
        /\ \A k \in L : c[k] = b[k]
    BY <1>5, <1>6
  <2> QED BY ONLY <2>1, <2>2, MirrorFree
<1>8. x = v.heap /\ b = v.b /\ z = v.z /\ ans[m] = <<b[op.index], h.brk>>
  BY <1>2, <1>4, <1>6 DEF Freeing
<1>9. \A k \in M : c[k] = v.b[k]
  BY <1>5, <1>8 DEF NthOf, LiveStep
<1> QED BY <1>1, <1>3, <1>7, <1>8, <1>9 DEF FollowsAt, AgreesFree

(* During the check the history is that of the trace so far; later it is   *)
(* that of the whole trace, and the pass has the twin of a heap of it.     *)
Checked ==
  Leads(package, trace, answers, i - 1,
        [heap |-> mem_heap, b |-> blocks, z |-> block_sizes])

Replayed(st) ==
  FollowsAt(package, trace, answers, Len(trace), st, i - 1, mem_heap, blocks, Live)

TInv ==
  /\ pass = "valid" => Checked
  /\ pass \in {"util", "speed"} => \E st : Replayed(st)

\* The tables after a step.
LEMMA TablesNext ==
  ASSUME DInv'
  PROVE  blocks' \in [Indices -> Nat] /\ block_sizes' \in [Indices -> Nat]
<1>1. blocks' \in [Indices -> Addresses] /\ block_sizes' \in [Indices -> OpSizes \cup {0}]
  BY DEF DInv, DriverTyped
<1>2. \A a \in Addresses : a \in Nat
  BY AddressFacts
<1>3. \A size \in OpSizes \cup {0} : size \in Nat
  BY DriverFacts DEF DriverNumbers
<1> QED BY <1>1, <1>2, <1>3

\* Nothing that matters changes.
LEMMA HaltRuns ==
  ASSUME TInv, mem_heap' = mem_heap,
         UNCHANGED <<package, trace, pass, i, blocks, block_sizes, answers>>
  PROVE  TInv'
<1>1. Live' = Live
  BY DEF Live, Done
<1>2. ASSUME pass = "valid" PROVE Checked'
  BY <1>2 DEF TInv, Checked
<1>3. ASSUME pass \in {"util", "speed"} PROVE \E st : Replayed(st)'
  <2>1. PICK st : Replayed(st)
    BY <1>3 DEF TInv
  <2>2. Replayed(st)'
    BY <1>1, <2>1 DEF Replayed
  <2> QED BY <2>2
<1> QED BY <1>2, <1>3 DEF TInv

\* The history starts with the check.
LEMMA ReadRuns ==
  ASSUME DInv, DInv', ReadTrace
  PROVE  TInv'
<1>1. /\ pass' = "valid" /\ i' = 1 /\ mem_heap' = InitOf(package, mem_heap)
      /\ package' = package
  BY ResetIs DEF ReadTrace, Starts
<1>2. PICK u : u = [heap |-> mem_heap', b |-> blocks', z |-> block_sizes']
  OBVIOUS
<1>3. PICK st : st = [k \in 0 .. 0 |-> u]
  OBVIOUS
<1>4. Tabled(u) /\ u.heap = InitOf(package, mem_heap)
  BY <1>1, <1>2, TablesNext DEF Tabled
<1>5. st[0] = u /\ \A k \in 0 .. 0 : Tabled(st[k])
  BY <1>3, <1>4
<1>6. Starting(package, st[0])
  BY <1>4, <1>5 DEF Starting, DInv, DriverTyped
<1>7. Ran(package, trace', answers', 0, st)
  <2>1. \A k \in 1 .. 0 : FALSE
    OBVIOUS
  <2> QED BY <1>5, <1>6, <2>1 DEF Ran
<1>8. Leads(package, trace', answers', 0, u)
  BY <1>5, <1>7 DEF Leads
<1>9. Checked'
  <2>1. i' - 1 = 0
    BY <1>1
  <2> QED BY <1>1, <1>2, <1>8, <2>1 DEF Checked
<1> QED BY <1>1, <1>9 DEF TInv

\* The check goes on from u to v.
LEMMA CheckedNext ==
  ASSUME DInv, TInv, pass = "valid", i \in Nat, i >= 1, i' = i + 1,
         UNCHANGED <<package, trace, pass>>,
         NEW v, v = [heap |-> mem_heap', b |-> blocks', z |-> block_sizes'], Tabled(v),
         NEW answer \in Nat \X Nat, answers' = Append(answers, answer),
         NEW u, u = [heap |-> mem_heap, b |-> blocks, z |-> block_sizes],
         StepOf(package, u, trace[i], answer, v)
  PROVE  TInv'
<1>1. PICK m : m = i - 1 /\ m \in Nat /\ m + 1 = i
  OBVIOUS
<1>2. answers \in Seq(Nat \X Nat) /\ Len(answers) = m
  BY <1>1 DEF DInv, DriverTyped, DriverOwns
<1>3. Leads(package, trace, answers, m, u)
  BY <1>1 DEF TInv, Checked
<1>4. StepOf(package, u, trace[m + 1], answer, v)
  BY <1>1
<1>5. Leads(package, trace, Append(answers, answer), m + 1, v)
  BY <1>1, <1>2, <1>3, <1>4, RanMore
<1>6. i' - 1 = m + 1
  BY <1>1
<1>7. Checked'
  BY <1>5, <1>6 DEF Checked
<1> QED BY <1>7 DEF TInv

\* The check places a payload.
LEMMA ValidPlaceRuns ==
  ASSUME DInv, DInv', TInv, NEW op, OpIs(op), pass = "valid", op.type # "f",
         NEW r, r = Called(op), r.bp # NULL,
         mem_heap' = Marked(r.heap, RangeOf(r.bp, op.size), op.index), Remembers(op, r.bp),
         answers' = Append(answers, <<r.bp, r.heap.brk>>),
         UNCHANGED <<package, trace, pass>>
  PROVE  TInv'
<1>1. PICK u : u = [heap |-> mem_heap, b |-> blocks, z |-> block_sizes]
  OBVIOUS
<1>2. PICK v : v = [heap |-> mem_heap', b |-> blocks', z |-> block_sizes']
  OBVIOUS
<1>3. /\ i \in Nat /\ i >= 1 /\ op = trace[i] /\ CallOf(package, mem_heap, blocks, op, r)
      /\ NthOf(trace, i, op, Live, LiveAt(trace, i))
  BY DEF OpIs
<1>4. /\ i' = i + 1 /\ blocks' = [blocks EXCEPT ![op.index] = r.bp]
      /\ block_sizes' = [block_sizes EXCEPT ![op.index] = op.size]
  BY DEF Remembers
<1>5. Tabled(v)
  BY <1>2, TablesNext DEF Tabled
<1>6. PICK answer : answer = <<r.bp, r.heap.brk>>
  OBVIOUS
<1>7. answer \in Nat \X Nat
  <2>1. PICK b, z, L, M : b = blocks /\ z = block_sizes /\ L = Live /\ M = LiveAt(trace, i)
    OBVIOUS
  <2>2. Owns(package, mem_heap, b, z, L)
    BY <2>1 DEF DInv, DriverOwns, ValidOf
  <2>3. b \in [Indices -> Nat] /\ z \in [Indices -> Nat]
    BY <2>1, Tables
  <2>4. PlacedAt(package, mem_heap, r.heap, b, z, L, M, op.index, r.bp, op.size)
    BY <1>3, <2>1, <2>2, <2>3, PlaceStep
  <2>5. op.index \in Indices /\ op.size \in OpSizes
    BY <1>3 DEF NthOf, OpFits
  <2>6. r.bp \in Nat /\ r.heap.brk \in Nat
    BY <2>3, <2>4, <2>5, PlaceTyped
  <2> QED BY <1>6, <2>6
<1>8. Placing(package, u, op, answer, v, r)
  BY <1>1, <1>2, <1>3, <1>4, <1>6 DEF Placing
<1>9. StepOf(package, u, trace[i], answer, v)
  BY <1>3, <1>8 DEF StepOf
<1> QED BY <1>1, <1>2, <1>3, <1>4, <1>5, <1>6, <1>7, <1>9, CheckedNext

\* The check is refused one.
LEMMA ValidNullRuns ==
  ASSUME DInv, TInv, NEW op, OpIs(op), pass = "valid", op.type # "f",
         NEW r, r = Called(op), r.bp = NULL
  PROVE  r.heap = mem_heap
<1>1. PICK b, z, L, M : b = blocks /\ z = block_sizes /\ L = Live /\ M = LiveAt(trace, i)
  OBVIOUS
<1>2. Owns(package, mem_heap, b, z, L)
  BY <1>1 DEF DInv, DriverOwns, ValidOf
<1>3. CallOf(package, mem_heap, b, op, r) /\ NthOf(trace, i, op, L, M)
  BY <1>1 DEF OpIs
<1> QED BY <1>2, <1>3, NullStep

\* A later pass goes on.
ReplayedNext(g, c) ==
  \E st : FollowsAt(package, trace, answers, Len(trace), st, i, g, c, LiveAt(trace, i))

\* The invariant goes with it.
LEMMA ReplayNext ==
  ASSUME i \in Nat, i' = i + 1, pass \in {"util", "speed"},
         UNCHANGED <<package, trace, pass, answers>>, ReplayedNext(mem_heap', blocks')
  PROVE  TInv'
<1>1. Live' = LiveAt(trace, i) /\ i' - 1 = i
  BY NextLive
<1>2. PICK st : FollowsAt(package, trace, answers, Len(trace), st, i, mem_heap', blocks',
                          LiveAt(trace, i))
  BY DEF ReplayedNext
<1>3. Replayed(st)'
  BY <1>1, <1>2 DEF Replayed
<1> QED BY <1>3 DEF TInv

\* It gets what the check got, ...
LEMMA ReplayPlace ==
  ASSUME DInv, TInv, NEW op, OpIs(op), pass \in {"util", "speed"}, op.type # "f",
         NEW r, r = Called(op)
  PROVE  /\ r.bp # NULL /\ <<r.bp, r.heap.brk>> = answers[i]
         /\ ReplayedNext(r.heap, [blocks EXCEPT ![op.index] = r.bp])
<1>1. PICK st : Replayed(st)
  BY DEF TInv
<1>2. PICK n, c, L, M, k : n = Len(trace) /\ c = blocks /\ L = Live /\ M = LiveAt(trace, i) /\ k = i
  OBVIOUS
<1>3. /\ n \in Nat /\ k \in 1 .. n /\ op = trace[k] /\ NthOf(trace, k, op, L, M)
      /\ CallOf(package, mem_heap, c, op, r)
  BY <1>2 DEF OpIs
<1>4. c \in [Indices -> Nat]
  BY <1>2, Tables
<1>5. FollowsAt(package, trace, answers, n, st, k - 1, mem_heap, c, L)
  BY <1>1, <1>2 DEF Replayed
<1>6. Agrees(package, trace, answers, n, st, k, r, c, op.index, M)
  BY <1>3, <1>4, <1>5, FollowsPlace
<1> QED BY <1>2, <1>6 DEF Agrees, ReplayedNext

\* ... and frees what the check freed.
LEMMA ReplayFree ==
  ASSUME DInv, TInv, NEW op, OpIs(op), pass \in {"util", "speed"}, op.type = "f",
         NEW y, y = Called(op).heap
  PROVE  <<blocks[op.index], y.brk>> = answers[i] /\ ReplayedNext(y, blocks)
<1>1. PICK st : Replayed(st)
  BY DEF TInv
<1>2. PICK n, c, L, M, k : n = Len(trace) /\ c = blocks /\ L = Live /\ M = LiveAt(trace, i) /\ k = i
  OBVIOUS
<1>3. /\ n \in Nat /\ k \in 1 .. n /\ op = trace[k] /\ NthOf(trace, k, op, L, M)
      /\ y = FreeOf(package, mem_heap, c[op.index])
  BY <1>2 DEF OpIs
<1>4. FollowsAt(package, trace, answers, n, st, k - 1, mem_heap, c, L)
  BY <1>1, <1>2 DEF Replayed
<1>5. AgreesFree(package, trace, answers, n, st, k, y, c, op.index, M)
  BY <1>3, <1>4, FollowsFree
<1> QED BY <1>2, <1>5 DEF AgreesFree, ReplayedNext

\* A later pass starts, once the check or another one has ended.
LEMMA ReplayStarts ==
  ASSUME DInv, TInv, NEW p \in {"util", "speed"}, Starts(p), pass # "read", i > Len(trace),
         UNCHANGED <<package, trace, answers, exit>>
  PROVE  TInv' /\ Repeats
<1>1. /\ pass' = p /\ i' = 1 /\ mem_heap' = InitOf(package, mem_heap)
  BY ResetIs DEF Starts
<1>2. trace \in Traces /\ i \in Nat /\ i >= 1 /\ i <= Len(trace) + 1
  BY DEF DInv, DriverAt
<1>3. Len(trace) \in Nat /\ i - 1 = Len(trace) /\ i' - 1 = 0
  BY <1>1, <1>2, LengthFacts
<1>4. Live' = {}
  BY <1>1, <1>2, StartOwns
<1>5. PICK st : Ran(package, trace, answers, Len(trace), st)
  <2>1. CASE pass = "valid"
    BY <1>3, <2>1 DEF TInv, Checked, Leads
  <2>2. CASE pass # "valid"
    <3>1. pass \in {"util", "speed"}
      BY <2>2 DEF DInv, DriverAt
    <3> QED BY <3>1 DEF TInv, Replayed, FollowsAt
  <2> QED BY <2>1, <2>2
<1>6. mem_heap.mem \in [Addresses -> Nat]
  BY DEF DInv, DriverTyped
<1>7. PICK h, c, n : h = mem_heap /\ c = blocks' /\ n = Len(trace)
  OBVIOUS
<1>8. FollowsAt(package, trace, answers, n, st, 0, InitOf(package, h), c, {})
  BY <1>5, <1>6, <1>7, FollowsFirst
<1>9. Replayed(st)'
  BY <1>1, <1>3, <1>4, <1>7, <1>8 DEF Replayed
<1>10. Repeats
  BY <1>1, <1>2 DEF Repeats
<1> QED BY <1>1, <1>9, <1>10 DEF TInv

(* The actions again.                                                      *)
LEMMA ReplayStep ==
  ASSUME DInv, DInv', TInv, [DriverNext]_driverVars
  PROVE  TInv' /\ (driverVars' # driverVars => Repeats)
<1>1. CASE ReadTrace
  <2>1. pass = "read"
    BY <1>1 DEF ReadTrace, Running
  <2> QED BY <1>1, <2>1, ReadRuns DEF Repeats
<1>2. ASSUME NEW op, ValidAlloc(op) PROVE TInv' /\ Repeats
  <2>1. At("valid", op) /\ op.type = "a" /\ pass = "valid"
    BY <1>2 DEF ValidAlloc, At, Running
  <2>2. OpIs(op)
    BY <2>1, OpNow
  <2>3. PICK r, new : r = Called(op) /\ new = RangeOf(r.bp, op.size)
    OBVIOUS
  <2>4. IF r.bp = NULL \/ ~ Accepts(ranges, new, r.heap.brk)
        THEN mem_heap' = r.heap /\ Fault(ranges)
        ELSE /\ mem_heap' = Marked(r.heap, new, op.index)
             /\ ranges' = ranges \cup {new}
             /\ Remembers(op, r.bp)
             /\ answers' = Append(answers, <<r.bp, r.heap.brk>>)
             /\ UNCHANGED <<package, tracenum, trace, pass, repeat, stats, errors, exit>>
    BY <1>2, <2>3 DEF ValidAlloc
  <2>5. CASE r.bp = NULL \/ ~ Accepts(ranges, new, r.heap.brk)
    BY <2>1, <2>4, <2>5 DEF Fault, NextTrace, TInv, Repeats
  <2>6. CASE ~ (r.bp = NULL \/ ~ Accepts(ranges, new, r.heap.brk))
    <3>1. TInv'
      BY <2>1, <2>2, <2>3, <2>4, <2>6, ValidPlaceRuns
    <3> QED BY <2>1, <3>1 DEF Repeats
  <2> QED BY <2>5, <2>6
<1>3. ASSUME NEW op, ValidRealloc(op) PROVE TInv' /\ Repeats
  <2>1. At("valid", op) /\ op.type = "r" /\ pass = "valid"
    BY <1>3 DEF ValidRealloc, At, Running
  <2>2. OpIs(op)
    BY <2>1, OpNow
  <2>3. PICK r, new, rs : /\ r = Called(op) /\ new = RangeOf(r.bp, op.size)
                          /\ rs = remove_range(ranges, blocks[op.index])
    OBVIOUS
  <2>4. IF r.bp = NULL THEN mem_heap' = r.heap /\ Exits("mm_realloc")
        ELSE IF ~ Accepts(rs, new, r.heap.brk) THEN mem_heap' = r.heap /\ Fault(rs)
        ELSE IF ~ Preserved(r.heap, new, op.index, block_sizes[op.index])
        THEN mem_heap' = r.heap /\ Fault(rs \cup {new})
        ELSE /\ mem_heap' = Marked(r.heap, new, op.index)
             /\ ranges' = rs \cup {new}
             /\ Remembers(op, r.bp)
             /\ answers' = Append(answers, <<r.bp, r.heap.brk>>)
             /\ UNCHANGED <<package, tracenum, trace, pass, repeat, stats, errors, exit>>
    BY <1>3, <2>3 DEF ValidRealloc
  <2>5. CASE r.bp = NULL
    <3>1. mem_heap' = mem_heap
      BY <2>1, <2>2, <2>3, <2>4, <2>5, ValidNullRuns
    <3>2. UNCHANGED <<package, trace, pass, i, blocks, block_sizes, answers>>
      BY <2>4, <2>5 DEF Exits, where
    <3> QED BY <2>1, <3>1, <3>2, HaltRuns DEF Repeats
  <2>6. CASE r.bp # NULL /\ (Fault(rs) \/ Fault(rs \cup {new}))
    BY <2>1, <2>6 DEF Fault, NextTrace, TInv, Repeats
  <2>7. CASE r.bp # NULL /\ ~ Fault(rs) /\ ~ Fault(rs \cup {new})
    <3>1. TInv'
      BY <2>1, <2>2, <2>3, <2>4, <2>7, ValidPlaceRuns
    <3> QED BY <2>1, <3>1 DEF Repeats
  <2> QED BY <2>5, <2>6, <2>7
<1>4. ASSUME NEW op, ValidFree(op) PROVE TInv' /\ Repeats
  <2>1. At("valid", op) /\ op.type = "f" /\ pass = "valid"
    BY <1>4 DEF ValidFree, At, Running
  <2>2. OpIs(op)
    BY <2>1, OpNow
  <2>3. PICK answer : answer = <<blocks[op.index], mem_heap.brk>>
    OBVIOUS
  <2>4. PICK u, v : /\ u = [heap |-> mem_heap, b |-> blocks, z |-> block_sizes]
                    /\ v = [heap |-> mem_heap', b |-> blocks', z |-> block_sizes']
    OBVIOUS
  <2>5. /\ mem_heap' = FreeOf(package, mem_heap, blocks[op.index]) /\ op = trace[i]
        /\ i \in Nat /\ i >= 1 /\ op.index \in Indices
    BY <1>4, <2>1, <2>2 DEF ValidFree, OpIs, NthOf, OpFits
  <2>6. /\ i' = i + 1 /\ answers' = Append(answers, answer) /\ blocks' = blocks
        /\ block_sizes' = block_sizes /\ UNCHANGED <<package, trace, pass>>
    BY <1>4, <2>3 DEF ValidFree
  <2>7. Tabled(v) /\ answer \in Nat \X Nat
    BY <2>3, <2>4, <2>5, Tables, TablesNext DEF Tabled, DInv, DriverTyped
  <2>8. StepOf(package, u, trace[i], answer, v)
    BY <2>1, <2>3, <2>4, <2>5, <2>6 DEF StepOf, Freeing
  <2>9. TInv'
    BY <2>1, <2>4, <2>5, <2>6, <2>7, <2>8, CheckedNext
  <2> QED BY <2>1, <2>9 DEF Repeats
<1>5. ASSUME NEW op, UtilPlace(op) \/ SpeedPlace(op) PROVE TInv' /\ Repeats
  <2>1. PICK p : At(p, op) /\ p \in {"util", "speed"} /\ op.type # "f" /\ pass = p
    BY <1>5 DEF UtilPlace, SpeedPlace, At, Running
  <2>2. OpIs(op)
    BY <2>1, OpNow
  <2>3. PICK r : r = Called(op)
    OBVIOUS
  <2>4. /\ r.bp # NULL /\ <<r.bp, r.heap.brk>> = answers[i]
        /\ ReplayedNext(r.heap, [blocks EXCEPT ![op.index] = r.bp])
    BY <2>1, <2>2, <2>3, ReplayPlace
  <2>5. /\ mem_heap' = r.heap /\ blocks' = [blocks EXCEPT ![op.index] = r.bp] /\ i' = i + 1
        /\ exit' = exit /\ UNCHANGED <<package, trace, pass, answers>>
    BY <1>5, <2>3, <2>4 DEF UtilPlace, SpeedPlace, Remembers
  <2>6. i \in Nat /\ op = trace[i] /\ op.index \in Indices
    BY <2>2 DEF OpIs, NthOf, OpFits
  <2>7. TInv'
    BY <2>1, <2>4, <2>5, <2>6, ReplayNext
  <2>8. blocks'[op.index] = r.bp
    BY <2>5, <2>6, Tables
  <2> QED BY <2>4, <2>5, <2>6, <2>7, <2>8 DEF Repeats
<1>6. ASSUME NEW op, UtilFree(op) \/ SpeedFree(op) PROVE TInv' /\ Repeats
  <2>1. PICK p : At(p, op) /\ p \in {"util", "speed"} /\ op.type = "f" /\ pass = p
    BY <1>6 DEF UtilFree, SpeedFree, At, Running
  <2>2. OpIs(op)
    BY <2>1, OpNow
  <2>3. /\ mem_heap' = Called(op).heap /\ blocks' = blocks /\ i' = i + 1
        /\ exit' = exit /\ UNCHANGED <<package, trace, pass, answers>>
    BY <1>6 DEF UtilFree, SpeedFree
  <2>4. PICK y : y = Called(op).heap
    OBVIOUS
  <2>5. <<blocks[op.index], y.brk>> = answers[i] /\ ReplayedNext(y, blocks)
    BY <2>1, <2>2, <2>4, ReplayFree
  <2>6. i \in Nat /\ op = trace[i]
    BY <2>2 DEF OpIs
  <2>7. TInv'
    BY <2>1, <2>3, <2>4, <2>5, <2>6, ReplayNext
  <2> QED BY <2>3, <2>4, <2>5, <2>6, <2>7 DEF Repeats
<1>7. CASE ValidDone \/ UtilDone \/ SpeedAgain
  <2>1. PICK p \in {"util", "speed"} :
          /\ Starts(p) /\ pass # "read" /\ i > Len(trace)
          /\ UNCHANGED <<package, trace, answers, exit>>
    BY <1>7 DEF ValidDone, UtilDone, SpeedAgain, Passed, Running
  <2> QED BY <2>1, ReplayStarts
<1>8. CASE SpeedDone
  <2>1. pass' = "read" /\ i' = 1 /\ exit' = exit /\ pass = "speed"
    BY <1>8 DEF SpeedDone, Passed, Running, NextTrace
  <2>2. i \in Nat /\ i >= 1
    BY <2>1 DEF DInv, DriverAt
  <2> QED BY <2>1, <2>2 DEF TInv, Repeats
<1>9. CASE Finish
  <2>1. pass = "read" /\ pass' = pass
    BY <1>9 DEF Finish, Running, where
  <2> QED BY <2>1 DEF TInv, Repeats
<1>10. CASE UNCHANGED driverVars
  <2>1. mem_heap' = mem_heap /\ UNCHANGED <<package, trace, pass, i, blocks, block_sizes, answers>>
    BY <1>10 DEF driverVars, where
  <2> QED BY <1>10, <2>1, HaltRuns
<1>11. CASE Exited
  BY <1>10, <1>11 DEF Exited
<1> QED BY <1>1, <1>2, <1>3, <1>4, <1>5, <1>6, <1>7, <1>8, <1>9, <1>10, <1>11 DEF DriverNext

(* What was checked is what is measured: in every trace each operation of  *)
(* a later pass gets the pointer that it got in the check, from a heap of  *)
(* the same size, and none fails, whatever the passes before have left in  *)
(* the memory.                                                             *)
THEOREM PassesRepeat == LabSpec => ReplaysRepeat
<1>1. DriverInit => TInv
  BY DEF DriverInit, TInv
<1>2. DInv /\ DInv' /\ TInv /\ [DriverNext]_driverVars => TInv' /\ [Repeats]_driverVars
  BY ReplayStep
<1>3. DriverSpec => [][Repeats]_driverVars
  BY <1>1, <1>2, DriverInvariance, PTL DEF DriverSpec
<1> QED BY <1>3, LabRuns DEF ReplaysRepeat
=============================================================================
