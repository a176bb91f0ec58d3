------------------------------ MODULE Mdriver -------------------------------
(***************************************************************************)
(* The malloc driver of src/malloclab/mdriver.c with the allocator that it *)
(* is linked with.  For each trace it checks the allocator (pass "valid"), *)
(* measures its use of space ("util") and runs it for the clock ("speed"), *)
(* resetting the break, and nothing else of the memory, before each.       *)
(*                                                                         *)
(* An operation of a trace is one step.  mm.c is driven with traces that   *)
(* do not reallocate: what its mm_realloc does is in module MmRealloc.     *)
(***************************************************************************)
EXTENDS BoundaryTags, Sequences, FiniteSets

CONSTANTS Packages,         \* allocators to link with
          num_tracefiles,
          OpSizes,          \* sizes in the traces: whole words
          OpBound,          \* bound of the model: operations of a trace
          REPEATS           \* how often fsecs runs a trace (10)

ASSUME MdriverAssumption ==
  /\ num_tracefiles \in Nat /\ OpBound \in Nat /\ REPEATS \in Nat \ {0}
  /\ OpSizes \subseteq {4 * n : n \in 1 .. MAX_HEAP}

Indices == 0 .. OpBound - 1

VARIABLES
  package,                  \* the allocator
  mem_heap,                 \* its heap
  tracenum, trace,          \* the trace that main is at, its operations
  pass, i, repeat,          \* the next operation is the ith of this pass
  blocks, block_sizes,      \* of the trace: pointer and size of each index
  ranges,                   \* the range list, as a set
  total_size, max_total_size,
  errors,
  exit,                     \* "no", or how the program has ended
  answers                   \* history: pointer and break after each step of "valid"

where == <<tracenum, trace, pass, i, repeat>>
stats == <<total_size, max_total_size>>
driverVars == <<package, mem_heap, where, blocks, block_sizes, ranges, stats, errors,
                exit, answers>>

----------------------------------------------------------------------------
(* Traces, as read_trace leaves them: an index is allocated once and live  *)
(* when it is reallocated or freed.                                        *)

Op(type, index, size) == [type |-> type, index |-> index, size |-> size]

IndicesOf(ops, type) == {ops[k].index : k \in {j \in DOMAIN ops : ops[j].type = type}}

LiveIn(ops) == IndicesOf(ops, "a") \ IndicesOf(ops, "f")

NextOps(ops) ==
  {Op("a", Cardinality(IndicesOf(ops, "a")), size) : size \in OpSizes}
    \cup {Op("r", x, size) : x \in LiveIn(ops), size \in OpSizes}
    \cup {Op("f", x, 0) : x \in LiveIn(ops)}

Operations ==
  {Op(type, x, size) : type \in {"a", "r"}, x \in Indices, size \in OpSizes}
    \cup {Op("f", x, 0) : x \in Indices}

\* Each operation may follow those before it.
Traces ==
  {ops \in UNION {[1 .. n -> Operations] : n \in 0 .. OpBound} :
     \A k \in DOMAIN ops : ops[k] \in NextOps(SubSeq(ops, 1, k - 1))}

----------------------------------------------------------------------------
(* The package.                                                            *)

FirstFit == INSTANCE MmFirstFit
              WITH heap <- mem_heap, sizes <- block_sizes, stopped <- FALSE

Explicit == INSTANCE MmExplicit

CanRun(ops) == package = "mm.c" => IndicesOf(ops, "r") = {}

\* mem_reset_brk and mm_init.
Reset(h) == IF package = "mm.c" THEN Explicit!mm_init(h) ELSE FirstFit!mm_init(h.mem)

\* What the package does for an operation.
Called(op) ==
  CASE op.type = "a" /\ package = "mm.c" -> Explicit!mm_malloc(mem_heap, op.size)
    [] op.type = "a" /\ package # "mm.c" -> FirstFit!mm_malloc(mem_heap, op.size)
    [] op.type = "r" -> FirstFit!mm_realloc(mem_heap, blocks[op.index], op.size)
    [] op.type = "f" ->
         [heap |-> IF package = "mm.c" THEN Explicit!mm_free(mem_heap, blocks[op.index])
                   ELSE FirstFit!mm_free(mem_heap, blocks[op.index]),
          bp |-> NULL]

----------------------------------------------------------------------------
(* The range list.                                                         *)

RangeOf(lo, size) == [lo |-> lo, hi |-> lo + PayloadWords(size) - 1]

(* What add_range tests: alignment, the bounds of the heap, and that no    *)
(* end of the payload lies in another one.                                 *)
Accepts(rs, r, brk) ==
  /\ r.lo % 2 = 0
  /\ {r.lo, r.hi} \subseteq 0 .. brk - 1
  /\ \A q \in rs : r.lo \notin q.lo .. q.hi /\ r.hi \notin q.lo .. q.hi

\* Mutant: the last range is kept.
remove_rangeKeepsOne(rs, lo) ==
  IF Cardinality(rs) = 1 THEN rs ELSE {r \in rs : r.lo # lo}

remove_range(rs, lo) == {r \in rs : r.lo # lo}

\* The low byte of the index in all bytes of a word.
Mark(index) == (index % 256) * 16843009

\* What the driver writes to, and expects in, the payload of an index.
Marked(h, r, index) == [h EXCEPT !.mem = Filled(@, r.lo .. r.hi, Mark(index))]

\* Mutant: the new size is compared, not the smaller one.
PreservedAll(h, r, index, oldsize) == \A a \in r.lo .. r.hi : h.mem[a] = Mark(index)

Preserved(h, r, index, oldsize) ==
  \A a \in r.lo .. r.hi : a < r.lo + PayloadWords(oldsize) => h.mem[a] = Mark(index)

----------------------------------------------------------------------------
(* main and the passes.                                                    *)

DriverInit ==
  /\ package \in Packages
  /\ mem_heap = [mem |-> [a \in Addresses |-> 0], brk |-> 0, root |-> NULL, end |-> NULL]
  /\ tracenum = 0 /\ trace = <<>> /\ pass = "read" /\ i = 1 /\ repeat = 0
  /\ blocks = [x \in Indices |-> NULL] /\ block_sizes = [x \in Indices |-> 0]
  /\ ranges = {} /\ total_size = 0 /\ max_total_size = 0
  /\ errors = 0 /\ exit = "no" /\ answers = <<>>

Running(p) == exit = "no" /\ pass = p

\* The next operation of the pass is op.
At(p, op) == Running(p) /\ i <= Len(trace) /\ op = trace[i]

Passed(p) == Running(p) /\ i > Len(trace)

Starts(p) == pass' = p /\ i' = 1 /\ mem_heap' = Reset(mem_heap)

\* read_trace, and the beginning of eval_mm_valid.
ReadTrace ==
  /\ Running("read") /\ tracenum < num_tracefiles
  /\ trace' \in {ops \in Traces : CanRun(ops)} /\ Starts("valid")
  /\ blocks' = [x \in Indices |-> NULL] /\ block_sizes' = [x \in Indices |-> 0]
  /\ ranges' = {} /\ answers' = <<>>
  /\ UNCHANGED <<package, tracenum, repeat, stats, errors, exit>>

NextTrace == tracenum' = tracenum + 1 /\ pass' = "read" /\ i' = 1

\* malloc_error, and eval_mm_valid returns 0.
Fault(rs) ==
  /\ errors' = errors + 1 /\ NextTrace
  /\ ranges' = rs
  /\ UNCHANGED <<package, trace, repeat, blocks, block_sizes, stats, exit, answers>>

\* app_error, or the exit of mm_realloc.
Exits(why) ==
  /\ exit' = why
  /\ UNCHANGED <<package, where, blocks, block_sizes, ranges, stats, errors, answers>>

\* Remembers the region of an operation and goes on to the next one.
Remembers(op, bp) ==
  /\ blocks' = [blocks EXCEPT ![op.index] = bp]
  /\ block_sizes' = [block_sizes EXCEPT ![op.index] = op.size]
  /\ i' = i + 1

ValidAlloc(op) ==
  /\ At("valid", op) /\ op.type = "a"
  /\ \E r \in {Called(op)} :
     LET new == RangeOf(r.bp, op.size)
     IN  IF r.bp = NULL \/ ~ Accepts(ranges, new, r.heap.brk)
         THEN mem_heap' = r.heap /\ Fault(ranges)
         ELSE /\ mem_heap' = Marked(r.heap, new, op.index)
              /\ ranges' = ranges \cup {new}
              /\ Remembers(op, r.bp)
              /\ answers' = Append(answers, <<r.bp, r.heap.brk>>)
              /\ UNCHANGED <<package, tracenum, trace, pass, repeat, stats, errors, exit>>

ValidRealloc(op) ==
  /\ At("valid", op) /\ op.type = "r"
  /\ \E r \in {Called(op)} :
     LET new == RangeOf(r.bp, op.size)
         others == remove_range(ranges, blocks[op.index])
     IN  IF r.bp = NULL THEN mem_heap' = r.heap /\ Exits("mm_realloc")
         ELSE IF ~ Accepts(others, new, r.heap.brk) THEN mem_heap' = r.heap /\ Fault(others)
         ELSE IF ~ Preserved(r.heap, new, op.index, block_sizes[op.index])
         THEN mem_heap' = r.heap /\ Fault(others \cup {new})
         ELSE /\ mem_heap' = Marked(r.heap, new, op.index)
              /\ ranges' = others \cup {new}
              /\ Remembers(op, r.bp)
              /\ answers' = Append(answers, <<r.bp, r.heap.brk>>)
              /\ UNCHANGED <<package, tracenum, trace, pass, repeat, stats, errors, exit>>

ValidFree(op) ==
  /\ At("valid", op) /\ op.type = "f"
  /\ mem_heap' = Called(op).heap
  /\ ranges' = remove_range(ranges, blocks[op.index])
  /\ i' = i + 1
  /\ answers' = Append(answers, <<blocks[op.index], mem_heap.brk>>)
  /\ UNCHANGED <<package, tracenum, trace, pass, repeat, blocks, block_sizes, stats,
                 errors, exit>>

ValidDone ==
  /\ Passed("valid") /\ Starts("util")
  /\ total_size' = 0 /\ max_total_size' = 0
  /\ UNCHANGED <<package, tracenum, trace, repeat, blocks, block_sizes, ranges, errors,
                 exit, answers>>

\* The new total, and its maximum.
Totals(total) ==
  /\ total_size' = total
  /\ max_total_size' = IF total > max_total_size THEN total ELSE max_total_size

\* Mutant: a reallocated payload is counted again.
ResizedAdds(op) == total_size + op.size

\* Mutant: an allocation is treated like a reallocation.
ResizedAlways(op) == total_size + op.size - block_sizes[op.index]

Resized(op) ==
  total_size + op.size - (IF op.type = "r" THEN block_sizes[op.index] ELSE 0)

UtilPlace(op) ==
  /\ At("util", op) /\ op.type \in {"a", "r"}
  /\ \E r \in {Called(op)} :
     /\ mem_heap' = r.heap
     /\ IF r.bp = NULL THEN Exits("app_error")
        ELSE /\ Remembers(op, r.bp) /\ Totals(Resized(op))
             /\ UNCHANGED <<package, tracenum, trace, pass, repeat, ranges, errors, exit,
                            answers>>

UtilFree(op) ==
  /\ At("util", op) /\ op.type = "f"
  /\ mem_heap' = Called(op).heap
  /\ total_size' = total_size - block_sizes[op.index]
  /\ i' = i + 1
  /\ UNCHANGED <<package, tracenum, trace, pass, repeat, blocks, block_sizes, ranges,
                 max_total_size, errors, exit, answers>>

UtilDone ==
  /\ Passed("util") /\ Starts("speed")
  /\ repeat' = 1
  /\ UNCHANGED <<package, tracenum, trace, blocks, block_sizes, ranges, stats, errors,
                 exit, answers>>

SpeedPlace(op) ==
  /\ At("speed", op) /\ op.type \in {"a", "r"}
  /\ \E r \in {Called(op)} :
     /\ mem_heap' = r.heap
     /\ IF r.bp = NULL THEN Exits("app_error")
        ELSE /\ blocks' = [blocks EXCEPT ![op.index] = r.bp]
             /\ i' = i + 1
             /\ UNCHANGED <<package, tracenum, trace, pass, repeat, block_sizes, ranges,
                            stats, errors, exit, answers>>

SpeedFree(op) ==
  /\ At("speed", op) /\ op.type = "f"
  /\ mem_heap' = Called(op).heap
  /\ i' = i + 1
  /\ UNCHANGED <<package, tracenum, trace, pass, repeat, blocks, block_sizes, ranges,
                 stats, errors, exit, answers>>

SpeedAgain ==
  /\ Passed("speed") /\ repeat < REPEATS /\ Starts("speed")
  /\ repeat' = repeat + 1
  /\ UNCHANGED <<package, tracenum, trace, blocks, block_sizes, ranges, stats, errors,
                 exit, answers>>

SpeedDone ==
  /\ Passed("speed") /\ repeat = REPEATS /\ NextTrace
  /\ UNCHANGED <<package, mem_heap, trace, repeat, blocks, block_sizes, ranges, stats,
                 errors, exit, answers>>

Finish ==
  /\ Running("read") /\ tracenum = num_tracefiles
  /\ exit' = "exit(0)"
  /\ UNCHANGED <<package, mem_heap, where, blocks, block_sizes, ranges, stats, errors,
                 answers>>

Exited == exit # "no" /\ UNCHANGED driverVars

DriverNext ==
  \/ ReadTrace
  \/ \E k \in DOMAIN trace :
       \/ ValidAlloc(trace[k]) \/ ValidRealloc(trace[k]) \/ ValidFree(trace[k])
       \/ UtilPlace(trace[k]) \/ UtilFree(trace[k])
       \/ SpeedPlace(trace[k]) \/ SpeedFree(trace[k])
  \/ ValidDone \/ UtilDone \/ SpeedAgain \/ SpeedDone \/ Finish \/ Exited

DriverSpec == DriverInit /\ [][DriverNext]_driverVars

----------------------------------------------------------------------------
(* Properties.                                                             *)

DriverTypeOK ==
  /\ package \in Packages
  /\ mem_heap.mem \in [Addresses -> Nat] /\ mem_heap.brk \in 0 .. MAX_HEAP
  /\ tracenum \in 0 .. num_tracefiles /\ Len(trace) <= OpBound
  /\ \A k \in DOMAIN trace : trace[k] \in Operations
  /\ pass \in {"read", "valid", "util", "speed"}
  /\ i \in 1 .. OpBound + 1 /\ repeat \in 0 .. REPEATS
  /\ blocks \in [Indices -> Addresses] /\ block_sizes \in [Indices -> OpSizes \cup {0}]
  /\ \A r \in ranges : {r.lo, r.hi} \subseteq Addresses
  /\ total_size \in Nat /\ max_total_size \in Nat
  /\ errors \in 0 .. num_tracefiles
  /\ exit \in {"no", "exit(0)", "mm_realloc", "app_error"}
  /\ Len(answers) <= OpBound

Done == SubSeq(trace, 1, i - 1)

Live == LiveIn(Done)

(* During the check the range list has exactly the live payloads, which    *)
(* are disjoint, and each of them still holds its mark.                    *)
RangesAreLive ==
  pass = "valid" =>
    /\ ranges = {RangeOf(blocks[x], block_sizes[x]) : x \in Live}
    /\ \A x, y \in Live :
         x # y => Payload(blocks[x], block_sizes[x]) \cap Payload(blocks[y], block_sizes[y]) = {}
    /\ \A x \in Live : \A a \in Payload(blocks[x], block_sizes[x]) : mem_heap.mem[a] = Mark(x)

(* The driver blames the allocators for nothing but running out of memory: *)
(* no false alarm from a range that should have been removed, no payload   *)
(* misplaced or damaged.                                                   *)
OnlyMemoryFails ==
  [][errors' # errors => trace[i].type = "a" /\ Called(trace[i]).bp = NULL]_driverVars

(* What was checked is what is measured: mm_init makes the allocator       *)
(* forget the pass before, although the memory still has its tags and      *)
(* links, so that every later pass gets the same pointers from a heap of   *)
(* the same size, and never fails where the check has not.                 *)
Repeats ==
  pass \in {"util", "speed"} =>
    /\ exit' = exit
    /\ i' = i + 1 =>
         LET answer == <<blocks'[trace[i].index], mem_heap'.brk>> IN answer = answers[i]

ReplaysRepeat == [][Repeats]_driverVars

\* The bytes of the payloads of L.
SizeOf(L) ==
  LET upTo[n \in 0 .. OpBound] ==
        IF n = 0 THEN 0 ELSE upTo[n - 1] + (IF n - 1 \in L THEN block_sizes[n - 1] ELSE 0)
  IN  upTo[OpBound]

(* The utilisation is a fraction: the totals follow the live payloads,     *)
(* which fit in the heap that they are compared with.                      *)
UtilAtMostOne ==
  pass = "util" =>
    /\ total_size = SizeOf(Live)
    /\ max_total_size <= 4 * mem_heap.brk
=============================================================================
