----------------------------- MODULE Transpose ------------------------------
(***************************************************************************)
(* The transpose functions of src/cachelab/trans.c and their evaluation by *)
(* test-trans.c: for each function tracegen.c runs it and compares B with  *)
(* the transpose of A; the accesses of a function that has passed are      *)
(* replayed by a cache simulator with 32 sets of one line of 32 bytes      *)
(* (csim-ref, a binary that is not in the repository).  When it does not   *)
(* run nobody notices, and .csim_results keeps what an earlier run left.   *)
(*                                                                         *)
(* An element of A or B is a number, row * width + column, also where the  *)
(* column is past the width, as in C.  All elements of A differ: the value *)
(* of an element is its number, and Other is any value that is not in A.   *)
(* The handful of accesses of the call itself is left out of the trace.    *)
(***************************************************************************)
EXTENDS Integers, Sequences, FiniteSets

CONSTANTS Sizes,    \* pairs M, N: A has N rows of M elements, B M rows of N
          BATCH     \* moves or accesses in a step; nothing looks in between

VARIABLES
  size,     \* the matrices of this run of test-trans
  i,        \* the function under evaluation
  pc,       \* "tracegen", "csim", "collect", or "done" or "abort" at the end
  k,        \* the next move of the function, or access of its trace
  B,        \* the rows of B
  line,     \* the block in each set of the simulator's cache, or Empty
  num_misses,
  csim_results,     \* misses in the file .csim_results, or None
  func_list,        \* correct and num_misses of each function
  results,          \* what test-trans prints of the submission
  failed            \* history: functions for which csim-ref did not run

files == <<csim_results, func_list, results, failed>>
vars == <<size, i, pc, k, B, line, num_misses, files>>

M == size[1]

N == size[2]

----------------------------------------------------------------------------
(* Each function is its loop nest unrolled: a function from the iterations *)
(* to moves.  A move reads width elements of row ii of A from column jj on *)
(* and writes them to column ii of B.                                      *)

Move(ii, jj, width) == [ii |-> ii, jj |-> jj, width |-> width]

\* Iterations of a loop from 0 to bound.
Times(bound, step) == (bound + step - 1) \div step

\* Columns in strips of the given width; in each strip row by row.
Strips(width) ==
  LET rows == width * Times(M, width)
  IN  [n \in 0 .. rows * Times(N, width) - 1 |->
         Move(n % rows, (n \div rows) * width, width)]

trans == [n \in 0 .. M * N - 1 |-> Move(n \div M, n % M, 1)]

Nothing == [n \in {} |-> Move(0, 0, 0)]

\* Mutants: the large matrix in strips of 8; no strips.
transpose_submitWide ==
  CASE size = <<32, 32>> -> Strips(8)
    [] size = <<64, 64>> -> Strips(8)
    [] size = <<61, 67>> -> trans
    [] OTHER             -> Nothing

transpose_submitWithin ==
  CASE M <= 32 /\ N <= 32 -> Strips(8)
    [] size = <<64, 64>> -> Strips(4)
    [] size = <<61, 67>> -> trans
    [] OTHER             -> Nothing

(* One strip of 8 or 4 columns after the other; the blocks of a strip are  *)
(* one below the other, so that their rows are in order.                   *)
transpose_submit ==
  CASE size = <<32, 32>> -> Strips(8)
    [] size = <<64, 64>> -> Strips(4)
    [] size = <<61, 67>> -> trans
    [] OTHER             -> Nothing

\* Blocks of 4 x 4, 16 single moves each.
transpose_blocking ==
  LET across == Times(M, 4)
  IN  [n \in 0 .. 16 * across * Times(N, 4) - 1 |->
         LET block == n \div 16
         IN  Move(4 * (block \div across) + ((n \div 4) % 4),
                  4 * (block % across) + (n % 4), 1)]

(* Blocks of 8 x 8, each in two halves: in every half the four upper rows  *)
(* are read at jj and the four lower ones at jj + 4.                       *)
transpose_64M ==
  LET down == Times(M, 8)
  IN  [n \in 0 .. 16 * down * Times(N, 8) - 1 |->
         LET block == n \div 16
             row == n % 8
             jj == 8 * (block \div down) + 4 * ((n \div 8) % 2)
         IN  Move(8 * (block % down) + row, IF row < 4 THEN jj ELSE jj + 4, 4)]

registerFunctions == <<"transpose_submit", "trans", "transpose_blocking", "transpose_64M">>

Funcs == DOMAIN registerFunctions

Moves ==
  CASE registerFunctions[i] = "transpose_submit"   -> transpose_submit
    [] registerFunctions[i] = "trans"              -> trans
    [] registerFunctions[i] = "transpose_blocking" -> transpose_blocking
    [] registerFunctions[i] = "transpose_64M"      -> transpose_64M

ElementOfA(move, c) == move.ii * M + move.jj + c

ElementOfB(move, c) == (move.jj + c) * N + move.ii

----------------------------------------------------------------------------
(* tracegen: the function runs on A and a random B, then validate.         *)

Other == -1

None == -1

NewMatrix == [r \in 0 .. M - 1 |-> [c \in 0 .. N - 1 |-> Other]]

\* What column c of a move reads.
Value(move, c) ==
  IF ElementOfA(move, c) < M * N THEN ElementOfA(move, c) ELSE Other

(* The elements written are one below the other; what is below the last    *)
(* row of B is in the array and not in the matrix.                         *)
Moved(b, move) ==
  LET first == ElementOfB(move, 0) \div N
      column == ElementOfB(move, 0) % N
  IN  [r \in DOMAIN b |->
         IF r - first \in 0 .. move.width - 1
         THEN [b[r] EXCEPT ![column] = Value(move, r - first)]
         ELSE b[r]]

\* The end of this step in a loop of count iterations.
Upto(count) == IF k + BATCH < count THEN k + BATCH ELSE count

Run ==
  /\ pc = "tracegen" /\ k < Cardinality(DOMAIN Moves)
  /\ k' = Upto(Cardinality(DOMAIN Moves))
  /\ LET after[n \in k .. k'] == IF n = k THEN B ELSE Moved(after[n - 1], Moves[n - 1])
     IN  B' = after[k']
  /\ UNCHANGED <<size, i, pc, line, num_misses, files>>

\* B is the transpose of A.
validate == \A r \in DOMAIN B : B[r] = [c \in 0 .. N - 1 |-> c * M + r]

Empty == -1

EmptyCache == [s \in 0 .. 31 |-> Empty]

(* The loop of eval_perf goes on; tracegen and csim start as new processes. *)
NextFunction ==
  /\ line' = EmptyCache /\ num_misses' = 0
  /\ IF i = Len(registerFunctions) THEN pc' = "done" /\ B' = <<>> /\ UNCHANGED i
     ELSE pc' = "tracegen" /\ B' = NewMatrix /\ i' = i + 1

Submitted == registerFunctions[i] = "transpose_submit"

\* A function that is no transpose is skipped.
Validate ==
  /\ pc = "tracegen" /\ k = Cardinality(DOMAIN Moves)
  /\ k' = 0
  /\ results' = IF Submitted
                THEN [results EXCEPT !.funcid = i, !.correct = IF validate THEN 1 ELSE 0]
                ELSE results
  /\ IF validate
     THEN /\ pc' = "csim" /\ B' = <<>>
          /\ func_list' = [func_list EXCEPT ![i].correct = 1]
          /\ UNCHANGED <<i, line, num_misses>>
     ELSE NextFunction /\ UNCHANGED func_list
  /\ UNCHANGED <<size, csim_results, failed>>

----------------------------------------------------------------------------
(* The simulator replays the trace.                                        *)

\* The number of accesses; all moves of a function have the same width.
Accesses == 2 * Moves[0].width * Cardinality(DOMAIN Moves)

(* The block of 32 bytes of the nth access.  A and B are arrays of         *)
(* 256 x 256 ints of 4 bytes, one behind the other from a block on.        *)
Block(n) ==
  LET width == Moves[0].width
      move == Moves[n \div (2 * width)]
      c == n % (2 * width)
  IN  IF c < width THEN ElementOfA(move, c) \div 8
      ELSE (256 * 256 + ElementOfB(move, c - width)) \div 8

Accessed(cache, block) ==
  IF cache.line[block % 32] = block THEN cache
  ELSE [line |-> [cache.line EXCEPT ![block % 32] = block], num_misses |-> cache.num_misses + 1]

Replay ==
  /\ pc = "csim" /\ k < Accesses
  /\ k' = Upto(Accesses)
  /\ LET after[n \in k .. k'] ==
           IF n = k THEN [line |-> line, num_misses |-> num_misses]
           ELSE Accessed(after[n - 1], Block(n - 1))
     IN  line' = after[k'].line /\ num_misses' = after[k'].num_misses
  /\ UNCHANGED <<size, i, pc, B, files>>

\* printSummary.
Summary ==
  /\ pc = "csim" /\ k = Accesses
  /\ csim_results' = num_misses /\ pc' = "collect"
  /\ UNCHANGED <<size, i, k, B, line, num_misses, func_list, results, failed>>

CsimFails ==
  /\ pc = "csim" /\ k = 0
  /\ failed' = failed \cup {i} /\ pc' = "collect"
  /\ UNCHANGED <<size, i, k, B, line, num_misses, csim_results, func_list, results>>

\* Mutant: the misses of the last function are the result.
CollectLast ==
  /\ pc = "collect" /\ csim_results # None
  /\ func_list' = [func_list EXCEPT ![i].num_misses = csim_results]
  /\ results' = [results EXCEPT !.misses = csim_results]
  /\ k' = 0 /\ NextFunction
  /\ UNCHANGED <<size, csim_results, failed>>

Collect ==
  /\ pc = "collect" /\ csim_results # None
  /\ func_list' = [func_list EXCEPT ![i].num_misses = csim_results]
  /\ results' = IF results.funcid = i THEN [results EXCEPT !.misses = csim_results]
                ELSE results
  /\ k' = 0 /\ NextFunction
  /\ UNCHANGED <<size, csim_results, failed>>

\* There is no file to open.
Abort ==
  /\ pc = "collect" /\ csim_results = None
  /\ pc' = "abort"
  /\ UNCHANGED <<size, i, k, B, line, num_misses, files>>

INT_MAX == 2147483647

Init ==
  /\ size \in Sizes
  /\ i = 1 /\ pc = "tracegen" /\ k = 0
  /\ B = NewMatrix
  /\ line = EmptyCache /\ num_misses = 0 /\ csim_results = None
  /\ func_list = [f \in Funcs |-> [correct |-> 0, num_misses |-> 0]]
  /\ results = [funcid |-> -1, correct |-> 0, misses |-> INT_MAX] /\ failed = {}

Done == pc \in {"done", "abort"} /\ UNCHANGED vars

Next == \/ Run \/ Validate \/ Replay \/ Summary \/ CsimFails \/ Collect \/ Abort
        \/ Done

Spec == Init /\ [][Next]_vars

----------------------------------------------------------------------------
(* Properties.                                                             *)

Entry(name) == func_list[CHOOSE f \in Funcs : registerFunctions[f] = name]

(* Which of the registered functions are transposes: the submission on the *)
(* sizes it knows, the plain one always, the blocked one unless its last   *)
(* blocks reach over the rows of B into the next ones, and transpose_64M   *)
(* never, as it reads the lower rows four columns too far.                 *)
WhichTranspose ==
  pc = "done" =>
    /\ Entry("transpose_submit").correct = 1
         <=> size \in {<<32, 32>>, <<64, 64>>, <<61, 67>>}
    /\ Entry("trans").correct = 1
    /\ Entry("transpose_blocking").correct = 1 <=> N % 4 = 0
    /\ Entry("transpose_64M").correct = 0

(* What the strips are for: as long as csim-ref runs, test-trans reports   *)
(* for the square matrices fewer misses than driver.py gives points for    *)
(* (600 and 2000; with less than 300 all of them), the plain function has  *)
(* more; on 61 x 67 it is the submission.  A wrong one never has a number. *)
StripsPay ==
  pc = "done" =>
    /\ results.correct = 0 => results.misses = INT_MAX
    /\ failed = {} =>
         /\ size = <<32, 32>> => results.misses < 300 /\ Entry("trans").num_misses > 600
         /\ size = <<64, 64>> => results.misses < 2000 /\ Entry("trans").num_misses > 2000
         /\ size = <<61, 67>> => results.misses = Entry("trans").num_misses
=============================================================================
