-------------------------------- MODULE Clock --------------------------------
(***************************************************************************)
(* The counters of src/malloclab/clock.c.  The cycle counter of the        *)
(* machine is two words, read together on i386; on the Alpha the program   *)
(* sees the low word only, and on other machines clock.c exits.  A word    *)
(* counts to WORD - 1 (2^32 - 1) and wraps.                                *)
(*                                                                         *)
(* The timer interrupts the program between any two of its steps: its      *)
(* handler takes TICK cycles and adds one to the time that times returns.  *)
(***************************************************************************)
EXTENDS Integers

CONSTANTS WORD,       \* values of a word of the counter
          TICK,       \* cycles of the handler
          Boots       \* counts that the machine may begin with

Span == WORD * WORD

ASSUME ClockAssumption ==
  WORD \in Nat \ {0} /\ TICK \in Nat \ {0} /\ Boots \subseteq 0 .. Span - 1

VARIABLES
  machine,            \* "i386", "alpha" or "other"
  counter,            \* the machine's: both words as one number
  cyc_hi, cyc_lo,     \* the counter at start_counter
  tms_utime,          \* what times returns
  start_tick,         \* times at start_comp_counter
  cyc_per_tick        \* cycles of the handler, as callibrate has found them

counters == <<cyc_hi, cyc_lo>>
clockVars == <<machine, counter, counters, tms_utime, start_tick, cyc_per_tick>>

ClockInit ==
  /\ machine \in {"i386", "alpha", "other"}
  /\ counter \in Boots
  /\ cyc_hi = 0 /\ cyc_lo = 0 /\ tms_utime = 0 /\ start_tick = 0 /\ cyc_per_tick = 0

\* Cycles go by.
Later(c, n) == (c + n) % Span

Hi == IF machine = "i386" THEN counter \div WORD ELSE 0

Lo == counter % WORD

start_counter == cyc_hi' = Hi /\ cyc_lo' = Lo

\* Mutant: the borrow is forgotten.
get_counterNoBorrow ==
  LET lo == (Lo - cyc_lo) % WORD
      hi == (Hi - cyc_hi) % WORD
  IN  hi * WORD + lo

(* Double word subtraction in unsigned words.                              *)
get_counter ==
  LET lo == (Lo - cyc_lo) % WORD
      borrow == IF lo > Lo THEN 1 ELSE 0
      hi == (Hi - cyc_hi - borrow) % WORD
  IN  hi * WORD + lo

(* callibrate measures interrupts until it has seen NEVENT of them and     *)
(* keeps the shortest, which has some cycles of its own loop in it; none   *)
(* that is not above RECORDTHRESH, and then cyc_per_tick stays 0.          *)
callibrate == {0, TICK, TICK + 1}
=============================================================================
