-------------------------------- MODULE Fcyc --------------------------------
(***************************************************************************)
(* The K-best measurement of src/malloclab/fcyc.c on the counters of       *)
(* Clock: fcyc runs a function until the kbest smallest samples agree      *)
(* within epsilon or there are maxsamples of them, and returns the         *)
(* smallest.  The parameters are set between two measurements; the cache   *)
(* buffer is kept from one to the next.                                    *)
(*                                                                         *)
(* Every call of the function takes some of the cycles in Costs, and the   *)
(* timer may interrupt each step.  epsilon is in hundredths.               *)
(***************************************************************************)
EXTENDS Clock, Sequences, SequencesExt

CONSTANTS Ks, Samples, Epsilons, CacheBytes,    \* what the parameters are set to
          Costs,                                \* cycles of the function
          TickBound, CALLS  \* bounds of the model: interrupts, and calls of fcyc

ASSUME FcycAssumption ==
  /\ Ks \subseteq Nat \ {0} /\ Samples \subseteq Nat /\ Epsilons \subseteq Nat
  /\ CacheBytes \subseteq Nat \ {0} /\ Costs \subseteq Nat \ {0}
  /\ TickBound \in Nat /\ CALLS \in Nat

NoBuffer == 0

VARIABLES
  kbest, maxsamples, epsilon, compensate, clear_cache, cache_bytes,
  cache_buf,      \* bytes of the buffer, or NoBuffer
  values,         \* the smallest samples, kbest of them
  samplecount,
  time,           \* what get_counter has returned to get_comp_counter
  step,           \* of fcyc
  result,
  calls,          \* history: calls of fcyc
  took,           \* history: cycles of the function in this sample
  inside, around, \* history: interrupts while it was counted, and just before or after
  samples         \* history: all samples of this call

parameters == <<kbest, maxsamples, epsilon, compensate, clear_cache, cache_bytes>>
sampler == <<values, samplecount, result, samples>>
interrupts == <<inside, around>>
fcycVars == <<clockVars, parameters, cache_buf, sampler, time, step, calls, took, interrupts>>

FcycInit ==
  /\ ClockInit
  /\ kbest \in Ks /\ maxsamples \in Samples /\ epsilon \in Epsilons
  /\ compensate \in BOOLEAN /\ clear_cache \in BOOLEAN /\ cache_bytes \in CacheBytes
  /\ cache_buf = NoBuffer /\ values = <<>> /\ samplecount = 0 /\ result = 0 /\ samples = <<>>
  /\ time = 0 /\ step = "idle" /\ calls = 0 /\ took = 0 /\ inside = 0 /\ around = 0

----------------------------------------------------------------------------
(* The setters.                                                            *)

Set ==
  /\ step = "idle" /\ calls > 0 /\ calls < CALLS
  /\ kbest' \in Ks /\ maxsamples' \in Samples /\ epsilon' \in Epsilons
  /\ compensate' \in BOOLEAN /\ clear_cache' \in BOOLEAN
  /\ samples' = <<>>
  /\ UNCHANGED <<clockVars, cache_bytes, cache_buf, values, samplecount, result, time,
                 step, calls, took, interrupts>>

\* Mutant: the buffer of the old size is kept.
KeptBuffer(bytes) == cache_buf

\* The buffer is allocated anew when its size changes.
BufferAfter(bytes) == IF bytes = cache_bytes THEN cache_buf ELSE NoBuffer

set_fcyc_cache_size(bytes) ==
  /\ step = "idle" /\ calls > 0 /\ calls < CALLS
  /\ cache_bytes' = bytes /\ cache_buf' = BufferAfter(bytes)
  /\ UNCHANGED <<clockVars, kbest, maxsamples, epsilon, compensate, clear_cache, sampler,
                 time, step, calls, took, interrupts>>

----------------------------------------------------------------------------
(* The sampler.                                                            *)

\* init_sampler, as fcyc is called.
Call ==
  /\ step = "idle" /\ calls < CALLS /\ calls' = calls + 1
  /\ values' = [k \in 1 .. kbest |-> 0] /\ samplecount' = 0 /\ samples' = <<>>
  /\ step' = "clear"
  /\ UNCHANGED <<clockVars, parameters, cache_buf, result, time, took, interrupts>>

\* Mutant: a sample replaces the largest value only if it is the smallest.
PlacedSmallest(val) ==
  CASE samplecount < kbest -> [values EXCEPT ![samplecount + 1] = val]
    [] samplecount >= kbest /\ val < values[1] -> [values EXCEPT ![kbest] = val]
    [] OTHER -> values

\* Where the sample is put: behind the others, or for the largest.
Placed(val) ==
  CASE samplecount < kbest -> [values EXCEPT ![samplecount + 1] = val]
    [] samplecount >= kbest /\ val < values[kbest] -> [values EXCEPT ![kbest] = val]
    [] OTHER -> values

\* The insertion sort: the value at pos moves down past larger ones.
Inserted(vals, pos) ==
  LET down[p \in 1 .. kbest] == IF p > 1 /\ vals[p - 1] > vals[pos] THEN down[p - 1] ELSE p
      to == down[pos]
  IN  [k \in 1 .. kbest |-> CASE k = to -> vals[pos]
                             [] k > to /\ k <= pos -> vals[k - 1]
                             [] OTHER -> vals[k]]

SortedIn(val) ==
  LET vals == Placed(val)
      pos == IF samplecount < kbest THEN samplecount + 1
             ELSE IF val < values[kbest] THEN kbest ELSE 1
  IN  Inserted(vals, pos)

\* Mutant: the first samples are compared before there are kbest of them.
has_convergedEarly(vals, count) == (100 + epsilon) * vals[1] >= 100 * vals[kbest]

has_converged(vals, count) ==
  count >= kbest /\ (100 + epsilon) * vals[1] >= 100 * vals[kbest]

(* add_sample, and the end of the loop: the next sample, or the result.    *)
add_sample(val) ==
  /\ samples' = Append(samples, val) /\ samplecount' = samplecount + 1
  /\ IF ~ has_converged(SortedIn(val), samplecount + 1) /\ samplecount + 1 < maxsamples
     THEN values' = SortedIn(val) /\ step' = "clear" /\ UNCHANGED result
     ELSE values' = <<>> /\ step' = "idle" /\ result' = SortedIn(val)[1]

----------------------------------------------------------------------------
(* A sample.                                                               *)

Clear ==
  /\ step = "clear"
  /\ cache_buf' = IF clear_cache /\ cache_buf = NoBuffer THEN cache_bytes ELSE cache_buf
  /\ step' = IF compensate THEN "times" ELSE "start"
  /\ took' = 0 /\ inside' = 0 /\ around' = 0
  /\ UNCHANGED <<clockVars, parameters, sampler, time, calls>>

\* There is no memory for the buffer.
ClearFails ==
  /\ step = "clear" /\ clear_cache /\ cache_buf = NoBuffer /\ step' = "exit"
  /\ UNCHANGED <<clockVars, parameters, cache_buf, sampler, time, calls, took, interrupts>>

\* start_comp_counter, up to its call of start_counter.
Times ==
  /\ step = "times"
  /\ cyc_per_tick' \in IF cyc_per_tick = 0 THEN callibrate ELSE {cyc_per_tick}
  /\ start_tick' = tms_utime /\ step' = "start"
  /\ UNCHANGED <<machine, counter, counters, tms_utime, parameters, cache_buf, sampler,
                 time, calls, took, interrupts>>

Start ==
  /\ step = "start"
  /\ IF machine = "other" THEN step' = "exit" /\ UNCHANGED counters
     ELSE step' = "run" /\ start_counter
  /\ UNCHANGED <<machine, counter, tms_utime, start_tick, cyc_per_tick, parameters,
                 cache_buf, sampler, time, calls, took, interrupts>>

\* Mutant: times is called after start_counter.
RunTimesLate(cost) ==
  /\ step = "run"
  /\ counter' = Later(counter, cost) /\ took' = cost /\ step' = "get"
  /\ start_tick' = tms_utime
  /\ UNCHANGED <<machine, counters, tms_utime, cyc_per_tick, parameters, cache_buf,
                 sampler, time, calls, interrupts>>

Run(cost) ==
  /\ step = "run"
  /\ counter' = Later(counter, cost) /\ took' = cost /\ step' = "get"
  /\ UNCHANGED <<machine, counters, tms_utime, start_tick, cyc_per_tick, parameters,
                 cache_buf, sampler, time, calls, interrupts>>

Get ==
  /\ step = "get" /\ ~ compensate /\ add_sample(get_counter)
  /\ UNCHANGED <<clockVars, parameters, cache_buf, time, calls, took, interrupts>>

GetComp ==
  /\ step = "get" /\ compensate
  /\ time' = get_counter /\ step' = "stop"
  /\ UNCHANGED <<clockVars, parameters, cache_buf, sampler, calls, took, interrupts>>

Stop ==
  /\ step = "stop"
  /\ add_sample(time - (tms_utime - start_tick) * cyc_per_tick)
  /\ time' = 0
  /\ UNCHANGED <<clockVars, parameters, cache_buf, calls, took, interrupts>>

Interrupt ==
  /\ tms_utime < TickBound
  /\ counter' = Later(counter, TICK) /\ tms_utime' = tms_utime + 1
  /\ \/ step \in {"start", "stop"} /\ around' = around + 1 /\ UNCHANGED inside
     \/ step \in {"run", "get"} /\ inside' = inside + 1 /\ UNCHANGED around
  /\ UNCHANGED <<machine, counters, start_tick, cyc_per_tick, parameters, cache_buf,
                 sampler, time, step, calls, took>>

\* The program has exited, or the model's calls have been made.
Ended ==
  /\ step = "exit" \/ (step = "idle" /\ calls = CALLS)
  /\ UNCHANGED fcycVars

FcycNext ==
  \/ Set \/ \E bytes \in CacheBytes : set_fcyc_cache_size(bytes)
  \/ Call \/ Clear \/ ClearFails \/ Times \/ Start
  \/ \E cost \in Costs : Run(cost)
  \/ Get \/ GetComp \/ Stop \/ Interrupt \/ Ended

FcycSpec == FcycInit /\ [][FcycNext]_fcycVars

----------------------------------------------------------------------------
(* Properties.                                                             *)

FcycTypeOK ==
  /\ machine \in {"i386", "alpha", "other"} /\ counter \in 0 .. Span - 1
  /\ cyc_hi \in 0 .. WORD - 1 /\ cyc_lo \in 0 .. WORD - 1
  /\ values \in Seq(Int) /\ Len(values) \in {0, kbest} /\ samplecount \in Nat
  /\ step \in {"idle", "clear", "times", "start", "run", "get", "stop", "exit"}

(* The ways to pick the k smallest elements of s, in their order: each is  *)
(* not above any element that has not been picked before it.               *)
Smallest(k, s) ==
  {p \in Injection(1 .. k, DOMAIN s) :
     \A i \in 1 .. k : \A x \in DOMAIN s \ {p[j] : j \in 1 .. i} : s[p[i]] <= s[x]}

\* The elements picked, and zeros if they are fewer than kbest.
Row(s, p) == [i \in 1 .. kbest |-> IF i \in DOMAIN p THEN s[p[i]] ELSE 0]

KeptCount(s) == IF Len(s) < kbest THEN Len(s) ELSE kbest

Agree(s) ==
  /\ Len(s) >= kbest
  /\ \E p \in Smallest(kbest, s) : (100 + epsilon) * s[p[1]] >= 100 * s[p[kbest]]

(* The values are the smallest samples in their order; fcyc stops as soon  *)
(* as kbest of them agree or there are maxsamples, with the smallest one;  *)
(* and clear never reads past the buffer, whose size may have been set     *)
(* since it was allocated.                                                 *)
BestOfSamples ==
  /\ values # <<>> =>
       \E p \in Smallest(KeptCount(samples), samples) : values = Row(samples, p)
  /\ step \notin {"idle", "exit"} =>
       /\ ~ Agree(samples)
       /\ samples # <<>> => Len(samples) < maxsamples
  /\ step = "idle" /\ samples # <<>> =>
       /\ Agree(samples) \/ Len(samples) >= maxsamples
       /\ \E p \in Smallest(1, samples) : result = samples[p[1]]
  /\ cache_buf \in {NoBuffer, cache_bytes}

\* Cycles that go by while they are counted.
Elapsed == took + inside * TICK

(* A sample is exact as long as the counter can hold it: on i386 wherever  *)
(* its words wrap, on the Alpha if the low word does not.  A compensated   *)
(* one is never above what the function itself has taken, because times    *)
(* encloses the counters; it is too low by interrupts at its edges and by  *)
(* what cyc_per_tick is too large, and may be negative.                    *)
SampleIsSound ==
  \/ samples' = samples \/ samples' = <<>>
  \/ LET val == Last(samples')
         holds == \/ machine = "i386" /\ Elapsed < Span
                  \/ machine = "alpha" /\ cyc_lo + Elapsed < WORD
     IN  holds =>
           IF compensate /\ cyc_per_tick > 0
           THEN /\ val <= took
                /\ took - val <= around * cyc_per_tick + inside * (cyc_per_tick - TICK)
           ELSE val = Elapsed

SamplesAreSound == [][SampleIsSound]_fcycVars
=============================================================================
