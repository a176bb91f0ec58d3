------------------------------ MODULE LruCache ------------------------------
(***************************************************************************)
(* What a set-associative cache with least-recently-used replacement does  *)
(* with a sequence of accesses: each set holds at most E tags, a miss on a *)
(* full set evicts the tag whose last access is the oldest.  This is the   *)
(* reference that module Csim is compared with (csim.c:237-238).           *)
(***************************************************************************)
EXTENDS Integers, FiniteSets

CONSTANTS Sets,     \* set indices
          Tags,     \* tags an address of the trace can have
          E         \* lines per set

VARIABLES content,  \* [Sets -> SUBSET Tags]: what each set holds
          lastUse,  \* [Sets -> [Tags -> Nat]]: time of the last access, 0: never
          hits, misses, evictions

vars == <<content, lastUse, hits, misses, evictions>>

Init ==
  /\ content = [s \in Sets |-> {}]
  /\ lastUse = [s \in Sets |-> [t \in Tags |-> 0]]
  /\ hits = 0 /\ misses = 0 /\ evictions = 0

\* Time is the number of accesses so far.
Now == hits + misses

Touch(s, t) == lastUse' = [lastUse EXCEPT ![s][t] = Now + 1]

Hit(s, t) ==
  /\ t \in content[s]
  /\ hits' = hits + 1
  /\ Touch(s, t)
  /\ UNCHANGED <<content, misses, evictions>>

Fill(s, t) ==
  /\ t \notin content[s] /\ Cardinality(content[s]) < E
  /\ content' = [content EXCEPT ![s] = @ \cup {t}]
  /\ misses' = misses + 1
  /\ Touch(s, t)
  /\ UNCHANGED <<hits, evictions>>

Oldest(s) == {u \in content[s] : \A v \in content[s] : lastUse[s][u] <= lastUse[s][v]}

Evict(s, t) ==
  /\ t \notin content[s] /\ Cardinality(content[s]) = E
  /\ \E u \in Oldest(s) : content' = [content EXCEPT ![s] = (@ \ {u}) \cup {t}]
  /\ misses' = misses + 1 /\ evictions' = evictions + 1
  /\ Touch(s, t)
  /\ UNCHANGED hits

Next == \E s \in Sets, t \in Tags : Hit(s, t) \/ Fill(s, t) \/ Evict(s, t)

Spec == Init /\ [][Next]_vars
============================================================================
