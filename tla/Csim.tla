-------------------------------- MODULE Csim --------------------------------
(***************************************************************************)
(* The cache simulator of src/cachelab/csim.c: the lines of each set with  *)
(* their ages, the three counters, and the loop that replays a trace.      *)
(* A line keeps the tag of the address it stores; the block offset is      *)
(* masked away wherever the line is read.                                  *)
(***************************************************************************)
EXTENDS Integers, FiniteSets

CONSTANTS set_bits, block_bits, assoc,  \* -s, -b and -E
          ADDRESS_BITS,                 \* width of an address (64)
          INT_BITS,                     \* width of an int (32)
          Addrs,                        \* addresses that occur in the trace
          AccessBound                   \* bound of the model: accesses replayed

ASSUME CsimAssumption ==
  /\ set_bits \in Nat /\ block_bits \in Nat /\ assoc \in Nat \ {0}
  /\ ADDRESS_BITS \in Nat /\ INT_BITS \in Nat
  /\ set_bits + block_bits \in 1 .. INT_BITS - 1 /\ INT_BITS <= ADDRESS_BITS
  /\ Addrs \subseteq 0 .. 2^ADDRESS_BITS - 1
  /\ AccessBound \in Nat

----------------------------------------------------------------------------
(* The masks cut an address in tag, set index and block offset.  The set   *)
(* mask is converted to int (csim.c:243): as long as it keeps its sign bit *)
(* clear, the conversion and the and leave exactly the set's bits.  With   *)
(* no set and no block bit, 2^64 would overflow the tag mask (csim.c:88).  *)

set_amount == 2^set_bits

SetIndex(addr) == (addr \div 2^block_bits) % set_amount

Tag(addr) == addr \div 2^(block_bits + set_bits)

Sets == 0 .. set_amount - 1

Tags == {Tag(a) : a \in Addrs}

Ways == 1 .. assoc

NoTag == -1

EmptyLine == [valid |-> 0, last_used |-> 0, tag |-> NoTag]

Line == [valid : {1}, last_used : Nat, tag : Tags] \cup {EmptyLine}

(* Arithmetic that the proofs take as a fact and TLC evaluates.            *)
ASSUME PowersAssumption == set_amount \in Nat \ {0} /\ 2^block_bits \in Nat \ {0}

VARIABLES
  lines,                    \* [Sets -> [Ways -> Line]]
  hits, misses, evictions,
  again,                    \* address of an M line whose store part is left, or -1
  state,                    \* "replay", or "summary" or "error" at the end
  lastUse                   \* history: when each tag was last accessed

counters == <<hits, misses, evictions>>
vars == <<lines, counters, again, state, lastUse>>

TypeOK ==
  /\ lines \in [Sets -> [Ways -> Line]]
  /\ hits \in Nat /\ misses \in Nat /\ evictions \in Nat
  /\ again \in Addrs \cup {-1}
  /\ state \in {"replay", "summary", "error"}
  /\ lastUse \in [Sets -> [Tags -> Nat]]

Init ==
  /\ lines = [s \in Sets |-> [i \in Ways |-> EmptyLine]]
  /\ hits = 0 /\ misses = 0 /\ evictions = 0
  /\ again = -1 /\ state = "replay"
  /\ lastUse = [s \in Sets |-> [t \in Tags |-> 0]]

----------------------------------------------------------------------------
(* check_cache, on the lines ls of one set.                                *)

Valid(ls) == {i \in Ways : ls[i].valid = 1}

\* Mutant: the scan stops before the last line.
MatchShort(ls, t) == {i \in Valid(ls) : i < assoc /\ ls[i].tag = t}

Match(ls, t) == {i \in Valid(ls) : ls[i].tag = t}

FirstWay(S) == CHOOSE i \in S : \A j \in S : i <= j

Older(l) == [l EXCEPT !.last_used = @ + 1]

\* The scan ages the valid lines up to the one that hits, all on a miss.
AgedTo(ls, n) ==
  [i \in Ways |-> IF i \in Valid(ls) /\ i < n THEN Older(ls[i]) ELSE ls[i]]

Aged(ls) == AgedTo(ls, assoc + 1)

Used(ls, i, t) == [ls EXCEPT ![i] = [valid |-> 1, last_used |-> 0, tag |-> t]]

\* Mutant: ">" for ">=", the first line of largest age.
VictimFirst(ls) == CHOOSE i \in Ways :
                     \A j \in Ways : \/ ls[j].last_used < ls[i].last_used
                                     \/ ls[j].last_used = ls[i].last_used /\ i <= j

(* The line of largest age, the last of those: the search keeps a later    *)
(* line of the same age (">=", line 303).                                  *)
Victim(ls) == CHOOSE i \in Ways :
                \A j \in Ways : \/ ls[j].last_used < ls[i].last_used
                                \/ ls[j].last_used = ls[i].last_used /\ j <= i

\* Mutant: a hit does not reset the age.
HitKeepsAge(s, t) ==
  /\ Match(lines[s], t) # {}
  /\ lines' = [lines EXCEPT ![s] = AgedTo(@, FirstWay(Match(lines[s], t)))]
  /\ hits' = hits + 1
  /\ UNCHANGED <<misses, evictions>>

Hit(s, t) ==
  /\ Match(lines[s], t) # {}
  /\ LET i == FirstWay(Match(lines[s], t)) IN
     lines' = [lines EXCEPT ![s] = Used(AgedTo(@, i), i, t)]
  /\ hits' = hits + 1
  /\ UNCHANGED <<misses, evictions>>

Fill(s, t) ==
  /\ Match(lines[s], t) = {} /\ Valid(lines[s]) # Ways
  /\ lines' = [lines EXCEPT ![s] = Used(Aged(@), FirstWay(Ways \ Valid(@)), t)]
  /\ misses' = misses + 1
  /\ UNCHANGED <<hits, evictions>>

\* Mutant: evictions are not counted.
EvictUncounted(s, t) ==
  /\ Match(lines[s], t) = {} /\ Valid(lines[s]) = Ways
  /\ lines' = [lines EXCEPT ![s] = Used(Aged(@), Victim(Aged(@)), t)]
  /\ misses' = misses + 1
  /\ UNCHANGED <<hits, evictions>>

Evict(s, t) ==
  /\ Match(lines[s], t) = {} /\ Valid(lines[s]) = Ways
  /\ lines' = [lines EXCEPT ![s] = Used(Aged(@), Victim(Aged(@)), t)]
  /\ misses' = misses + 1 /\ evictions' = evictions + 1
  /\ UNCHANGED hits

check_cache(s, t) ==
  /\ Hit(s, t) \/ Fill(s, t) \/ Evict(s, t)
  /\ lastUse' = [lastUse EXCEPT ![s][t] = hits + misses + 1]

Access(addr) == check_cache(SetIndex(addr), Tag(addr))

----------------------------------------------------------------------------
(* The replay loop.  I lines, and lines with another letter, change        *)
(* nothing.                                                                *)

Replaying == state = "replay" /\ again = -1 /\ hits + misses < AccessBound

\* An L or S line.
LoadStore(addr) == Replaying /\ Access(addr) /\ UNCHANGED <<again, state>>

\* An M line: a load part and a store part on the same address.
ModifyLoad(addr) == Replaying /\ Access(addr) /\ again' = addr /\ UNCHANGED state

ModifyStore(addr) ==
  /\ again = addr /\ Access(addr) /\ again' = -1
  /\ UNCHANGED state

\* End of file, or a line that cannot be read: main prints and exits.
Finish ==
  /\ state = "replay" /\ again = -1
  /\ state' \in {"summary", "error"}
  /\ UNCHANGED <<lines, counters, again, lastUse>>

Finished == state # "replay" /\ UNCHANGED vars

Next == \/ \E addr \in Addrs : \/ LoadStore(addr) \/ ModifyLoad(addr)
                               \/ ModifyStore(addr)
        \/ Finish \/ Finished

Spec == Init /\ [][Next]_vars

----------------------------------------------------------------------------
(* Safety.                                                                 *)

(* Each tag is in one line of its set, so the first match is the match,    *)
(* and the valid lines are a prefix, so "free > 0" (line 279) means that   *)
(* the search for a free line succeeds.                                    *)
LinesAreASet ==
  \A s \in Sets : \A i, j \in Ways :
    /\ i \in Valid(lines[s]) /\ j < i => j \in Valid(lines[s])
    /\ {i, j} \subseteq Valid(lines[s]) /\ lines[s][i].tag = lines[s][j].tag => i = j

(* The counters account for the content: every miss that did not evict has *)
(* filled a line that is still valid.                                      *)
MissesAccountForLines ==
  misses - evictions =
    Cardinality({si \in Sets \X Ways : si[2] \in Valid(lines[si[1]])})

(* The store part of an M line always hits (line 134).                     *)
StorePartHits ==
  [][\A addr \in Addrs : again = addr /\ again' = -1 => hits' = hits + 1]_vars

\* The tag that the step removes from set s.
EvictedTags(s) == {lines[s][i].tag : i \in Valid(lines[s])}
                    \ {lines[s][i].tag : i \in Valid(lines[s])}'

(* With at least two lines per set the line used last is never the victim, *)
(* although its age of 0 is not unique: a hit leaves the lines behind it   *)
(* as young as they were (the break at line 263).                          *)
MostRecentStays ==
  [][assoc >= 2 =>
       \A s \in Sets : \A t \in EvictedTags(s) :
         \E u \in Tags : lastUse[s][u] > lastUse[s][t]]_vars

(* "evict the least recently used line" (line 238).                        *)
EvictsLeastRecent ==
  [][\A s \in Sets : \A t \in EvictedTags(s) : \A i \in Valid(lines[s]) :
        lastUse[s][t] <= lastUse[s][lines[s][i].tag]]_vars

----------------------------------------------------------------------------
(* The inductive invariant behind these.                                   *)

ClockIsAhead == \A s \in Sets : \A t \in Tags : lastUse[s][t] <= hits + misses

(* The line of a set that was used last has age 0 and the lines before it  *)
(* have been aged since they were used; of the lines behind it one only    *)
(* knows that they were used earlier.                                      *)
MostRecentIsYoung ==
  \A s \in Sets : Valid(lines[s]) # {} =>
    \E m \in Valid(lines[s]) :
      /\ lines[s][m].last_used = 0
      /\ \A j \in Valid(lines[s]) \ {m} :
           /\ lastUse[s][lines[s][j].tag] < lastUse[s][lines[s][m].tag]
           /\ j < m => lines[s][j].last_used >= 1

\* What the load part of an M line has brought in is there for the store.
AgainIsCached ==
  again # -1 => Match(lines[SetIndex(again)], Tag(again)) # {}

(* Age 0 says which line was used last only because no tag is in two       *)
(* lines, the clock runs ahead of every use and the free lines are the     *)
(* last ones; together they are inductive.                                 *)
IInv == /\ TypeOK /\ LinesAreASet /\ ClockIsAhead /\ MostRecentIsYoung
        /\ AgainIsCached /\ MissesAccountForLines

----------------------------------------------------------------------------
(* The reference cache: the content of a set is the set of its valid tags. *)

content == [s \in Sets |-> {lines[s][i].tag : i \in Valid(lines[s])}]

LRU == INSTANCE LruCache WITH E <- assoc

(* With one or two lines per set the simulator is an LRU cache: it counts  *)
(* the hits, misses and evictions of the reference on every trace.         *)
ImplementsLru == LRU!Spec
============================================================================
