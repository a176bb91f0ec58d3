----------------------------- MODULE CsimProofs -----------------------------
(***************************************************************************)
(* Proofs about the cache simulator, for any number of sets, ways and      *)
(* addresses.  What happens to one set of lines is stated once (UsedLine): *)
(* a hit, a fill and an eviction all age some lines and use one.           *)
(***************************************************************************)
EXTENDS MCCachelab, NatLemmas

(* The facts of the inductive invariant that are about the lines ls of one *)
(* set and the times lu of the last accesses to its tags.                  *)
LineSetOK(ls, lu) ==
  /\ \A q, j \in Ways : q \in Valid(ls) /\ j < q => j \in Valid(ls)
  /\ \A q, j \in Valid(ls) : ls[q].tag = ls[j].tag => q = j
  /\ Valid(ls) # {} =>
       \E m \in Valid(ls) :
         /\ ls[m].last_used = 0
         /\ \A j \in Valid(ls) \ {m} : /\ lu[ls[j].tag] < lu[ls[m].tag]
                                       /\ j < m => ls[j].last_used >= 1

LEMMA OlderLine ==
  ASSUME NEW l \in Line, l.valid = 1
  PROVE  /\ l.last_used \in Nat /\ l.tag \in Tags
         /\ Older(l) \in Line /\ Older(l).valid = 1 /\ Older(l).tag = l.tag
         /\ Older(l).last_used = l.last_used + 1
<1>1. l \in [valid : {1}, last_used : Nat, tag : Tags]
  BY DEF Line, EmptyLine
<1>2. [l EXCEPT !.last_used = l.last_used + 1]
         \in [valid : {1}, last_used : Nat, tag : Tags]
  BY <1>1
<1> QED BY <1>1, <1>2 DEF Line, Older

(* What UsedLine assumes: way q is the one that has tag t or, if none has  *)
(* it, a way behind a prefix of valid ones; the scan aged those before p.  *)
MayUse(ls, lu, now, t, q, p) ==
  /\ ls \in [Ways -> Line] /\ lu \in [Tags -> Nat] /\ now \in Nat
  /\ t \in Tags /\ q \in Ways /\ p \in Int /\ q <= p
  /\ LineSetOK(ls, lu)
  /\ \A u \in Tags : lu[u] <= now
  /\ \A j \in Ways : j < q => j \in Valid(ls)
  /\ \A j \in Valid(ls) : ls[j].tag = t => j = q

(* What it concludes of the lines new and times lu2 after the access.      *)
UseKeeps(ls, new, lu2, now2, t, q) ==
  /\ new \in [Ways -> Line] /\ lu2 \in [Tags -> Nat]
  /\ Valid(new) = Valid(ls) \cup {q}
  /\ q \in Match(new, t)
  /\ LineSetOK(new, lu2)
  /\ \A u \in Tags : lu2[u] <= now2
  /\ new[q].tag = t /\ \A j \in Valid(ls) \ {q} : new[j].tag = ls[j].tag

(* Any access leaves one line q used and ages the valid lines before p.    *)
LEMMA UsedLine ==
  ASSUME NEW ls, NEW lu, NEW now, NEW t, NEW q, NEW p,
         MayUse(ls, lu, now, t, q, p)
  PROVE  UseKeeps(ls, Used(AgedTo(ls, p), q, t), [lu EXCEPT ![t] = now + 1],
                  now + 1, t, q)
<1> DEFINE aged == AgedTo(ls, p)
           new == Used(aged, q, t)
           lu2 == [lu EXCEPT ![t] = now + 1]
<1> USE DEF MayUse
<1>0. Ways \subseteq Int /\ \A j \in Ways : ls[j] \in Line
  BY CsimAssumption DEF Ways
<1>1. \A j \in Valid(ls) :
        /\ j \in Ways /\ ls[j] \in Line /\ ls[j].valid = 1
        /\ ls[j].last_used \in Nat /\ ls[j].tag \in Tags
  BY <1>0, OlderLine DEF Valid
<1>2. \A j \in Ways \ Valid(ls) : aged[j] = ls[j] /\ ls[j] = EmptyLine
  BY <1>0 DEF Valid, Line, EmptyLine, AgedTo
<1>3. \A j \in Valid(ls) :
        /\ aged[j] \in Line /\ aged[j].valid = 1
        /\ aged[j].tag = ls[j].tag
        /\ aged[j].last_used = IF j < p THEN ls[j].last_used + 1
                               ELSE ls[j].last_used
  <2> SUFFICES ASSUME NEW j \in Valid(ls)
               PROVE  /\ aged[j] \in Line /\ aged[j].valid = 1
                      /\ aged[j].tag = ls[j].tag
                      /\ aged[j].last_used = IF j < p THEN ls[j].last_used + 1
                                             ELSE ls[j].last_used
    OBVIOUS
  <2>1. aged[j] = IF j < p THEN Older(ls[j]) ELSE ls[j]
    BY <1>1 DEF AgedTo
  <2> QED BY <1>1, <2>1, OlderLine
<1>4. aged \in [Ways -> Line]
  <2>1. aged = [j \in Ways |-> aged[j]]
    BY DEF AgedTo
  <2>2. \A j \in Ways : aged[j] \in Line
    BY <1>0, <1>2, <1>3
  <2> HIDE DEF aged
  <2> QED BY <2>1, <2>2
<1>a. new = Used(aged, q, t)
  OBVIOUS
<1> HIDE DEF aged
<1>5. new \in [Ways -> Line] /\ new[q] = [valid |-> 1, last_used |-> 0, tag |-> t]
      /\ \A j \in Ways \ {q} : new[j] = aged[j]
  <2>1. [valid |-> 1, last_used |-> 0, tag |-> t] \in Line BY DEF Line
  <2> QED BY <1>4, <1>a, <2>1 DEF Used
<1> HIDE DEF new
<1>6. Valid(new) = Valid(ls) \cup {q}
  BY <1>2, <1>3, <1>5 DEF Valid, EmptyLine
<1>7. q \in Match(new, t)
  BY <1>5, <1>6 DEF Match
<1>8. lu2 \in [Tags -> Nat] /\ lu2[t] = now + 1
      /\ \A u \in Tags \ {t} : lu2[u] = lu[u]
  OBVIOUS
<1> HIDE DEF lu2
<1>9. \A u \in Tags : lu2[u] <= now + 1
  <2>1. \A u \in Tags : lu[u] \in Nat OBVIOUS
  <2> QED BY <1>8, <2>1
<1>10. \A j \in Ways \ {q} : new[j].tag = ls[j].tag
  BY <1>2, <1>3, <1>5
<1>11. ASSUME NEW j \in Valid(new) \ {q}
       PROVE  /\ lu2[new[j].tag] < lu2[new[q].tag]
              /\ j < q => new[j].last_used >= 1
              /\ new[j].tag # t
  <2>1. j \in Valid(ls) /\ j \in Ways /\ new[j] = aged[j] /\ new[j].tag = ls[j].tag
    BY <1>1, <1>5, <1>6, <1>10
  <2>2. ls[j].tag \in Tags \ {t} BY <1>1, <2>1
  <2>3. lu2[ls[j].tag] = lu[ls[j].tag] /\ lu[ls[j].tag] <= now /\ lu[ls[j].tag] \in Nat
    BY <1>8, <2>2
  <2>4. j < q => j < p BY <1>0, <2>1
  <2>5. ASSUME j < q PROVE new[j].last_used >= 1
    <3>1. aged[j].last_used = ls[j].last_used + 1 BY <1>3, <2>1, <2>4, <2>5
    <3>2. ls[j].last_used \in Nat BY <1>1, <2>1
    <3> QED BY <2>1, <3>1, <3>2
  <2> QED BY <1>5, <1>8, <2>1, <2>2, <2>3, <2>5
<1>12. LineSetOK(new, lu2)
  <2>1. \A a, b \in Ways : a \in Valid(new) /\ b < a => b \in Valid(new)
    BY <1>6 DEF LineSetOK
  <2>2. \A a, b \in Valid(new) : new[a].tag = new[b].tag => a = b
    <3> SUFFICES ASSUME NEW a \in Valid(new), NEW b \in Valid(new),
                        new[a].tag = new[b].tag
                 PROVE  a = b
      OBVIOUS
    <3>1. CASE a = q \/ b = q
      BY <3>1, <1>5, <1>11
    <3>2. CASE a # q /\ b # q
      <4>1. a \in Valid(ls) /\ b \in Valid(ls) /\ a \in Ways /\ b \in Ways
        BY <3>2, <1>1, <1>6
      <4> QED BY <4>1, <3>2, <1>10 DEF LineSetOK
    <3> QED BY <3>1, <3>2
  <2>3. q \in Valid(new) /\ new[q].last_used = 0 BY <1>5, <1>6
  <2> QED BY <2>1, <2>2, <2>3, <1>11 DEF LineSetOK
<1>13. UseKeeps(ls, new, lu2, now + 1, t, q)
  BY <1>1, <1>5, <1>6, <1>7, <1>8, <1>9, <1>10, <1>12 DEF UseKeeps
<1> QED BY <1>13 DEF new, aged, lu2

(* The searches of check_cache: the first way of a set of ways, and the    *)
(* last of the oldest lines.                                               *)
LEMMA FirstWayIsFirst ==
  ASSUME NEW S \in SUBSET Ways, S # {}
  PROVE  FirstWay(S) \in S /\ \A j \in S : FirstWay(S) <= j
<1>1. S \in SUBSET Nat
  BY CsimAssumption DEF Ways
<1>2. \E q \in S : \A j \in S : q <= j
  BY <1>1, LeastNat
<1> QED BY <1>2 DEF FirstWay

LEMMA VictimIsLastOldest ==
  ASSUME NEW ls \in [Ways -> Line]
  PROVE  /\ Victim(ls) \in Ways
         /\ \A j \in Ways :
              \/ ls[j].last_used < ls[Victim(ls)].last_used
              \/ ls[j].last_used = ls[Victim(ls)].last_used /\ j <= Victim(ls)
<1> DEFINE age == [q \in Ways |-> ls[q].last_used]
           Oldest == {q \in Ways : \A j \in Ways : age[j] <= age[q]}
           Mirror == {assoc - q : q \in Oldest}
<1>0. assoc \in Nat \ {0} /\ Ways = 1 .. assoc
  BY CsimAssumption DEF Ways
<1>1. \A q \in Ways : age[q] \in Nat /\ age[q] = ls[q].last_used
  BY DEF Line, EmptyLine
<1>2. Oldest # {}
  <2>1. \A q \in 1 .. assoc : age[q] \in Nat
    BY <1>0, <1>1
  <2> HIDE DEF age
  <2> QED BY <1>0, <2>1, LargestOnInterval
<1>3. \E q \in Oldest : \A j \in Oldest : j <= q
  <2>1. Mirror \in SUBSET Nat /\ Mirror # {}
    <3>1. Oldest \subseteq 1 .. assoc BY <1>0
    <3>2. \A q \in 1 .. assoc : assoc - q \in Nat BY <1>0
    <3> HIDE DEF Oldest
    <3>3. \A n \in Mirror : n \in Nat
      <4> SUFFICES ASSUME NEW q \in Oldest PROVE assoc - q \in Nat
        OBVIOUS
      <4> QED BY <3>1, <3>2
    <3>4. PICK q \in Oldest : TRUE BY <1>2
    <3>5. assoc - q \in Mirror OBVIOUS
    <3> HIDE DEF Mirror
    <3> QED BY <3>3, <3>5
  <2>2. PICK n \in Mirror : \A m \in Mirror : n <= m
    <3> HIDE DEF Mirror
    <3> QED BY <2>1, LeastNat
  <2>3. PICK q \in Oldest : n = assoc - q
    OBVIOUS
  <2>4. \A j \in Oldest : n <= assoc - j
    BY <2>2
  <2>5. Oldest \subseteq Int BY <1>0
  <2> HIDE DEF Oldest
  <2> QED BY <1>0, <2>3, <2>4, <2>5
<1>4. PICK q \in Oldest : \A j \in Oldest : j <= q
  BY <1>3
<1>5. \A j \in Ways : \/ ls[j].last_used < ls[q].last_used
                      \/ ls[j].last_used = ls[q].last_used /\ j <= q
  <2> SUFFICES ASSUME NEW j \in Ways
               PROVE  \/ ls[j].last_used < ls[q].last_used
                      \/ ls[j].last_used = ls[q].last_used /\ j <= q
    OBVIOUS
  <2>1. age[j] <= age[q] /\ q \in Ways
    OBVIOUS
  <2>2. age[j] = age[q] => j \in Oldest
    BY <2>1
  <2> HIDE DEF age, Oldest
  <2> QED BY <1>1, <1>4, <2>1, <2>2
<1> QED BY <1>5 DEF Victim

LEMMA AgedType ==
  ASSUME NEW ls \in [Ways -> Line]
  PROVE  Aged(ls) \in [Ways -> Line]
<1>1. ASSUME NEW j \in Ways PROVE Aged(ls)[j] \in Line
  <2>1. Aged(ls)[j] \in {ls[j], Older(ls[j])}
        /\ (Aged(ls)[j] = Older(ls[j]) => ls[j].valid = 1 \/ Aged(ls)[j] = ls[j])
    BY DEF Aged, AgedTo, Valid
  <2> QED BY <2>1, OlderLine
<1>2. Aged(ls) = [j \in Ways |-> Aged(ls)[j]]
  BY DEF Aged, AgedTo
<1> QED BY <1>1, <1>2

(* With two lines or more the victim is never the line used last.          *)
LEMMA VictimIsNotMostRecent ==
  ASSUME NEW ls \in [Ways -> Line], NEW lu, LineSetOK(ls, lu),
         Valid(ls) = Ways, assoc >= 2
  PROVE  \E m \in Ways \ {Victim(Aged(ls))} :
           \A j \in Ways \ {m} : lu[ls[j].tag] < lu[ls[m].tag]
<1> DEFINE v == Victim(Aged(ls))
<1>0. Ways = 1 .. assoc /\ assoc \in Nat
  BY CsimAssumption DEF Ways
<1>1. PICK m \in Ways :
        /\ ls[m].last_used = 0
        /\ \A j \in Ways \ {m} : /\ lu[ls[j].tag] < lu[ls[m].tag]
                                 /\ j < m => ls[j].last_used >= 1
  BY <1>0 DEF LineSetOK
<1>2. \A j \in Ways : /\ ls[j].last_used \in Nat
                      /\ Aged(ls)[j].last_used = ls[j].last_used + 1
  <2> SUFFICES ASSUME NEW j \in Ways
               PROVE  /\ ls[j].last_used \in Nat
                      /\ Aged(ls)[j].last_used = ls[j].last_used + 1
    OBVIOUS
  <2>1. ls[j] \in Line /\ ls[j].valid = 1 /\ j < assoc + 1
    BY <1>0 DEF Valid
  <2>2. Aged(ls)[j] = Older(ls[j])
    BY <2>1 DEF Aged, AgedTo
  <2> QED BY <2>1, <2>2, OlderLine
<1>3. Aged(ls) \in [Ways -> Line]
  BY AgedType
<1>4. /\ v \in Ways
      /\ \A j \in Ways : \/ ls[j].last_used + 1 < ls[v].last_used + 1
                         \/ ls[j].last_used + 1 = ls[v].last_used + 1 /\ j <= v
  <2> HIDE DEF v
  <2>1. /\ v \in Ways
        /\ \A j \in Ways :
             \/ Aged(ls)[j].last_used < Aged(ls)[v].last_used
             \/ Aged(ls)[j].last_used = Aged(ls)[v].last_used /\ j <= v
    BY <1>3, VictimIsLastOldest DEF v
  <2> QED BY <1>2, <2>1
<1> HIDE DEF v
<1>5. v # m
  <2> SUFFICES ASSUME v = m PROVE FALSE
    OBVIOUS
  <2>1. CASE m = 1
    <3>1. 2 \in Ways /\ 2 # m BY <1>0, <2>1
    <3> QED BY <1>1, <1>2, <1>4, <2>1, <3>1
  <2>2. CASE m # 1
    <3>1. 1 \in Ways /\ 1 # m /\ 1 < m BY <1>0, <2>2
    <3>2. ls[1].last_used >= 1 /\ ls[1].last_used \in Nat BY <1>1, <1>2, <3>1
    <3> QED BY <1>1, <1>4, <3>1, <3>2
  <2> QED BY <2>1, <2>2
<1> QED BY <1>1, <1>5 DEF v

----------------------------------------------------------------------------
(* The steps.                                                              *)

(* The index of an address of the trace is the index of a set.             *)
LEMMA IndexAndTag ==
  ASSUME NEW addr \in Addrs
  PROVE  SetIndex(addr) \in Sets /\ Tag(addr) \in Tags /\ addr # -1
<1>1. addr \in Nat
  BY CsimAssumption
<1>2. addr \div 2^block_bits \in Int
  BY <1>1, PowersAssumption
<1>3. set_amount \in Nat \ {0}
  BY PowersAssumption
<1>4. \A a \in Int, c \in Nat \ {0} : a % c \in 0 .. c - 1
  BY SMT
<1>5. SetIndex(addr) \in Sets
  BY <1>2, <1>3, <1>4 DEF SetIndex, Sets
<1> QED BY <1>1, <1>5 DEF Tags

(* An access to tag t of set s, with the lines of s before and after.      *)
LEMMA AccessStep ==
  ASSUME IInv, NEW s \in Sets, NEW t \in Tags, check_cache(s, t)
  PROVE  /\ lines' \in [Sets -> [Ways -> Line]]
         /\ lastUse' \in [Sets -> [Tags -> Nat]]
         /\ hits' \in Nat /\ misses' \in Nat /\ evictions' \in Nat
         /\ hits' + misses' = hits + misses + 1
         /\ \A r \in Sets \ {s} : lines'[r] = lines[r] /\ lastUse'[r] = lastUse[r]
         /\ LineSetOK(lines'[s], lastUse'[s])
         /\ \A u \in Tags : lastUse'[s][u] <= hits' + misses'
         /\ Match(lines'[s], t) # {}
         /\ misses' - evictions' =
              Cardinality({si \in Sets \X Ways : si[2] \in Valid(lines'[si[1]])})
<1> DEFINE ls == lines[s]
           lu == lastUse[s]
           now == hits + misses
           Full == {si \in Sets \X Ways : si[2] \in Valid(lines[si[1]])}
<1>1. /\ ls \in [Ways -> Line] /\ lu \in [Tags -> Nat] /\ now \in Nat
      /\ LineSetOK(ls, lu) /\ \A u \in Tags : lu[u] <= now
  <2>1. lines \in [Sets -> [Ways -> Line]] /\ lastUse \in [Sets -> [Tags -> Nat]]
        /\ hits \in Nat /\ misses \in Nat
    BY DEF IInv, TypeOK
  <2>2. LineSetOK(ls, lu)
    BY DEF IInv, LinesAreASet, MostRecentIsYoung, LineSetOK, Valid
  <2>3. \A u \in Tags : lu[u] <= now
    BY DEF IInv, ClockIsAhead
  <2> QED BY <2>1, <2>2, <2>3
<1>2. Ways = 1 .. assoc /\ assoc \in Nat \ {0}
  BY CsimAssumption DEF Ways
<1>3. lastUse' = [lastUse EXCEPT ![s] = [lu EXCEPT ![t] = now + 1]]
  BY DEF check_cache
<1>4. IsFiniteSet(Full) /\ misses - evictions = Cardinality(Full)
  <2>1. IsFiniteSet(Sets) /\ IsFiniteSet(Ways)
    BY <1>2, PowersAssumption, FS_Interval DEF Sets
  <2>2. IsFiniteSet(Sets \X Ways) BY <2>1, FS_Product
  <2>3. IsFiniteSet(Full) BY <2>2, FS_Subset
  <2> QED BY <2>3 DEF IInv, MissesAccountForLines
<1> HIDE DEF Full
<1>5. ASSUME NEW q \in Ways, NEW p \in Int,
             lines' = [lines EXCEPT ![s] = Used(AgedTo(ls, p), q, t)],
             \A j \in Ways : j < q => j \in Valid(ls),
             \A j \in Valid(ls) : ls[j].tag = t => j = q,
             q <= p
      PROVE  /\ lines' \in [Sets -> [Ways -> Line]]
             /\ lastUse' \in [Sets -> [Tags -> Nat]]
             /\ \A r \in Sets \ {s} : lines'[r] = lines[r] /\ lastUse'[r] = lastUse[r]
             /\ LineSetOK(lines'[s], lastUse'[s])
             /\ \A u \in Tags : lastUse'[s][u] <= now + 1
             /\ Match(lines'[s], t) # {}
             /\ {si \in Sets \X Ways : si[2] \in Valid(lines'[si[1]])}
                  = Full \cup {<<s, q>>}
  <2> DEFINE new == Used(AgedTo(ls, p), q, t)
             lu2 == [lu EXCEPT ![t] = now + 1]
  <2> HIDE DEF ls, lu, now
  <2>1. /\ new \in [Ways -> Line]
        /\ Valid(new) = Valid(ls) \cup {q}
        /\ q \in Match(new, t)
        /\ LineSetOK(new, lu2)
        /\ lu2 \in [Tags -> Nat]
        /\ \A u \in Tags : lu2[u] <= now + 1
    <3>1. MayUse(ls, lu, now, t, q, p)
      BY <1>1, <1>5 DEF MayUse
    <3>2. UseKeeps(ls, new, lu2, now + 1, t, q)
      BY ONLY <3>1, UsedLine DEF new, lu2
    <3> HIDE DEF new, lu2
    <3> QED BY <3>2 DEF UseKeeps
  <2> HIDE DEF new, lu2
  <2>2. lines \in [Sets -> [Ways -> Line]] /\ lastUse \in [Sets -> [Tags -> Nat]]
    BY DEF IInv, TypeOK
  <2>3. lines' = [lines EXCEPT ![s] = new] /\ lastUse' = [lastUse EXCEPT ![s] = lu2]
    BY <1>3, <1>5 DEF new, lu2
  <2>4. /\ lines'[s] = new /\ lastUse'[s] = lu2
        /\ \A r \in Sets \ {s} : lines'[r] = lines[r] /\ lastUse'[r] = lastUse[r]
        /\ lines' \in [Sets -> [Ways -> Line]] /\ lastUse' \in [Sets -> [Tags -> Nat]]
    BY <2>1, <2>2, <2>3
  <2>5. {si \in Sets \X Ways : si[2] \in Valid(lines'[si[1]])} = Full \cup {<<s, q>>}
    <3>1. \A si \in Sets \X Ways : si[1] \in Sets /\ si[2] \in Ways
                                   /\ si = <<si[1], si[2]>>
      OBVIOUS
    <3>2. \A si \in Sets \X Ways :
            si[2] \in Valid(lines'[si[1]])
              <=> si[2] \in Valid(lines[si[1]]) \/ si = <<s, q>>
      <4> SUFFICES ASSUME NEW r \in Sets, NEW w \in Ways
                   PROVE  w \in Valid(lines'[r])
                            <=> w \in Valid(lines[r]) \/ <<r, w>> = <<s, q>>
        BY <3>1
      <4>1. CASE r = s
        BY <4>1, <2>1, <2>4 DEF ls
      <4>2. CASE r # s
        BY <4>2, <2>4
      <4> QED BY <4>1, <4>2
    <3>3. <<s, q>> \in Sets \X Ways
      OBVIOUS
    <3> QED BY <3>2, <3>3 DEF Full
  <2>6. LineSetOK(lines'[s], lastUse'[s])
    BY <2>1, <2>4, Zenon
  <2>7. \A u \in Tags : lastUse'[s][u] <= now + 1
    BY <2>1, <2>4
  <2>8. Match(lines'[s], t) # {}
    <3>1. Match(new, t) # {} BY <2>1
    <3> QED BY <2>4, <3>1, Zenon
  <2> QED BY <2>4, <2>5, <2>6, <2>7, <2>8
<1>6. CASE Hit(s, t)
  <2> DEFINE q == FirstWay(Match(ls, t))
  <2>1. q \in Valid(ls) /\ q \in Ways /\ q \in Int /\ ls[q].tag = t
    <3>1. Match(ls, t) \in SUBSET Ways /\ Match(ls, t) # {}
      BY <1>6 DEF Hit, Match, Valid
    <3>2. q \in Match(ls, t)
      BY <3>1, FirstWayIsFirst
    <3> HIDE DEF q
    <3> QED BY <1>2, <3>1, <3>2 DEF Match
  <2>2. lines' = [lines EXCEPT ![s] = Used(AgedTo(ls, q), q, t)]
        /\ hits' = hits + 1 /\ misses' = misses /\ evictions' = evictions
    BY <1>6 DEF Hit
  <2> HIDE DEF q
  <2>3. \A j \in Ways : j < q => j \in Valid(ls)
    BY <1>1, <2>1 DEF LineSetOK
  <2>4. \A j \in Valid(ls) : ls[j].tag = t => j = q
    BY <1>1, <2>1 DEF LineSetOK
  <2>5. Full \cup {<<s, q>>} = Full
    BY <2>1 DEF Full
  <2>6. hits \in Nat /\ misses \in Nat /\ evictions \in Nat
    BY DEF IInv, TypeOK
  <2>7. q <= q
    BY <2>1
  <2>8. /\ lines' \in [Sets -> [Ways -> Line]]
        /\ lastUse' \in [Sets -> [Tags -> Nat]]
        /\ \A r \in Sets \ {s} : lines'[r] = lines[r] /\ lastUse'[r] = lastUse[r]
        /\ LineSetOK(lines'[s], lastUse'[s])
        /\ \A u \in Tags : lastUse'[s][u] <= now + 1
        /\ Match(lines'[s], t) # {}
        /\ {si \in Sets \X Ways : si[2] \in Valid(lines'[si[1]])}
             = Full \cup {<<s, q>>}
    <3> HIDE DEF ls, lu, now
    <3> QED BY <1>5, <2>1, <2>2, <2>3, <2>4, <2>7
  <2>9. hits' + misses' = now + 1 /\ hits' + misses' = hits + misses + 1
    BY <2>2, <2>6
  <2>10. misses' - evictions' = Cardinality(Full \cup {<<s, q>>})
    BY <1>4, <2>2, <2>5
  <2>11. hits' \in Nat /\ misses' \in Nat /\ evictions' \in Nat
    BY <2>2, <2>6
  <2> HIDE DEF ls, lu, now
  <2>12. \A u \in Tags : lastUse'[s][u] <= hits' + misses'
    BY <2>8, <2>9
  <2> QED BY <2>8, <2>9, <2>10, <2>11, <2>12
<1>7. CASE Fill(s, t)
  <2> DEFINE q == FirstWay(Ways \ Valid(ls))
  <2>1. q \in Ways \ Valid(ls) /\ \A j \in Ways \ Valid(ls) : q <= j
    BY <1>7, FirstWayIsFirst DEF Fill, Valid
  <2>2. lines' = [lines EXCEPT ![s] = Used(AgedTo(ls, assoc + 1), q, t)]
        /\ hits' = hits /\ misses' = misses + 1 /\ evictions' = evictions
    BY <1>7 DEF Fill, Aged
  <2> HIDE DEF q
  <2>3. \A j \in Ways : j < q => j \in Valid(ls)
    BY <1>2, <2>1
  <2>4. \A j \in Valid(ls) : ls[j].tag = t => j = q
    BY <1>7 DEF Fill, Match
  <2>5. <<s, q>> \notin Full
    BY <2>1 DEF Full
  <2>6. hits \in Nat /\ misses \in Nat /\ evictions \in Nat
    BY DEF IInv, TypeOK
  <2>7. q <= assoc + 1 /\ assoc + 1 \in Int
    BY <1>2, <2>1
  <2>8. /\ lines' \in [Sets -> [Ways -> Line]]
        /\ lastUse' \in [Sets -> [Tags -> Nat]]
        /\ \A r \in Sets \ {s} : lines'[r] = lines[r] /\ lastUse'[r] = lastUse[r]
        /\ LineSetOK(lines'[s], lastUse'[s])
        /\ \A u \in Tags : lastUse'[s][u] <= now + 1
        /\ Match(lines'[s], t) # {}
        /\ {si \in Sets \X Ways : si[2] \in Valid(lines'[si[1]])}
             = Full \cup {<<s, q>>}
    <3> HIDE DEF ls, lu, now
    <3> QED BY <1>5, <2>1, <2>2, <2>3, <2>4, <2>7
  <2>9. hits' + misses' = now + 1 /\ hits' + misses' = hits + misses + 1
    BY <2>2, <2>6
  <2>10. Cardinality(Full \cup {<<s, q>>}) = Cardinality(Full) + 1
    BY <1>4, <2>5, FS_AddElement
  <2>11. Cardinality(Full) + 1 = misses' - evictions'
    BY <1>4, <2>2, <2>6
  <2>12. hits' \in Nat /\ misses' \in Nat /\ evictions' \in Nat
    BY <2>2, <2>6
  <2> HIDE DEF ls, lu, now
  <2>13. \A u \in Tags : lastUse'[s][u] <= hits' + misses'
    BY <2>8, <2>9
  <2> QED BY <2>8, <2>9, <2>10, <2>11, <2>12, <2>13
<1>8. CASE Evict(s, t)
  <2> DEFINE q == Victim(Aged(ls))
  <2>1. Aged(ls) \in [Ways -> Line]
    BY <1>1, AgedType
  <2>2. q \in Ways
    BY <2>1, VictimIsLastOldest
  <2>3. lines' = [lines EXCEPT ![s] = Used(AgedTo(ls, assoc + 1), q, t)]
        /\ hits' = hits /\ misses' = misses + 1 /\ evictions' = evictions + 1
        /\ Valid(ls) = Ways
    BY <1>8 DEF Evict, Aged
  <2> HIDE DEF q
  <2>4. \A j \in Valid(ls) : ls[j].tag = t => j = q
    BY <1>8 DEF Evict, Match
  <2>5. Full \cup {<<s, q>>} = Full
    BY <2>2, <2>3 DEF Full
  <2>6. hits \in Nat /\ misses \in Nat /\ evictions \in Nat
    BY DEF IInv, TypeOK
  <2>7. q <= assoc + 1 /\ assoc + 1 \in Int
    BY <1>2, <2>2
  <2>8. /\ lines' \in [Sets -> [Ways -> Line]]
        /\ lastUse' \in [Sets -> [Tags -> Nat]]
        /\ \A r \in Sets \ {s} : lines'[r] = lines[r] /\ lastUse'[r] = lastUse[r]
        /\ LineSetOK(lines'[s], lastUse'[s])
        /\ \A u \in Tags : lastUse'[s][u] <= now + 1
        /\ Match(lines'[s], t) # {}
        /\ {si \in Sets \X Ways : si[2] \in Valid(lines'[si[1]])}
             = Full \cup {<<s, q>>}
    <3> HIDE DEF ls, lu, now
    <3> QED BY <1>5, <2>2, <2>3, <2>4, <2>7
  <2>9. hits' + misses' = now + 1 /\ hits' + misses' = hits + misses + 1
    BY <2>3, <2>6
  <2>10. Cardinality(Full) = misses' - evictions'
    BY <1>4, <2>3, <2>6
  <2>11. hits' \in Nat /\ misses' \in Nat /\ evictions' \in Nat
    BY <2>3, <2>6
  <2> HIDE DEF ls, lu, now
  <2>12. \A u \in Tags : lastUse'[s][u] <= hits' + misses'
    BY <2>8, <2>9
  <2> QED BY <2>5, <2>8, <2>9, <2>10, <2>11, <2>12
<1> QED BY <1>6, <1>7, <1>8 DEF check_cache

(* So an access keeps everything that the invariant says of the cache.     *)
LEMMA AccessKeeps ==
  ASSUME IInv, NEW addr \in Addrs, Access(addr)
  PROVE  /\ lines' \in [Sets -> [Ways -> Line]]
         /\ lastUse' \in [Sets -> [Tags -> Nat]]
         /\ hits' \in Nat /\ misses' \in Nat /\ evictions' \in Nat
         /\ LinesAreASet' /\ ClockIsAhead' /\ MostRecentIsYoung'
         /\ MissesAccountForLines'
         /\ Match(lines'[SetIndex(addr)], Tag(addr)) # {}
<1> DEFINE s == SetIndex(addr)
           t == Tag(addr)
<1>1. s \in Sets /\ t \in Tags
  BY IndexAndTag
<1>2. check_cache(s, t)
  BY DEF Access
<1> HIDE DEF s, t
<1>3. /\ lines' \in [Sets -> [Ways -> Line]]
      /\ lastUse' \in [Sets -> [Tags -> Nat]]
      /\ hits' \in Nat /\ misses' \in Nat /\ evictions' \in Nat
      /\ hits' + misses' = hits + misses + 1
      /\ \A r \in Sets \ {s} : lines'[r] = lines[r] /\ lastUse'[r] = lastUse[r]
      /\ LineSetOK(lines'[s], lastUse'[s])
      /\ \A u \in Tags : lastUse'[s][u] <= hits' + misses'
      /\ Match(lines'[s], t) # {}
      /\ misses' - evictions' =
           Cardinality({si \in Sets \X Ways : si[2] \in Valid(lines'[si[1]])})
  BY <1>1, <1>2, AccessStep
<1>4. \A r \in Sets : LineSetOK(lines'[r], lastUse'[r])
  <2> SUFFICES ASSUME NEW r \in Sets, r # s PROVE LineSetOK(lines'[r], lastUse'[r])
    BY <1>3
  <2>1. LineSetOK(lines[r], lastUse[r])
    BY DEF IInv, LinesAreASet, MostRecentIsYoung, LineSetOK, Valid
  <2>2. lines'[r] = lines[r] /\ lastUse'[r] = lastUse[r]
    BY <1>3
  <2> QED BY <2>1, <2>2, Zenon
<1>5. LinesAreASet'
  <2> SUFFICES ASSUME NEW r \in Sets, NEW q \in Ways, NEW j \in Ways
               PROVE  /\ q \in Valid(lines'[r]) /\ j < q => j \in Valid(lines'[r])
                      /\ {q, j} \subseteq Valid(lines'[r])
                           /\ lines'[r][q].tag = lines'[r][j].tag => q = j
    BY DEF LinesAreASet
  <2> QED BY <1>4 DEF LineSetOK
<1>6. MostRecentIsYoung'
  <2> SUFFICES ASSUME NEW r \in Sets, Valid(lines'[r]) # {}
               PROVE  \E m \in Valid(lines'[r]) :
                        /\ lines'[r][m].last_used = 0
                        /\ \A j \in Valid(lines'[r]) \ {m} :
                             /\ lastUse'[r][lines'[r][j].tag]
                                  < lastUse'[r][lines'[r][m].tag]
                             /\ j < m => lines'[r][j].last_used >= 1
    BY DEF MostRecentIsYoung
  <2> QED BY <1>4 DEF LineSetOK
<1>7. ClockIsAhead'
  <2> SUFFICES ASSUME NEW r \in Sets, NEW u \in Tags
               PROVE  lastUse'[r][u] <= hits' + misses'
    BY DEF ClockIsAhead
  <2>1. CASE r = s
    BY <1>3, <2>1
  <2>2. CASE r # s
    <3>1. lastUse'[r] = lastUse[r] BY <1>3, <2>2
    <3>2. lastUse[r][u] <= hits + misses BY DEF IInv, ClockIsAhead
    <3>3. hits \in Nat /\ misses \in Nat /\ lastUse[r][u] \in Nat
      BY DEF IInv, TypeOK
    <3>4. hits' + misses' = hits + misses + 1 BY <1>3
    <3> QED BY <3>1, <3>2, <3>3, <3>4
  <2> QED BY <2>1, <2>2
<1>8. MissesAccountForLines'
  BY <1>3 DEF MissesAccountForLines
<1> QED BY <1>3, <1>5, <1>6, <1>7, <1>8 DEF s, t

LEMMA InitIInv == Init => IInv
<1> SUFFICES ASSUME Init PROVE IInv
  OBVIOUS
<1> USE DEF Init
<1>1. EmptyLine \in Line /\ EmptyLine.valid = 0
  BY DEF Line, EmptyLine
<1>2. TypeOK
  BY <1>1 DEF TypeOK
<1>3. \A s \in Sets : Valid(lines[s]) = {}
  BY <1>1 DEF Valid
<1>4. LinesAreASet /\ MostRecentIsYoung /\ AgainIsCached
  BY <1>3 DEF LinesAreASet, MostRecentIsYoung, AgainIsCached
<1>5. ClockIsAhead
  BY DEF ClockIsAhead
<1>6. MissesAccountForLines
  <2>1. {si \in Sets \X Ways : si[2] \in Valid(lines[si[1]])} = {}
    BY <1>3
  <2>2. Cardinality({}) = 0
    BY FS_EmptySet
  <2> QED BY <2>1, <2>2 DEF MissesAccountForLines
<1> QED BY <1>2, <1>4, <1>5, <1>6 DEF IInv

LEMMA NextIInv == IInv /\ [Next]_vars => IInv'
<1> SUFFICES ASSUME IInv, [Next]_vars PROVE IInv'
  OBVIOUS
<1>1. ASSUME NEW addr \in Addrs, LoadStore(addr) PROVE IInv'
  <2>1. Access(addr) /\ again = -1 /\ again' = again /\ state' = state
    BY <1>1 DEF LoadStore, Replaying
  <2>2. TypeOK'
    BY <2>1, AccessKeeps DEF IInv, TypeOK
  <2>3. AgainIsCached'
    BY <2>1 DEF AgainIsCached
  <2> QED BY <2>1, <2>2, <2>3, AccessKeeps DEF IInv
<1>2. ASSUME NEW addr \in Addrs, ModifyLoad(addr) PROVE IInv'
  <2>1. Access(addr) /\ again' = addr /\ state' = state
    BY <1>2 DEF ModifyLoad, Replaying
  <2>2. TypeOK'
    BY <2>1, AccessKeeps DEF IInv, TypeOK
  <2>3. AgainIsCached'
    BY <2>1, AccessKeeps DEF AgainIsCached
  <2> QED BY <2>1, <2>2, <2>3, AccessKeeps DEF IInv
<1>3. ASSUME NEW addr \in Addrs, ModifyStore(addr) PROVE IInv'
  <2>1. Access(addr) /\ again' = -1 /\ state' = state
    BY <1>3 DEF ModifyStore
  <2>2. TypeOK'
    BY <2>1, AccessKeeps DEF IInv, TypeOK
  <2>3. AgainIsCached'
    BY <2>1 DEF AgainIsCached
  <2> QED BY <2>1, <2>2, <2>3, AccessKeeps DEF IInv
<1>4. CASE Finish
  <2>1. UNCHANGED <<lines, counters, again, lastUse>> /\ state' \in {"summary", "error"}
    BY <1>4 DEF Finish
  <2>2. TypeOK'
    BY <2>1 DEF IInv, TypeOK, counters
  <2>3. LinesAreASet' /\ ClockIsAhead' /\ MostRecentIsYoung' /\ AgainIsCached'
        /\ MissesAccountForLines'
    BY <2>1 DEF IInv, LinesAreASet, ClockIsAhead, MostRecentIsYoung, AgainIsCached,
                MissesAccountForLines, Valid, Match, counters
  <2> QED BY <2>2, <2>3 DEF IInv
<1>5. CASE UNCHANGED vars
  <2>1. UNCHANGED <<lines, hits, misses, evictions, again, state, lastUse>>
    BY <1>5 DEF vars, counters
  <2> QED BY <2>1 DEF IInv, TypeOK, LinesAreASet, ClockIsAhead, MostRecentIsYoung,
                      AgainIsCached, MissesAccountForLines, Valid, Match
<1> QED BY <1>1, <1>2, <1>3, <1>4, <1>5 DEF Next, Finished

(* The simulator keeps the inductive invariant, on every trace.            *)
THEOREM Invariance == Spec => []IInv
BY InitIInv, NextIInv, PTL DEF Spec

(* In every set the valid lines are a prefix and store different tags: a   *)
(* miss with free > 0 finds a free line and no tag is stored twice.        *)
THEOREM LinesAreSets == Spec => []LinesAreASet
<1>1. IInv => LinesAreASet
  BY DEF IInv
<1> QED BY <1>1, Invariance, PTL

(* The counters that main prints account for the content of the cache.     *)
THEOREM MissesAccount == Spec => []MissesAccountForLines
<1>1. IInv => MissesAccountForLines
  BY DEF IInv
<1> QED BY <1>1, Invariance, PTL

(* The store part of an M line (csim.c:131) hits, whatever was evicted to  *)
(* make room for its load part.                                            *)
THEOREM StoresHit == Spec => StorePartHits
<1> DEFINE A == \A addr \in Addrs : again = addr /\ again' = -1 => hits' = hits + 1
<1>1. IInv /\ [Next]_vars => A
  <2> SUFFICES ASSUME IInv, [Next]_vars,
                      NEW addr \in Addrs, again = addr, again' = -1
               PROVE  hits' = hits + 1
    OBVIOUS
  <2>1. addr # -1 BY IndexAndTag
  <2>2. ModifyStore(addr)
    BY <2>1 DEF Next, vars, LoadStore, ModifyLoad, ModifyStore, Finish, Finished,
                Replaying
  <2>3. Match(lines[SetIndex(addr)], Tag(addr)) # {}
    BY <2>1 DEF IInv, AgainIsCached
  <2> QED BY <2>2, <2>3 DEF ModifyStore, Access, check_cache, Hit, Fill, Evict
<1> QED BY <1>1, Invariance, PTL DEF Spec, StorePartHits

----------------------------------------------------------------------------
(* What an access does to the content of a set, and the LRU order.         *)

LEMMA TagsAfterUse ==
  ASSUME NEW ls, NEW lu, NEW now, NEW t, NEW q, NEW p,
         MayUse(ls, lu, now, t, q, p),
         NEW new, new = Used(AgedTo(ls, p), q, t)
  PROVE  {new[j].tag : j \in Valid(new)} =
           {ls[j].tag : j \in Valid(ls) \ {q}} \cup {t}
<1>1. UseKeeps(ls, Used(AgedTo(ls, p), q, t), [lu EXCEPT ![t] = now + 1],
               now + 1, t, q)
  BY UsedLine
<1>2. Valid(new) = Valid(ls) \cup {q} /\ new[q].tag = t
      /\ \A j \in Valid(ls) \ {q} : new[j].tag = ls[j].tag
  BY <1>1 DEF UseKeeps
<1> QED BY <1>2

LEMMA ContentStep ==
  ASSUME IInv, NEW s \in Sets, NEW t \in Tags, check_cache(s, t)
  PROVE  /\ content' \in [Sets -> SUBSET Tags] /\ content \in [Sets -> SUBSET Tags]
         /\ \A r \in Sets \ {s} : content'[r] = content[r]
         /\ Hit(s, t) => t \in content[s] /\ content'[s] = content[s]
         /\ Fill(s, t) => t \notin content[s] /\ content'[s] = content[s] \cup {t}
         /\ Evict(s, t) =>
              /\ t \notin content[s]
              /\ content'[s] =
                   (content[s] \ {lines[s][Victim(Aged(lines[s]))].tag}) \cup {t}
<1> DEFINE ls == lines[s]
           lu == lastUse[s]
           now == hits + misses
<1>1. /\ ls \in [Ways -> Line] /\ lu \in [Tags -> Nat] /\ now \in Nat
      /\ LineSetOK(ls, lu) /\ \A u \in Tags : lu[u] <= now
  <2>1. LineSetOK(ls, lu)
    BY DEF IInv, LinesAreASet, MostRecentIsYoung, LineSetOK, Valid
  <2> QED BY <2>1 DEF IInv, TypeOK, ClockIsAhead
<1>2. Ways = 1 .. assoc /\ assoc \in Nat \ {0}
  BY CsimAssumption DEF Ways
<1>3. /\ lines \in [Sets -> [Ways -> Line]] /\ lines' \in [Sets -> [Ways -> Line]]
      /\ \A r \in Sets \ {s} : lines'[r] = lines[r]
  BY AccessStep DEF IInv, TypeOK
<1>4. ASSUME NEW L \in [Sets -> [Ways -> Line]], NEW r \in Sets
      PROVE  {L[r][q].tag : q \in Valid(L[r])} \in SUBSET Tags
  <2> SUFFICES ASSUME NEW q \in Valid(L[r]) PROVE L[r][q].tag \in Tags
    OBVIOUS
  <2>1. L[r][q] \in Line /\ L[r][q].valid = 1
    BY DEF Valid
  <2> QED BY <2>1, OlderLine
<1>5. content \in [Sets -> SUBSET Tags] /\ content' \in [Sets -> SUBSET Tags]
  BY <1>3, <1>4 DEF content
<1>6. /\ content[s] = {ls[q].tag : q \in Valid(ls)}
      /\ content'[s] = {lines'[s][q].tag : q \in Valid(lines'[s])}
  BY DEF content
<1>7. \A r \in Sets \ {s} : content'[r] = content[r]
  BY <1>3 DEF content
<1>8. t \in content[s] <=> Match(ls, t) # {}
  BY <1>6 DEF Match
<1>9. ASSUME Hit(s, t) PROVE content'[s] = content[s] /\ t \in content[s]
  <2> DEFINE q == FirstWay(Match(ls, t))
  <2>1. Match(ls, t) \in SUBSET Ways /\ Match(ls, t) # {}
    BY <1>9 DEF Hit, Match, Valid
  <2>2. q \in Valid(ls) /\ q \in Ways /\ q \in Int /\ ls[q].tag = t
    <3>1. q \in Match(ls, t) BY <2>1, FirstWayIsFirst
    <3> HIDE DEF q
    <3> QED BY <1>2, <2>1, <3>1 DEF Match
  <2>3. lines'[s] = Used(AgedTo(ls, q), q, t)
    BY <1>3, <1>9 DEF Hit
  <2> HIDE DEF q
  <2>4. MayUse(ls, lu, now, t, q, q)
    BY <1>1, <2>2 DEF MayUse, LineSetOK
  <2>5. content'[s] = {ls[j].tag : j \in Valid(ls) \ {q}} \cup {t}
    <3> HIDE DEF ls, lu, now
    <3> QED BY <1>6, <2>3, <2>4, TagsAfterUse
  <2> QED BY <1>6, <1>8, <2>1, <2>2, <2>5
<1>10. ASSUME Fill(s, t)
       PROVE  t \notin content[s] /\ content'[s] = content[s] \cup {t}
  <2> DEFINE q == FirstWay(Ways \ Valid(ls))
  <2>1. q \in Ways \ Valid(ls) /\ \A j \in Ways \ Valid(ls) : q <= j
    BY <1>10, FirstWayIsFirst DEF Fill, Valid
  <2>2. lines'[s] = Used(AgedTo(ls, assoc + 1), q, t) /\ Match(ls, t) = {}
    BY <1>3, <1>10 DEF Fill, Aged
  <2> HIDE DEF q
  <2>3. q <= assoc + 1 /\ assoc + 1 \in Int /\ \A j \in Ways : j < q => j \in Valid(ls)
    BY <1>2, <2>1
  <2>4. MayUse(ls, lu, now, t, q, assoc + 1)
    BY <1>1, <2>1, <2>2, <2>3 DEF MayUse, Match
  <2>5. content'[s] = {ls[j].tag : j \in Valid(ls) \ {q}} \cup {t}
    <3> HIDE DEF ls, lu, now
    <3> QED BY <1>6, <2>2, <2>4, TagsAfterUse
  <2> QED BY <1>6, <1>8, <2>1, <2>2, <2>5
<1>11. ASSUME Evict(s, t)
       PROVE  /\ t \notin content[s]
              /\ content'[s] = (content[s] \ {ls[Victim(Aged(ls))].tag}) \cup {t}
  <2> DEFINE q == Victim(Aged(ls))
  <2>1. Aged(ls) \in [Ways -> Line]
    BY <1>1, AgedType
  <2>2. q \in Ways
    BY <2>1, VictimIsLastOldest
  <2>3. lines'[s] = Used(AgedTo(ls, assoc + 1), q, t) /\ Match(ls, t) = {}
        /\ Valid(ls) = Ways
    BY <1>3, <1>11 DEF Evict, Aged
  <2> HIDE DEF q
  <2>4. q <= assoc + 1 /\ assoc + 1 \in Int
    BY <1>2, <2>2
  <2>5. MayUse(ls, lu, now, t, q, assoc + 1)
    BY <1>1, <2>2, <2>3, <2>4 DEF MayUse, Match
  <2>6. content'[s] = {ls[j].tag : j \in Ways \ {q}} \cup {t}
    <3> HIDE DEF ls, lu, now
    <3> QED BY <1>6, <2>3, <2>5, TagsAfterUse
  <2>7. \A j \in Ways \ {q} : ls[j].tag # ls[q].tag
    BY <1>1, <2>2, <2>3 DEF LineSetOK
  <2>8. {ls[j].tag : j \in Ways \ {q}} = {ls[j].tag : j \in Ways} \ {ls[q].tag}
    BY <2>2, <2>7
  <2> QED BY <1>6, <1>8, <2>3, <2>6, <2>8 DEF q
<1> QED BY <1>5, <1>7, <1>9, <1>10, <1>11

(* The number of tags of a set is the number of its valid lines.           *)
LEMMA ContentSize ==
  ASSUME IInv, NEW s \in Sets
  PROVE  /\ Cardinality(content[s]) \in Nat
         /\ Valid(lines[s]) = Ways => Cardinality(content[s]) = assoc
         /\ Valid(lines[s]) # Ways => Cardinality(content[s]) < assoc
<1> DEFINE V == Valid(lines[s])
           f == [q \in V |-> lines[s][q].tag]
<1>1. Ways = 1 .. assoc /\ assoc \in Nat \ {0}
  BY CsimAssumption DEF Ways
<1>2. IsFiniteSet(Ways) /\ Cardinality(Ways) = assoc
  BY <1>1, FS_Interval
<1>3. V \subseteq Ways
  BY DEF Valid
<1>4. /\ IsFiniteSet(V) /\ Cardinality(V) \in Nat
      /\ V = Ways => Cardinality(V) = assoc
      /\ V # Ways => Cardinality(V) < assoc
  <2> HIDE DEF V
  <2>1. IsFiniteSet(V) /\ Cardinality(V) <= Cardinality(Ways)
        /\ (Cardinality(V) = Cardinality(Ways) => V = Ways)
    BY <1>2, <1>3, FS_Subset
  <2>2. Cardinality(V) \in Nat
    BY <2>1, FS_CardinalityType
  <2> QED BY <1>1, <1>2, <2>1, <2>2
<1>5. \A q, j \in V : lines[s][q].tag = lines[s][j].tag => q = j
  BY <1>3 DEF IInv, LinesAreASet
<1>6. f \in Bijection(V, content[s])
  <2>1. content[s] = {f[q] : q \in V}
    BY DEF content
  <2>2. f \in [V -> content[s]]
    BY <2>1
  <2>3. \A q, j \in V : f[q] = f[j] => q = j
    BY <1>5
  <2>4. \A c \in content[s] : \E q \in V : f[q] = c
    BY <2>1
  <2> HIDE DEF f, V
  <2>5. f \in Injection(V, content[s])
    BY <2>2, <2>3 DEF Injection, IsInjective
  <2>6. f \in Surjection(V, content[s])
    BY <2>2, <2>4 DEF Surjection
  <2> QED BY <2>5, <2>6 DEF Bijection
<1>7. Cardinality(content[s]) = Cardinality(V)
  <2> HIDE DEF f, V
  <2>1. ExistsBijection(V, content[s]) BY <1>6 DEF ExistsBijection
  <2> QED BY <1>4, <2>1, FS_Bijection
<1> QED BY <1>4, <1>7

(* The victim of an eviction is another line than the one used last; with  *)
(* two lines that makes it the least recently used one.                    *)
LEMMA VictimAge ==
  ASSUME IInv, NEW s \in Sets, Valid(lines[s]) = Ways
  PROVE  LET v == Victim(Aged(lines[s])) IN
         /\ v \in Ways
         /\ assoc >= 2 => \E m \in Ways \ {v} : \A j \in Ways \ {m} :
              lastUse[s][lines[s][j].tag] < lastUse[s][lines[s][m].tag]
         /\ assoc <= 2 => \A j \in Ways :
              lastUse[s][lines[s][v].tag] <= lastUse[s][lines[s][j].tag]
<1> DEFINE ls == lines[s]
           lu == lastUse[s]
           v == Victim(Aged(ls))
<1>1. Ways = 1 .. assoc /\ assoc \in Nat \ {0}
  BY CsimAssumption DEF Ways
<1>2. ls \in [Ways -> Line] /\ lu \in [Tags -> Nat]
  BY DEF IInv, TypeOK
<1>3. LineSetOK(ls, lu)
  BY DEF IInv, LinesAreASet, MostRecentIsYoung, LineSetOK, Valid
<1>4. v \in Ways
  BY <1>2, AgedType, VictimIsLastOldest
<1>5. Valid(ls) = Ways
  OBVIOUS
<1> HIDE DEF ls, lu
<1>6. assoc >= 2 => \E m \in Ways \ {v} : \A j \in Ways \ {m} :
                      lu[ls[j].tag] < lu[ls[m].tag]
  BY <1>2, <1>3, <1>5, VictimIsNotMostRecent
<1>7. \A j \in Ways : lu[ls[j].tag] \in Nat
  <2> SUFFICES ASSUME NEW j \in Ways PROVE lu[ls[j].tag] \in Nat
    OBVIOUS
  <2>1. ls[j] \in Line /\ ls[j].valid = 1
    BY <1>2, <1>5 DEF Valid
  <2> QED BY <1>2, <2>1, OlderLine
<1> HIDE DEF v
<1>8. ASSUME assoc <= 2, NEW j \in Ways PROVE lu[ls[v].tag] <= lu[ls[j].tag]
  <2>1. CASE j = v
    BY <1>7, <2>1
  <2>2. CASE j # v
    <3>1. assoc = 2 BY <1>1, <1>4, <1>8, <2>2
    <3>2. PICK m \in Ways \ {v} : \A q \in Ways \ {m} : lu[ls[q].tag] < lu[ls[m].tag]
      BY <1>6, <3>1
    <3>3. m = j BY <1>1, <1>4, <2>2, <3>1, <3>2
    <3>4. lu[ls[v].tag] < lu[ls[j].tag] BY <1>4, <3>2, <3>3
    <3> QED BY <1>4, <1>7, <3>4
  <2> QED BY <2>1, <2>2
<1> QED BY <1>4, <1>6, <1>8 DEF v, ls, lu

LEMMA SomeAccess ==
  ASSUME [Next]_vars
  PROVE  \/ \E addr \in Addrs : Access(addr)
         \/ UNCHANGED <<lines, hits, misses, evictions, lastUse>>
BY DEF Next, vars, counters, LoadStore, ModifyLoad, ModifyStore, Finish, Finished

(* With two lines per set or more, the line of a set that was used last    *)
(* survives the next eviction, although the ages do not order the others.  *)
THEOREM MostRecentSurvives == Spec => MostRecentStays
<1> DEFINE A == assoc >= 2 =>
                  \A s \in Sets : \A t \in EvictedTags(s) :
                    \E u \in Tags : lastUse[s][u] > lastUse[s][t]
<1>1. IInv /\ [Next]_vars => A
  <2> SUFFICES ASSUME IInv, [Next]_vars, assoc >= 2,
                      NEW s \in Sets, NEW t \in EvictedTags(s)
               PROVE  \E u \in Tags : lastUse[s][u] > lastUse[s][t]
    OBVIOUS
  <2>1. t \in content[s] /\ t \notin content'[s]
    BY DEF EvictedTags, content
  <2>2. PICK addr \in Addrs : Access(addr)
    <3>1. lines' # lines BY <2>1 DEF content
    <3> QED BY <3>1, SomeAccess
  <2>3. SetIndex(addr) \in Sets /\ Tag(addr) \in Tags
        /\ check_cache(SetIndex(addr), Tag(addr))
    BY <2>2, IndexAndTag DEF Access
  <2>4. SetIndex(addr) = s
    BY <2>1, <2>3, ContentStep
  <2>5. Evict(s, Tag(addr)) /\ t = lines[s][Victim(Aged(lines[s]))].tag
    BY <2>1, <2>3, <2>4, ContentStep DEF check_cache
  <2> DEFINE v == Victim(Aged(lines[s]))
  <2>6. Valid(lines[s]) = Ways
    BY <2>5 DEF Evict
  <2>7. PICK m \in Ways \ {v} : \A j \in Ways \ {m} :
           lastUse[s][lines[s][j].tag] < lastUse[s][lines[s][m].tag]
    BY <2>6, VictimAge
  <2>8. v \in Ways
    BY <2>6, VictimAge
  <2>9. lines[s][m].tag \in Tags
    <3>1. lines[s][m] \in Line /\ lines[s][m].valid = 1
      BY <2>6 DEF IInv, TypeOK, Valid
    <3> QED BY <3>1, OlderLine
  <2> HIDE DEF v
  <2>10. lastUse[s][lines[s][v].tag] < lastUse[s][lines[s][m].tag]
    BY <2>7, <2>8
  <2>11. lastUse[s] \in [Tags -> Nat] /\ t \in Tags
    BY <2>1, <2>3, ContentStep DEF IInv, TypeOK
  <2>12. lastUse[s][t] < lastUse[s][lines[s][m].tag]
    BY <2>5, <2>10 DEF v
  <2> QED BY <2>9, <2>11, <2>12
<1> QED BY <1>1, Invariance, PTL DEF Spec, MostRecentStays

\* The instance of FiniteSets in LRU is the module itself.
LEMMA SameCardinality == \A S : LRU!Cardinality(S) = Cardinality(S)
BY DEF LRU!Cardinality, Cardinality

(* With one or two lines per set every trace counts the hits, misses and   *)
(* evictions of a least-recently-used cache.                               *)
THEOREM LruUpToTwo == assoc <= 2 => (Spec => ImplementsLru)
<1> SUFFICES ASSUME assoc <= 2 PROVE Spec => ImplementsLru
  OBVIOUS
<1>1. Init => LRU!Init
  <2> SUFFICES ASSUME Init PROVE LRU!Init
    OBVIOUS
  <2>1. content = [s \in Sets |-> {}]
    BY DEF Init, content, Valid, EmptyLine
  <2> QED BY <2>1 DEF Init, LRU!Init
<1>2. IInv /\ [Next]_vars => [LRU!Next]_(LRU!vars)
  <2> SUFFICES ASSUME IInv, [Next]_vars PROVE [LRU!Next]_(LRU!vars)
    OBVIOUS
  <2>1. CASE UNCHANGED <<lines, hits, misses, evictions, lastUse>>
    BY <2>1 DEF LRU!vars, content, Valid
  <2>2. ASSUME NEW addr \in Addrs, Access(addr) PROVE LRU!Next
    <3> DEFINE s == SetIndex(addr)
               t == Tag(addr)
               u == lines[s][Victim(Aged(lines[s]))].tag
    <3>1. s \in Sets /\ t \in Tags /\ check_cache(s, t)
      BY <2>2, IndexAndTag DEF Access
    <3> HIDE DEF s, t, u
    <3>2. /\ content' \in [Sets -> SUBSET Tags] /\ content \in [Sets -> SUBSET Tags]
          /\ \A r \in Sets \ {s} : content'[r] = content[r]
          /\ Hit(s, t) => t \in content[s] /\ content'[s] = content[s]
          /\ Fill(s, t) => t \notin content[s] /\ content'[s] = content[s] \cup {t}
          /\ Evict(s, t) => /\ t \notin content[s]
                            /\ content'[s] = (content[s] \ {u}) \cup {t}
      BY <3>1, ContentStep DEF u
    <3>3. LRU!Touch(s, t)
      BY <3>1 DEF check_cache, LRU!Touch, LRU!Now
    <3>4. CASE Hit(s, t)
      <4>1. content' = content
        BY <3>2, <3>4
      <4>2. LRU!Hit(s, t)
        BY <3>2, <3>3, <3>4, <4>1 DEF Hit, LRU!Hit
      <4> QED BY <3>1, <4>2 DEF LRU!Next
    <3>5. CASE Fill(s, t)
      <4>1. content' = [content EXCEPT ![s] = @ \cup {t}]
        BY <3>1, <3>2, <3>5
      <4>2. Cardinality(content[s]) < assoc
        BY <3>1, <3>5, ContentSize DEF Fill
      <4>3. LRU!Fill(s, t)
        <5>1. misses' = misses + 1 /\ hits' = hits /\ evictions' = evictions
          BY <3>5 DEF Fill
        <5> QED BY <3>2, <3>3, <3>5, <4>1, <4>2, <5>1, SameCardinality DEF LRU!Fill
      <4> QED BY <3>1, <4>3 DEF LRU!Next
    <3>6. CASE Evict(s, t)
      <4>1. content' = [content EXCEPT ![s] = (@ \ {u}) \cup {t}]
        BY <3>1, <3>2, <3>6
      <4>2. Valid(lines[s]) = Ways
        BY <3>6 DEF Evict
      <4>3. Cardinality(content[s]) = assoc
        BY <3>1, <4>2, ContentSize
      <4>4. u \in content[s]
        BY <3>1, <4>2, VictimAge DEF content, u
      <4>5. \A x \in content[s] : lastUse[s][u] <= lastUse[s][x]
        <5>1. content[s] = {lines[s][q].tag : q \in Ways}
          BY <3>1, <4>2 DEF content
        <5> QED BY <3>1, <4>2, <5>1, VictimAge DEF u
      <4>6. u \in LRU!Oldest(s)
        BY <4>4, <4>5 DEF LRU!Oldest
      <4>7. LRU!Evict(s, t)
        <5>1. misses' = misses + 1 /\ hits' = hits /\ evictions' = evictions + 1
          BY <3>6 DEF Evict
        <5> QED BY <3>2, <3>3, <3>6, <4>1, <4>3, <4>6, <5>1, SameCardinality
             DEF LRU!Evict
      <4> QED BY <3>1, <4>7 DEF LRU!Next
    <3> QED BY <3>1, <3>4, <3>5, <3>6 DEF check_cache
  <2> QED BY <2>1, <2>2, SomeAccess
<1> QED BY <1>1, <1>2, Invariance, PTL DEF Spec, ImplementsLru, LRU!Spec

----------------------------------------------------------------------------
(* The command line.  flags counts the places of flags that have been      *)
(* looked at (FlagsBefore); a parameter that is not set has no flag among  *)
(* them.                                                                   *)

Parameters == {"-s", "-E", "-b"}

Flags == {"-s", "-E", "-b", "-t"}

PlacesOf(f, p) == {n \in 0 .. p - 1 : Word(n) = f}

FlagsBefore(p) == {n \in 0 .. p - 1 : Word(n) \in Flags}

ArgumentsInv ==
  /\ argv \in Seq(STRING)
  /\ place \in Nat /\ place <= argc
  /\ par \in [Parameters -> Numbers \cup {Unset, "0"}]
  /\ flags = Cardinality(FlagsBefore(place))
  /\ \A f \in Parameters : par[f] = Unset => PlacesOf(f, place) = {}
  /\ trace = Unset => PlacesOf("-t", place) = {}
  /\ outcome = "replay" => place = argc /\ flags = 4

\* The places before the next one.
LEMMA NextPlace ==
  ASSUME argv \in Seq(STRING), place \in Nat
  PROVE  /\ IsFiniteSet(FlagsBefore(place)) /\ place \notin FlagsBefore(place)
         /\ FlagsBefore(place + 1) = IF Word(place) \in Flags
                                     THEN FlagsBefore(place) \cup {place}
                                     ELSE FlagsBefore(place)
         /\ \A f : PlacesOf(f, place + 1) = IF Word(place) = f
                                            THEN PlacesOf(f, place) \cup {place}
                                            ELSE PlacesOf(f, place)
<1>1. 0 .. place + 1 - 1 = (0 .. place - 1) \cup {place} /\ place \notin 0 .. place - 1
  OBVIOUS
<1>2. IsFiniteSet(FlagsBefore(place))
  <2>1. IsFiniteSet(0 .. place - 1)
    BY FS_Interval
  <2>2. FlagsBefore(place) \subseteq 0 .. place - 1
    BY DEF FlagsBefore
  <2> QED BY <2>1, <2>2, FS_Subset
<1> QED BY <1>1, <1>2 DEF FlagsBefore, PlacesOf

LEMMA CountsNext ==
  ASSUME argv \in Seq(STRING), place \in Nat
  PROVE  Cardinality(FlagsBefore(place + 1)) =
           Cardinality(FlagsBefore(place)) + (IF Word(place) \in Flags THEN 1 ELSE 0)
<1>1. Cardinality(FlagsBefore(place)) \in Nat
  BY NextPlace, FS_CardinalityType
<1>2. Cardinality(FlagsBefore(place) \cup {place}) = Cardinality(FlagsBefore(place)) + 1
  BY NextPlace, FS_AddElement
<1> QED BY <1>1, <1>2, NextPlace

LEMMA ArgumentsInitInv == ArgumentsInit => ArgumentsInv
<1> SUFFICES ASSUME ArgumentsInit PROVE ArgumentsInv
  OBVIOUS
<1>1. argv \in Seq(STRING) /\ place = 0 /\ flags = 0 /\ outcome = "parse" /\ argc \in Nat
  BY ArgumentsAssumption DEF ArgumentsInit, argc
<1>2. par \in [Parameters -> Numbers \cup {Unset, "0"}]
  BY DEF ArgumentsInit, Parameters
<1>3. FlagsBefore(place) = {} /\ \A f : PlacesOf(f, place) = {}
  BY <1>1 DEF FlagsBefore, PlacesOf
<1>4. Cardinality(FlagsBefore(place)) = 0
  BY <1>3, FS_EmptySet
<1> QED BY <1>1, <1>2, <1>3, <1>4 DEF ArgumentsInv

\* argv does not change, and neither do the places of its words.
LEMMA WordsStay ==
  ASSUME argv' = argv
  PROVE  /\ argc' = argc
         /\ \A p : FlagsBefore(p)' = FlagsBefore(p)
         /\ \A f, p : PlacesOf(f, p)' = PlacesOf(f, p)
BY DEF argc, Word, FlagsBefore, PlacesOf

\* One word further.
LEMMA WordStep ==
  ASSUME ArgumentsInv, Parsing, argv' = argv, place' = place + 1, outcome' = outcome,
         place < argc,
         flags' = flags + (IF Word(place) \in Flags THEN 1 ELSE 0),
         par' \in [Parameters -> Numbers \cup {Unset, "0"}],
         \A f \in Parameters : par'[f] # Unset \/ (par'[f] = par[f] /\ Word(place) # f),
         trace' # Unset \/ (trace' = trace /\ Word(place) # "-t")
  PROVE  ArgumentsInv'
<1>1. argv \in Seq(STRING) /\ place \in Nat /\ place <= argc /\ argc \in Nat
  BY DEF ArgumentsInv, argc
<1>2. place' \in Nat /\ place' <= argc'
  BY <1>1, WordsStay
<1>3. flags' = Cardinality(FlagsBefore(place'))
  BY <1>1, CountsNext DEF ArgumentsInv
<1>4. \A f \in Parameters : par'[f] = Unset => PlacesOf(f, place') = {}
  BY <1>1, NextPlace DEF ArgumentsInv
<1>5. trace' = Unset => PlacesOf("-t", place') = {}
  BY <1>1, NextPlace DEF ArgumentsInv
<1>6. outcome' # "replay"
  BY DEF Parsing
<1>7. \A p : FlagsBefore(p)' = FlagsBefore(p)
  BY WordsStay
<1>8. \A f, p : PlacesOf(f, p)' = PlacesOf(f, p)
  BY WordsStay
<1>9. flags' = Cardinality(FlagsBefore(place))'
  BY <1>3 DEF FlagsBefore, Word, argc
<1>10. \A f \in Parameters : par'[f] = Unset => PlacesOf(f, place)' = {}
  BY <1>4 DEF PlacesOf, Word, argc
<1>11. trace' = Unset => PlacesOf("-t", place)' = {}
  BY <1>5 DEF PlacesOf, Word, argc
<1>12. argv' \in Seq(STRING)
  BY <1>1
<1> QED BY <1>2, <1>6, <1>9, <1>10, <1>11, <1>12 DEF ArgumentsInv

\* No place is left.
LEMMA LastStep ==
  ASSUME ArgumentsInv, UNCHANGED <<argv, place, flags, par, trace>>,
         outcome' = "replay" => place = argc /\ flags = 4
  PROVE  ArgumentsInv'
BY DEF ArgumentsInv, argc, FlagsBefore, PlacesOf, Word

LEMMA ArgumentsStep == ArgumentsInv /\ [ArgumentsNext]_argumentVars => ArgumentsInv'
<1> SUFFICES ASSUME ArgumentsInv, [ArgumentsNext]_argumentVars PROVE ArgumentsInv'
  OBVIOUS
<1>1. par \in [Parameters -> Numbers \cup {Unset, "0"}]
  BY DEF ArgumentsInv
<1>2. \A w : atoi(w) # Unset /\ atoi(w) \in Numbers \cup {Unset, "0"}
  BY ArgumentsAssumption DEF atoi, Unset
<1>3. CASE Parameter
  <2>1. Word(place) \in Parameters /\ Word(place) \in Flags /\ place < argc
    BY <1>1, <1>3 DEF Parameter, Parameters, Flags, NULL, Word
  <2>2. par' = [par EXCEPT ![Word(place)] = atoi(Word(place + 1))]
    BY <1>3 DEF Parameter
  <2>3. par' \in [Parameters -> Numbers \cup {Unset, "0"}]
    BY <1>1, <1>2, <2>1, <2>2
  <2>4. \A f \in Parameters : par'[f] # Unset \/ (par'[f] = par[f] /\ Word(place) # f)
    BY <1>1, <1>2, <2>1, <2>2
  <2>5. trace' # Unset \/ (trace' = trace /\ Word(place) # "-t")
    BY <1>3, <2>1 DEF Parameter, Parameters
  <2>6. /\ Parsing /\ argv' = argv /\ place' = place + 1 /\ outcome' = outcome
        /\ flags' = flags + (IF Word(place) \in Flags THEN 1 ELSE 0)
    BY <1>3, <2>1 DEF Parameter
  <2> QED BY <2>1, <2>3, <2>4, <2>5, <2>6, WordStep
<1>4. CASE OpenTrace
  <2>1. Word(place) = "-t" /\ Word(place) \in Flags /\ place < argc
    BY <1>4 DEF OpenTrace, Flags, NULL, Word
  <2>2. trace' # Unset
    BY <1>4, ArgumentsAssumption DEF OpenTrace
  <2>3. \A f \in Parameters : par'[f] # Unset \/ (par'[f] = par[f] /\ Word(place) # f)
    BY <1>4, <2>1 DEF OpenTrace, Parameters
  <2>4. /\ Parsing /\ argv' = argv /\ place' = place + 1 /\ outcome' = outcome
        /\ flags' = flags + (IF Word(place) \in Flags THEN 1 ELSE 0)
        /\ par' = par
    BY <1>4, <2>1 DEF OpenTrace
  <2> QED BY <1>1, <2>1, <2>2, <2>3, <2>4, WordStep
<1>5. CASE OtherWord
  <2>1. Word(place) \notin Flags
    BY <1>1, <1>5 DEF OtherWord, Parameters, Flags
  <2>2. place < argc
    BY <1>5 DEF OtherWord
  <2>3. /\ Parsing /\ argv' = argv /\ place' = place + 1 /\ outcome' = outcome
        /\ flags' = flags /\ par' = par /\ trace' = trace
    BY <1>5 DEF OtherWord
  <2>4. flags' = flags + (IF Word(place) \in Flags THEN 1 ELSE 0)
    <3>1. flags \in Nat
      BY NextPlace, FS_CardinalityType DEF ArgumentsInv
    <3> QED BY <2>1, <2>3, <3>1
  <2>5. \A f \in Parameters : par'[f] # Unset \/ (par'[f] = par[f] /\ Word(place) # f)
    BY <2>1, <2>3 DEF Parameters, Flags
  <2>6. trace' # Unset \/ (trace' = trace /\ Word(place) # "-t")
    BY <2>1, <2>3 DEF Flags
  <2> QED BY <1>1, <2>2, <2>3, <2>4, <2>5, <2>6, WordStep
<1>6. CASE Parsed
  BY <1>6, LastStep DEF Parsed, Exits, ArgumentsInv
<1>7. CASE WrongCount \/ NoValue \/ OpenFails
  BY <1>7, LastStep DEF WrongCount, NoValue, OpenFails, Exits
<1>8. CASE UNCHANGED argumentVars
  BY <1>8, LastStep DEF argumentVars, ArgumentsInv
<1> QED BY <1>3, <1>4, <1>5, <1>6, <1>7, <1>8 DEF ArgumentsNext

\* A flag that is not repeated has at most one place.
LEMMA OnePlace ==
  ASSUME argv \in Seq(STRING), NEW f, ~ Repeated(f)
  PROVE  IsFiniteSet(PlacesOf(f, argc)) /\ Cardinality(PlacesOf(f, argc)) \in 0 .. 1
<1>1. argc \in Nat
  BY DEF argc
<1>2. IsFiniteSet(PlacesOf(f, argc))
  <2>1. IsFiniteSet(0 .. argc - 1)
    BY <1>1, FS_Interval
  <2>2. PlacesOf(f, argc) \subseteq 0 .. argc - 1
    BY DEF PlacesOf
  <2> QED BY <2>1, <2>2, FS_Subset
<1> QED BY <1>2, FS_CardinalityType DEF Repeated, PlacesOf

\* Two sets have together at most as many elements as one and the other.
LEMMA UnionBound ==
  ASSUME NEW S, NEW T, IsFiniteSet(S), IsFiniteSet(T)
  PROVE  IsFiniteSet(S \cup T) /\ Cardinality(S \cup T) <= Cardinality(S) + Cardinality(T)
<1>1. /\ Cardinality(S) \in Nat /\ Cardinality(T) \in Nat /\ Cardinality(S \cap T) \in Nat
  BY FS_CardinalityType, FS_Intersection
<1>2. /\ IsFiniteSet(S \cup T)
      /\ Cardinality(S \cup T) = Cardinality(S) + Cardinality(T) - Cardinality(S \cap T)
  BY FS_Union
<1> QED BY <1>1, <1>2

\* Four places of flags, none twice, are those of all four.
LEMMA AllFourGiven ==
  ASSUME ArgumentsInv, outcome = "replay", \A f \in Flags : ~ Repeated(f)
  PROVE  \A f \in Flags : PlacesOf(f, place) # {}
<1> DEFINE P(f) == PlacesOf(f, argc)
           n(f) == Cardinality(P(f))
<1>1. argv \in Seq(STRING) /\ place = argc /\ Cardinality(FlagsBefore(argc)) = 4
  BY DEF ArgumentsInv
<1>2. /\ IsFiniteSet(P("-s")) /\ n("-s") \in 0 .. 1 /\ IsFiniteSet(P("-E")) /\ n("-E") \in 0 .. 1
      /\ IsFiniteSet(P("-b")) /\ n("-b") \in 0 .. 1 /\ IsFiniteSet(P("-t")) /\ n("-t") \in 0 .. 1
  BY <1>1, OnePlace DEF Flags
<1>3. FlagsBefore(argc) = (P("-s") \cup P("-E")) \cup (P("-b") \cup P("-t"))
  BY DEF FlagsBefore, PlacesOf, Flags
<1> HIDE DEF P
<1>4. /\ IsFiniteSet(P("-s") \cup P("-E")) /\ Cardinality(P("-s") \cup P("-E")) <= n("-s") + n("-E")
      /\ IsFiniteSet(P("-b") \cup P("-t")) /\ Cardinality(P("-b") \cup P("-t")) <= n("-b") + n("-t")
  BY <1>2, UnionBound
<1>5. /\ Cardinality(P("-s") \cup P("-E")) \in Nat /\ Cardinality(P("-b") \cup P("-t")) \in Nat
  BY <1>4, FS_CardinalityType
<1>6. 4 <= Cardinality(P("-s") \cup P("-E")) + Cardinality(P("-b") \cup P("-t"))
  BY <1>1, <1>3, <1>4, UnionBound
<1>7. n("-s") = 1 /\ n("-E") = 1 /\ n("-b") = 1 /\ n("-t") = 1
  <2> HIDE DEF n
  <2> QED BY <1>2, <1>4, <1>5, <1>6
<1>8. P("-s") # {} /\ P("-E") # {} /\ P("-b") # {} /\ P("-t") # {}
  BY <1>7, FS_EmptySet
<1> QED BY <1>1, <1>8 DEF P, Flags

(* For any command line: csim replays a trace with a parameter that was    *)
(* never set only when it was given another flag twice.                    *)
THEOREM SetOrRepeated == ArgumentsSpec => []SetUnlessRepeated
<1>1. ArgumentsInv => SetUnlessRepeated
  <2> SUFFICES ASSUME ArgumentsInv, outcome = "replay", \A f \in Flags : ~ Repeated(f)
               PROVE  trace # Unset /\ \A f \in DOMAIN par : par[f] # Unset
    <3>1. ArgumentsInv => DOMAIN par \cup {"-t"} = Flags
      BY DEF ArgumentsInv, Parameters, Flags
    <3> QED BY <3>1 DEF SetUnlessRepeated
  <2>1. \A f \in Flags : PlacesOf(f, place) # {}
    BY AllFourGiven
  <2> QED BY <2>1 DEF ArgumentsInv, Parameters, Flags
<1> QED BY <1>1, ArgumentsInitInv, ArgumentsStep, PTL DEF ArgumentsSpec

----------------------------------------------------------------------------
(* The transposes, for matrices of any size.  Moves that stay in the rows  *)
(* of B write the right elements, whatever their order, so that it is      *)
(* enough that they cover it.  A function that is no transpose misses an   *)
(* element of B, or writes over it what it reads below A: Gap.             *)

Rows == TestTrans!M

Columns == TestTrans!N

Matrix == [0 .. Rows - 1 -> [0 .. Columns - 1 -> Int]]

Count == Cardinality(DOMAIN TestTrans!Moves)

Right(f) ==
  \/ f = 1 /\ size \in {<<32, 32>>, <<64, 64>>, <<61, 67>>}
  \/ f = 2
  \/ f = 3 /\ Columns % 4 = 0

\* The element of B that a wrong function leaves or spoils.
Gap == CASE i = 3 -> Columns [] i = 4 -> 4 [] OTHER -> 0

Spoiled(b) == b[Gap \div Columns][Gap % Columns] = TestTrans!Other

\* The moves that a wrong function has made when the element is spoiled.
Ruin ==
  IF i = 3
  THEN 16 * ((Columns \div 4) * TestTrans!Times(Rows, 4)) + 4 * (Columns % 4) + 1
  ELSE 0

\* After the first n moves.
Progress(n, b) ==
  /\ Right(i) =>
       \A m \in 0 .. n - 1 : \A r \in 0 .. Rows - 1 :
         r - TestTrans!Moves[m].jj \in 0 .. TestTrans!Moves[m].width - 1 =>
           b[r][TestTrans!Moves[m].ii] = TestTrans!Moves[m].ii * Rows + r
  /\ ~ Right(i) /\ Ruin <= n => Spoiled(b)

Evaluating == size \in Sizes /\ i \in 1 .. 4

AMove == [ii : Nat, jj : Nat, width : 1 .. 8]

MovesFit ==
  /\ DOMAIN TestTrans!Moves = 0 .. Count - 1 /\ Count \in Nat
  /\ \A n \in 0 .. Count - 1 : TestTrans!Moves[n] \in AMove

MovesCover ==
  Right(i) =>
    /\ \A n \in 0 .. Count - 1 : TestTrans!Moves[n].ii < Columns
    /\ \A r \in 0 .. Rows - 1, c \in 0 .. Columns - 1 :
         \E n \in 0 .. Count - 1 :
           /\ TestTrans!Moves[n].ii = c
           /\ r - TestTrans!Moves[n].jj \in 0 .. TestTrans!Moves[n].width - 1

MovesSpoil ==
  ~ Right(i) =>
    /\ Ruin \in 0 .. Count
    /\ Ruin > 0 => TestTrans!Moves[Ruin - 1] = TestTrans!Move(Columns, 0, 1)
    /\ \A n \in Ruin .. Count - 1 : \A d \in 0 .. TestTrans!Moves[n].width - 1 :
         TestTrans!ElementOfB(TestTrans!Moves[n], d) # Gap

\* The size of a matrix.
LEMMA SizeIs ==
  ASSUME size \in Sizes
  PROVE  Rows \in Nat \ {0, 1} /\ Columns \in Nat \ (0 .. 4) /\ size = <<Rows, Columns>>
BY SizesAssumption DEF Rows, Columns, TestTrans!M, TestTrans!N

\* A number in a table of rows.
LEMMA InTable ==
  ASSUME NEW a \in Nat \ {0}, NEW b \in Nat, NEW n \in 0 .. a * b - 1
  PROVE  n \div a \in 0 .. b - 1 /\ n % a \in 0 .. a - 1 /\ n = (n \div a) * a + (n % a)
<1>1. n \in Nat /\ a * b \in Nat
  OBVIOUS
<1>2. n % a \in 0 .. a - 1 /\ n = (n \div a) * a + (n % a) /\ n \div a \in Int
  BY <1>1, ModParts
<1> DEFINE x == n \div a
<1>3. x >= 0
  BY <1>1, <1>2
<1>4. x < b
  <2> SUFFICES ASSUME x >= b PROVE FALSE
    BY <1>2
  <2>1. PICK y \in Nat : x = b + y
    BY <1>2, <1>3
  <2>2. x * a = b * a + y * a /\ y * a \in Nat /\ b * a = a * b
    BY <2>1
  <2> QED BY <1>1, <1>2, <2>2
<1> QED BY <1>2, <1>3, <1>4

\* A place in a table of rows.
LEMMA TablePlace ==
  ASSUME NEW a \in Nat \ {0}, NEW b \in Nat, NEW x \in 0 .. b - 1, NEW y \in 0 .. a - 1
  PROVE  /\ x * a + y \in 0 .. a * b - 1
         /\ (x * a + y) \div a = x /\ (x * a + y) % a = y
<1>1. x * a + y \in Nat /\ x * a \in Nat /\ a * b \in Nat
  OBVIOUS
<1>2. x * a + a <= a * b
  <2>1. PICK z \in Nat : b = x + 1 + z
    OBVIOUS
  <2>2. a * b = x * a + a + a * z /\ a * z \in Nat
    BY <2>1
  <2> QED BY <1>1, <2>2
<1>3. (x * a + y) % a = y
  BY ModUnique
<1>4. (x * a + y) \div a = x
  <2>1. x * a + y = ((x * a + y) \div a) * a + y /\ (x * a + y) \div a \in Int
    BY <1>1, <1>3, ModParts
  <2> DEFINE z == (x * a + y) \div a
  <2>2. z * a = x * a /\ z \in Int
    BY <1>1, <2>1
  <2> HIDE DEF z
  <2>3. z = x
    BY <2>2
  <2> QED BY <2>3 DEF z
<1> QED BY <1>1, <1>2, <1>3, <1>4

LEMMA CountTo ==
  ASSUME NEW n \in Nat, NEW f, DOMAIN f = 0 .. n - 1
  PROVE  Cardinality(DOMAIN f) = n
BY FS_Interval

\* Which function is evaluated.
LEMMA MovesAre ==
  ASSUME i \in 1 .. 4
  PROVE  /\ i = 1 => TestTrans!Moves = TestTrans!transpose_submit
         /\ i = 2 => TestTrans!Moves = TestTrans!trans
         /\ i = 3 => TestTrans!Moves = TestTrans!transpose_blocking
         /\ i = 4 => TestTrans!Moves = TestTrans!transpose_64M
         /\ i = 1 <=> TestTrans!registerFunctions[i] = "transpose_submit"
<1>1. /\ TestTrans!registerFunctions[1] = "transpose_submit"
      /\ TestTrans!registerFunctions[2] = "trans"
      /\ TestTrans!registerFunctions[3] = "transpose_blocking"
      /\ TestTrans!registerFunctions[4] = "transpose_64M"
  BY DEF TestTrans!registerFunctions
<1>2. i = 1 \/ i = 2 \/ i = 3 \/ i = 4
  OBVIOUS
<1>3. ASSUME i = 1 PROVE TestTrans!Moves = TestTrans!transpose_submit
  BY <1>1, <1>3 DEF TestTrans!Moves
<1>4. ASSUME i = 2 PROVE TestTrans!Moves = TestTrans!trans
  BY <1>1, <1>4 DEF TestTrans!Moves
<1>5. ASSUME i = 3 PROVE TestTrans!Moves = TestTrans!transpose_blocking
  BY <1>1, <1>5 DEF TestTrans!Moves
<1>6. ASSUME i = 4 PROVE TestTrans!Moves = TestTrans!transpose_64M
  BY <1>1, <1>6 DEF TestTrans!Moves
<1>7. i = 1 <=> TestTrans!registerFunctions[i] = "transpose_submit"
  BY <1>1, <1>2
<1> QED BY <1>3, <1>4, <1>5, <1>6, <1>7

\* What a list of moves is, and what it must be to be a transpose.
FitsAs(moves, count) ==
  /\ DOMAIN moves = 0 .. count - 1 /\ count \in Nat
  /\ \A n \in 0 .. count - 1 : moves[n] \in AMove

CoversAs(moves, count) ==
  /\ \A n \in 0 .. count - 1 : moves[n].ii < Columns
  /\ \A r \in 0 .. Rows - 1, c \in 0 .. Columns - 1 :
       \E n \in 0 .. count - 1 :
         moves[n].ii = c /\ r - moves[n].jj \in 0 .. moves[n].width - 1

LEMMA TransMoves ==
  ASSUME size \in Sizes
  PROVE  FitsAs(TestTrans!trans, Rows * Columns) /\ CoversAs(TestTrans!trans, Rows * Columns)
<1> DEFINE count == Rows * Columns
<1>1. Rows \in Nat \ {0} /\ Columns \in Nat \ {0} /\ count \in Nat
  BY SizeIs
<1>2. TestTrans!trans = [n \in 0 .. count - 1 |-> TestTrans!Move(n \div Rows, n % Rows, 1)]
  BY DEF TestTrans!trans, Rows, Columns
<1>3. ASSUME NEW n \in 0 .. count - 1
      PROVE  /\ TestTrans!trans[n] = [ii |-> n \div Rows, jj |-> n % Rows, width |-> 1]
             /\ n \div Rows \in 0 .. Columns - 1 /\ n % Rows \in Nat
  <2>1. TestTrans!trans[n] = [ii |-> n \div Rows, jj |-> n % Rows, width |-> 1]
    BY <1>2 DEF TestTrans!Move
  <2>2. n \div Rows \in 0 .. Columns - 1 /\ n % Rows \in 0 .. Rows - 1
    BY <1>1, InTable
  <2> QED BY <1>1, <2>1, <2>2
<1>4. FitsAs(TestTrans!trans, count)
  <2>1. DOMAIN TestTrans!trans = 0 .. count - 1
    BY <1>2
  <2>2. ASSUME NEW n \in 0 .. count - 1 PROVE TestTrans!trans[n] \in AMove
    <3>1. PICK x, y : /\ TestTrans!trans[n] = [ii |-> x, jj |-> y, width |-> 1]
                      /\ x \in 0 .. Columns - 1 /\ y \in Nat
      BY <1>3
    <3>2. x \in Nat /\ 1 \in 1 .. 8
      BY <1>1, <3>1
    <3> QED BY <3>1, <3>2 DEF AMove
  <2> QED BY <1>1, <2>1, <2>2 DEF FitsAs
<1>5. CoversAs(TestTrans!trans, count)
  <2>1. ASSUME NEW n \in 0 .. count - 1 PROVE TestTrans!trans[n].ii < Columns
    <3>1. PICK x, y : /\ TestTrans!trans[n] = [ii |-> x, jj |-> y, width |-> 1]
                      /\ x \in 0 .. Columns - 1 /\ y \in Nat
      BY <1>3
    <3> QED BY <1>1, <3>1
  <2>2. ASSUME NEW r \in 0 .. Rows - 1, NEW c \in 0 .. Columns - 1
        PROVE  \E n \in 0 .. count - 1 :
                 /\ TestTrans!trans[n].ii = c
                 /\ r - TestTrans!trans[n].jj \in 0 .. TestTrans!trans[n].width - 1
    <3>1. PICK n : n = c * Rows + r
      OBVIOUS
    <3>2. n \in 0 .. count - 1 /\ n \div Rows = c /\ n % Rows = r
      BY <1>1, <3>1, TablePlace
    <3>3. TestTrans!trans[n] = [ii |-> c, jj |-> r, width |-> 1]
      BY <1>3, <3>2
    <3>4. r - r \in 0 .. 1 - 1
      BY <1>1
    <3> QED BY <3>2, <3>3, <3>4
  <2> QED BY <2>1, <2>2 DEF CoversAs
<1> QED BY <1>4, <1>5

LEMMA TimesIs ==
  ASSUME NEW bound \in Nat \ {0}
  PROVE  /\ TestTrans!Times(bound, 4) \in Nat \ {0}
         /\ 4 * TestTrans!Times(bound, 4) >= bound
         /\ 4 * TestTrans!Times(bound, 4) - 4 < bound
         /\ TestTrans!Times(bound, 8) \in Nat \ {0}
         /\ bound % 4 = 0 => 4 * TestTrans!Times(bound, 4) = bound
BY DEF TestTrans!Times

\* The move of transpose_blocking with element a, b of block x, y.
BlockMove(n, x, y, a, b) ==
  /\ x \in 0 .. TestTrans!Times(Columns, 4) - 1 /\ y \in 0 .. TestTrans!Times(Rows, 4) - 1
  /\ a \in 0 .. 3 /\ b \in 0 .. 3
  /\ n = 16 * (x * TestTrans!Times(Rows, 4) + y) + 4 * a + b
  /\ TestTrans!transpose_blocking[n] = [ii |-> 4 * x + a, jj |-> 4 * y + b, width |-> 1]

BlockCount == 16 * TestTrans!Times(Rows, 4) * TestTrans!Times(Columns, 4)

LEMMA BlockingMoves ==
  ASSUME size \in Sizes
  PROVE  /\ BlockCount \in Nat
         /\ DOMAIN TestTrans!transpose_blocking = 0 .. BlockCount - 1
         /\ \A n \in 0 .. BlockCount - 1 :
              \E x \in Nat, y \in Nat, a \in 0 .. 3, b \in 0 .. 3 : BlockMove(n, x, y, a, b)
         /\ \A x \in 0 .. TestTrans!Times(Columns, 4) - 1,
               y \in 0 .. TestTrans!Times(Rows, 4) - 1, a \in 0 .. 3, b \in 0 .. 3 :
              \E n \in 0 .. BlockCount - 1 : BlockMove(n, x, y, a, b)
<1>1. PICK across : across = TestTrans!Times(Rows, 4)
  OBVIOUS
<1>2. PICK down : down = TestTrans!Times(Columns, 4)
  OBVIOUS
<1>3. Rows \in Nat \ {0} /\ Columns \in Nat \ {0} /\ across \in Nat \ {0} /\ down \in Nat \ {0}
  <2>1. Rows \in Nat \ {0} /\ Columns \in Nat \ {0}
    BY SizeIs
  <2> QED BY <1>1, <1>2, <2>1, TimesIs
<1>4. PICK blocks : blocks = across * down
  OBVIOUS
<1>5. blocks \in Nat /\ BlockCount = 16 * blocks
  BY <1>1, <1>2, <1>3, <1>4 DEF BlockCount
<1>6. TestTrans!transpose_blocking =
        [n \in 0 .. BlockCount - 1 |->
           TestTrans!Move(4 * ((n \div 16) \div across) + ((n \div 4) % 4),
                          4 * ((n \div 16) % across) + (n % 4), 1)]
  BY <1>1 DEF TestTrans!transpose_blocking, BlockCount, Rows, Columns
<1>7. ASSUME NEW n \in 0 .. BlockCount - 1
      PROVE  TestTrans!transpose_blocking[n] =
               [ii |-> 4 * ((n \div 16) \div across) + ((n \div 4) % 4),
                jj |-> 4 * ((n \div 16) % across) + (n % 4), width |-> 1]
  BY <1>6 DEF TestTrans!Move
<1>8. ASSUME NEW n \in 0 .. BlockCount - 1
      PROVE  \E x \in Nat, y \in Nat, a \in 0 .. 3, b \in 0 .. 3 : BlockMove(n, x, y, a, b)
  <2>1. PICK m, a, b : m = n \div 16 /\ a = (n \div 4) % 4 /\ b = n % 4
    OBVIOUS
  <2>2. /\ m \in 0 .. blocks - 1 /\ a \in 0 .. 3 /\ b \in 0 .. 3
        /\ n = 16 * m + 4 * a + b
    BY <1>5, <2>1
  <2>3. PICK x, y : x = m \div across /\ y = m % across
    OBVIOUS
  <2>4. x \in 0 .. down - 1 /\ y \in 0 .. across - 1 /\ m = x * across + y
    BY <1>3, <1>4, <2>2, <2>3, InTable
  <2>5. TestTrans!transpose_blocking[n] = [ii |-> 4 * x + a, jj |-> 4 * y + b, width |-> 1]
    BY <1>7, <2>1, <2>3
  <2>6. BlockMove(n, x, y, a, b)
    BY <1>1, <1>2, <2>2, <2>4, <2>5 DEF BlockMove
  <2>7. x \in Nat /\ y \in Nat
    BY <1>3, <2>4
  <2> QED BY <2>2, <2>6, <2>7
<1>9. ASSUME NEW x \in 0 .. down - 1, NEW y \in 0 .. across - 1, NEW a \in 0 .. 3, NEW b \in 0 .. 3
      PROVE  \E n \in 0 .. BlockCount - 1 : BlockMove(n, x, y, a, b)
  <2>1. PICK m : m = x * across + y
    OBVIOUS
  <2>2. m \in 0 .. blocks - 1 /\ m \div across = x /\ m % across = y
    BY <1>3, <1>4, <2>1, TablePlace
  <2>3. PICK n : n = 16 * m + 4 * a + b
    OBVIOUS
  <2>4. /\ n \in 0 .. BlockCount - 1
        /\ n \div 16 = m /\ (n \div 4) % 4 = a /\ n % 4 = b
    BY <1>5, <2>2, <2>3
  <2>5. TestTrans!transpose_blocking[n] = [ii |-> 4 * x + a, jj |-> 4 * y + b, width |-> 1]
    BY <1>7, <2>2, <2>4
  <2>6. BlockMove(n, x, y, a, b)
    BY <1>1, <1>2, <2>1, <2>3, <2>5 DEF BlockMove
  <2> QED BY <2>4, <2>6
<1>10. DOMAIN TestTrans!transpose_blocking = 0 .. BlockCount - 1
  BY <1>6
<1> QED BY <1>1, <1>2, <1>5, <1>8, <1>9, <1>10

LEMMA BlockingFits ==
  ASSUME size \in Sizes
  PROVE  /\ FitsAs(TestTrans!transpose_blocking, BlockCount)
         /\ Columns % 4 = 0 => CoversAs(TestTrans!transpose_blocking, BlockCount)
<1>1. PICK across : across = TestTrans!Times(Rows, 4)
  OBVIOUS
<1>2. PICK down : down = TestTrans!Times(Columns, 4)
  OBVIOUS
<1>3. /\ Rows \in Nat \ {0} /\ Columns \in Nat \ {0} /\ across \in Nat \ {0} /\ down \in Nat \ {0}
      /\ 4 * across >= Rows /\ 4 * down >= Columns
      /\ Columns % 4 = 0 => 4 * down = Columns
  <2>1. Rows \in Nat \ {0} /\ Columns \in Nat \ {0}
    BY SizeIs
  <2> QED BY <1>1, <1>2, <2>1, TimesIs
<1>4. ASSUME NEW n \in 0 .. BlockCount - 1
      PROVE  /\ TestTrans!transpose_blocking[n] \in AMove
             /\ Columns % 4 = 0 => TestTrans!transpose_blocking[n].ii < Columns
  <2>1. PICK x \in Nat, y \in Nat, a \in 0 .. 3, b \in 0 .. 3 : BlockMove(n, x, y, a, b)
    BY BlockingMoves
  <2>2. /\ TestTrans!transpose_blocking[n] = [ii |-> 4 * x + a, jj |-> 4 * y + b, width |-> 1]
        /\ x \in 0 .. down - 1
    BY <1>2, <2>1 DEF BlockMove
  <2>3. PICK v, z : v = 4 * x + a /\ z = 4 * y + b
    OBVIOUS
  <2>4. v \in Nat /\ z \in Nat /\ 1 \in 1 .. 8 /\ v < 4 * down
    BY <1>3, <2>2, <2>3
  <2>5. TestTrans!transpose_blocking[n] = [ii |-> v, jj |-> z, width |-> 1]
    BY <2>2, <2>3
  <2>6. TestTrans!transpose_blocking[n] \in AMove
    BY <2>4, <2>5 DEF AMove
  <2> QED BY <1>3, <2>4, <2>5, <2>6
<1>5. ASSUME NEW r \in 0 .. Rows - 1, NEW c \in 0 .. Columns - 1
      PROVE  \E n \in 0 .. BlockCount - 1 :
               /\ TestTrans!transpose_blocking[n].ii = c
               /\ r - TestTrans!transpose_blocking[n].jj \in
                    0 .. TestTrans!transpose_blocking[n].width - 1
  <2>1. PICK x, y, a, b : x = c \div 4 /\ a = c % 4 /\ y = r \div 4 /\ b = r % 4
    OBVIOUS
  <2>2. /\ x \in 0 .. down - 1 /\ y \in 0 .. across - 1 /\ a \in 0 .. 3 /\ b \in 0 .. 3
        /\ c = 4 * x + a /\ r = 4 * y + b
    BY <1>3, <2>1
  <2>3. PICK n \in 0 .. BlockCount - 1 : BlockMove(n, x, y, a, b)
    BY <1>1, <1>2, <2>2, BlockingMoves
  <2>4. TestTrans!transpose_blocking[n] = [ii |-> c, jj |-> r, width |-> 1]
    BY <2>2, <2>3 DEF BlockMove
  <2>5. r - r \in 0 .. 1 - 1
    BY <1>3
  <2> QED BY <2>4, <2>5
<1>6. FitsAs(TestTrans!transpose_blocking, BlockCount)
  BY <1>4, BlockingMoves DEF FitsAs
<1>7. ASSUME Columns % 4 = 0 PROVE CoversAs(TestTrans!transpose_blocking, BlockCount)
  BY <1>4, <1>5, <1>7 DEF CoversAs
<1> QED BY <1>6, <1>7

SpoilsAs(moves, count, gap, ruin) ==
  /\ ruin \in 0 .. count
  /\ ruin > 0 => moves[ruin - 1] = TestTrans!Move(Columns, 0, 1)
  /\ \A n \in ruin .. count - 1 : \A d \in 0 .. moves[n].width - 1 :
       TestTrans!ElementOfB(moves[n], d) # gap

BlockRuin == 16 * ((Columns \div 4) * TestTrans!Times(Rows, 4)) + 4 * (Columns % 4) + 1

(* When there are rows in the last blocks that are below A, element Columns *)
(* of B, which is the first of its second row, is written by the second    *)
(* move and then by the move that reads the first of these rows.           *)
LEMMA BlockingSpoils ==
  ASSUME size \in Sizes, Columns % 4 # 0
  PROVE  SpoilsAs(TestTrans!transpose_blocking, BlockCount, Columns, BlockRuin)
<1>1. PICK across : across = TestTrans!Times(Rows, 4)
  OBVIOUS
<1>2. PICK down : down = TestTrans!Times(Columns, 4)
  OBVIOUS
<1>3. /\ Rows \in Nat \ {0} /\ Columns \in Nat \ {0} /\ across \in Nat \ {0} /\ down \in Nat \ {0}
      /\ 4 * down >= Columns /\ Columns > 4
  <2>1. Rows \in Nat \ {0} /\ Columns \in Nat \ {0} /\ Columns > 4
    BY SizeIs
  <2> QED BY <1>1, <1>2, <2>1, TimesIs
<1>4. PICK q, rest : q = Columns \div 4 /\ rest = Columns % 4
  OBVIOUS
<1>5. /\ q \in 0 .. down - 1 /\ rest \in 1 .. 3 /\ Columns = 4 * q + rest
  BY <1>3, <1>4
<1>6. BlockRuin = 16 * (q * across) + 4 * rest + 1
  BY <1>1, <1>4 DEF BlockRuin
<1>7. PICK n0 \in 0 .. BlockCount - 1 : BlockMove(n0, q, 0, rest, 0)
  <2>1. 0 \in 0 .. across - 1 /\ 0 \in 0 .. 3 /\ rest \in 0 .. 3
    BY <1>3, <1>5
  <2> QED BY <1>1, <1>2, <1>5, <2>1, BlockingMoves
<1>8. BlockRuin - 1 = n0 /\ BlockRuin = n0 + 1 /\ n0 > 1
  <2>1. n0 = 16 * (q * across + 0) + 4 * rest + 0
    BY <1>1, <1>7 DEF BlockMove
  <2>2. q * across \in Nat
    BY <1>3, <1>5
  <2> QED BY <1>5, <1>6, <2>1, <2>2
<1>9. TestTrans!transpose_blocking[n0] = TestTrans!Move(Columns, 0, 1)
  <2>1. TestTrans!transpose_blocking[n0] = [ii |-> 4 * q + rest, jj |-> 4 * 0 + 0, width |-> 1]
    BY <1>7 DEF BlockMove
  <2> QED BY <1>5, <2>1 DEF TestTrans!Move
<1>10. ASSUME NEW n \in BlockRuin .. BlockCount - 1,
              NEW d \in 0 .. TestTrans!transpose_blocking[n].width - 1
       PROVE  TestTrans!ElementOfB(TestTrans!transpose_blocking[n], d) # Columns
  <2>1. BlockCount \in Nat /\ n \in 0 .. BlockCount - 1 /\ n > n0
    BY <1>8, BlockingMoves
  <2>2. PICK x \in Nat, y \in Nat, a \in 0 .. 3, b \in 0 .. 3 : BlockMove(n, x, y, a, b)
    BY <2>1, BlockingMoves
  <2>3. TestTrans!transpose_blocking[n] = [ii |-> 4 * x + a, jj |-> 4 * y + b, width |-> 1]
    BY <2>2 DEF BlockMove
  <2>4. PICK v, z : v = 4 * x + a /\ z = 4 * y + b
    OBVIOUS
  <2>5. v \in Nat /\ z \in Nat /\ d = 0
    BY <2>3, <2>4
  <2>6. TestTrans!ElementOfB(TestTrans!transpose_blocking[n], d) = z * Columns + v
    <3>1. TestTrans!ElementOfB(TestTrans!transpose_blocking[n], d) = (z + d) * Columns + v
      BY <2>3, <2>4 DEF TestTrans!ElementOfB, Columns
    <3>2. z + d = z
      BY <2>5
    <3> QED BY <3>1, <3>2
  <2> SUFFICES ASSUME z * Columns + v = Columns PROVE FALSE
    BY <2>6
  <2>7. CASE z = 0
    <3>1. v = Columns
      BY <1>3, <2>5, <2>7
    <3>2. x = q /\ a = rest /\ y = 0 /\ b = 0
      BY <1>5, <2>4, <2>7, <3>1
    <3>3. n = n0
      BY <1>7, <2>2, <3>2 DEF BlockMove
    <3> QED BY <1>8, <2>1, <3>3
  <2>8. CASE z = 1
    <3>1. v = 0
      BY <1>3, <2>5, <2>8
    <3>2. x = 0 /\ a = 0 /\ y = 0 /\ b = 1
      BY <2>4, <2>8, <3>1
    <3>3. n = 16 * (x * across + y) + 4 * a + b
      BY <1>1, <2>2 DEF BlockMove
    <3>4. n = 1
      BY <1>3, <3>2, <3>3
    <3> QED BY <1>8, <2>1, <3>4
  <2>9. CASE z > 1
    <3>1. z * Columns >= 2 * Columns
      <4>1. PICK e \in Nat : z = 2 + e
        BY <2>5, <2>9
      <4>2. z * Columns = 2 * Columns + e * Columns /\ e * Columns \in Nat
        BY <1>3, <4>1
      <4> QED BY <1>3, <4>2
    <3> QED BY <1>3, <2>5, <3>1
  <2> QED BY <2>5, <2>7, <2>8, <2>9
<1>11. BlockRuin \in 0 .. BlockCount
  BY <1>8, BlockingMoves
<1> QED BY <1>8, <1>9, <1>10, <1>11 DEF SpoilsAs

\* Strips of 8 or 4 columns, of a square matrix that they divide.
LEMMA StripMoves ==
  ASSUME size \in Sizes, NEW w \in {4, 8},
         \/ size = <<32, 32>> /\ w = 8
         \/ size = <<64, 64>> /\ w = 4
  PROVE  \E count : FitsAs(TestTrans!Strips(w), count) /\ CoversAs(TestTrans!Strips(w), count)
<1>1. PICK rows, down : rows = w * TestTrans!Times(Rows, w) /\ down = w * TestTrans!Times(Columns, w)
  OBVIOUS
<1>2. /\ Rows = Columns /\ Rows \in {32, 64} /\ rows = Rows /\ down = Rows
      /\ TestTrans!Times(Columns, w) = Rows \div w /\ (Rows \div w) * w = Rows
  BY <1>1 DEF Rows, Columns, TestTrans!M, TestTrans!N, TestTrans!Times
<1>3. PICK count : count = rows * TestTrans!Times(Columns, w)
  OBVIOUS
<1>4. PICK strips : strips = Rows \div w
  OBVIOUS
<1>5. strips \in Nat /\ count = Rows * strips /\ count \in Nat /\ strips * w = Rows
  BY <1>2, <1>3, <1>4
<1>6. TestTrans!Strips(w) =
        [n \in 0 .. count - 1 |-> TestTrans!Move(n % rows, (n \div rows) * w, w)]
  BY <1>1, <1>3 DEF TestTrans!Strips, Rows, Columns
<1>7. ASSUME NEW n \in 0 .. count - 1
      PROVE  /\ TestTrans!Strips(w)[n] = [ii |-> n % Rows, jj |-> (n \div Rows) * w, width |-> w]
             /\ n % Rows \in 0 .. Rows - 1 /\ n \div Rows \in 0 .. strips - 1
  <2>1. TestTrans!Strips(w)[n] = [ii |-> n % Rows, jj |-> (n \div Rows) * w, width |-> w]
    BY <1>2, <1>6 DEF TestTrans!Move
  <2>2. Rows \in Nat \ {0} /\ n \in 0 .. Rows * strips - 1
    BY <1>2, <1>5
  <2>3. n % Rows \in 0 .. Rows - 1 /\ n \div Rows \in 0 .. strips - 1
    BY <1>5, <2>2, InTable
  <2> QED BY <2>1, <2>3
<1>8. ASSUME NEW n \in 0 .. count - 1
      PROVE  TestTrans!Strips(w)[n] \in AMove /\ TestTrans!Strips(w)[n].ii < Columns
  <2>1. PICK v, z : v = n % Rows /\ z = (n \div Rows) * w
    OBVIOUS
  <2>2. v \in 0 .. Rows - 1 /\ z \in Nat /\ w \in 1 .. 8
    BY <1>5, <1>7, <2>1
  <2>3. TestTrans!Strips(w)[n] = [ii |-> v, jj |-> z, width |-> w]
    BY <1>7, <2>1
  <2> QED BY <1>2, <2>2, <2>3 DEF AMove
<1>9. ASSUME NEW r \in 0 .. Rows - 1, NEW c \in 0 .. Columns - 1
      PROVE  \E n \in 0 .. count - 1 :
               /\ TestTrans!Strips(w)[n].ii = c
               /\ r - TestTrans!Strips(w)[n].jj \in 0 .. TestTrans!Strips(w)[n].width - 1
  <2>1. PICK x, d : x = r \div w /\ d = r % w
    OBVIOUS
  <2>2. x \in 0 .. strips - 1 /\ d \in 0 .. w - 1 /\ r = x * w + d
    BY <1>2, <1>4, <2>1
  <2>3. PICK n : n = x * Rows + c
    OBVIOUS
  <2>4. n \in 0 .. count - 1 /\ n \div Rows = x /\ n % Rows = c
    BY <1>2, <1>5, <2>2, <2>3, TablePlace
  <2>5. TestTrans!Strips(w)[n] = [ii |-> c, jj |-> x * w, width |-> w]
    BY <1>7, <2>4
  <2>6. r - x * w \in 0 .. w - 1
    BY <2>2
  <2> QED BY <2>4, <2>5, <2>6
<1>10. FitsAs(TestTrans!Strips(w), count)
  BY <1>5, <1>6, <1>8 DEF FitsAs
<1>11. CoversAs(TestTrans!Strips(w), count)
  BY <1>8, <1>9 DEF CoversAs
<1> QED BY <1>10, <1>11

(* transpose_64M reads row 4 from column 4 on, never the element below the *)
(* first one.                                                              *)
LEMMA SixtyFourMoves ==
  ASSUME size \in Sizes
  PROVE  \E count : /\ FitsAs(TestTrans!transpose_64M, count)
                    /\ SpoilsAs(TestTrans!transpose_64M, count, 4, 0)
<1>1. PICK down, across : down = TestTrans!Times(Rows, 8) /\ across = TestTrans!Times(Columns, 8)
  OBVIOUS
<1>2. /\ Rows \in Nat \ {0} /\ Columns \in Nat \ {0} /\ Columns > 4
      /\ down \in Nat \ {0} /\ across \in Nat \ {0}
  <2>1. Rows \in Nat \ {0} /\ Columns \in Nat \ {0} /\ Columns > 4
    BY SizeIs
  <2> QED BY <1>1, <2>1, TimesIs
<1>3. PICK blocks, count : blocks = down * across /\ count = 16 * down * across
  OBVIOUS
<1>4. blocks \in Nat /\ count = 16 * blocks /\ count \in Nat
  BY <1>2, <1>3
<1>5. TestTrans!transpose_64M =
        [n \in 0 .. count - 1 |->
           TestTrans!Move(8 * ((n \div 16) % down) + (n % 8),
                          IF n % 8 < 4 THEN 8 * ((n \div 16) \div down) + 4 * ((n \div 8) % 2)
                          ELSE 8 * ((n \div 16) \div down) + 4 * ((n \div 8) % 2) + 4, 4)]
  BY <1>1, <1>3 DEF TestTrans!transpose_64M, Rows, Columns
<1>6. ASSUME NEW n \in 0 .. count - 1
      PROVE  \E v \in Nat, z \in Nat : /\ TestTrans!transpose_64M[n] = [ii |-> v, jj |-> z, width |-> 4]
                                       /\ v = 4 => z >= 4
  <2>1. PICK m, row, half : m = n \div 16 /\ row = n % 8 /\ half = (n \div 8) % 2
    OBVIOUS
  <2>2. m \in 0 .. blocks - 1 /\ row \in 0 .. 7 /\ half \in 0 .. 1
    BY <1>4, <2>1
  <2>3. PICK x, y : x = m % down /\ y = m \div down
    OBVIOUS
  <2>4. x \in 0 .. down - 1 /\ y \in 0 .. across - 1
    BY <1>2, <1>3, <2>2, <2>3, InTable
  <2>5. PICK v, z : /\ v = 8 * x + row
                    /\ z = IF row < 4 THEN 8 * y + 4 * half ELSE 8 * y + 4 * half + 4
    OBVIOUS
  <2>6. TestTrans!transpose_64M[n] = [ii |-> v, jj |-> z, width |-> 4]
    BY <1>5, <2>1, <2>3, <2>5 DEF TestTrans!Move
  <2>7. v \in Nat /\ z \in Nat /\ (v = 4 => z >= 4)
    BY <1>2, <2>2, <2>4, <2>5
  <2> QED BY <2>6, <2>7
<1>7. FitsAs(TestTrans!transpose_64M, count)
  <2>1. ASSUME NEW n \in 0 .. count - 1 PROVE TestTrans!transpose_64M[n] \in AMove
    <3>1. PICK v \in Nat, z \in Nat : TestTrans!transpose_64M[n] = [ii |-> v, jj |-> z, width |-> 4]
      BY <1>6
    <3>2. 4 \in 1 .. 8
      OBVIOUS
    <3> QED BY <3>1, <3>2 DEF AMove
  <2>2. DOMAIN TestTrans!transpose_64M = 0 .. count - 1
    BY <1>5
  <2> QED BY <1>4, <2>1, <2>2 DEF FitsAs
<1>8. ASSUME NEW n \in 0 .. count - 1, NEW d \in 0 .. TestTrans!transpose_64M[n].width - 1
      PROVE  TestTrans!ElementOfB(TestTrans!transpose_64M[n], d) # 4
  <2>1. PICK v \in Nat, z \in Nat :
          /\ TestTrans!transpose_64M[n] = [ii |-> v, jj |-> z, width |-> 4]
          /\ v = 4 => z >= 4
    BY <1>6
  <2>2. d \in 0 .. 3
    BY <2>1
  <2>3. PICK e : e = z + d
    OBVIOUS
  <2>4. TestTrans!ElementOfB(TestTrans!transpose_64M[n], d) = e * Columns + v
    BY <2>1, <2>3 DEF TestTrans!ElementOfB, Columns
  <2>5. e \in Nat /\ (v = 4 => e > 0)
    BY <2>1, <2>2, <2>3
  <2>6. e * Columns + v # 4
    <3>1. CASE e = 0
      BY <1>2, <2>5, <3>1
    <3>2. CASE e > 0
      <4>1. PICK y \in Nat : e = 1 + y
        BY <2>5, <3>2
      <4>2. e * Columns = Columns + y * Columns /\ y * Columns \in Nat
        BY <1>2, <4>1
      <4> QED BY <1>2, <4>2
    <3> QED BY <2>5, <3>1, <3>2
  <2> QED BY <2>4, <2>6
<1>9. SpoilsAs(TestTrans!transpose_64M, count, 4, 0)
  <2>1. 0 \in 0 .. count /\ ~ (0 > 0)
    BY <1>4
  <2> QED BY <1>8, <2>1 DEF SpoilsAs
<1> QED BY <1>7, <1>9

\* What Right says of a list of moves.
MovesHelp(count) ==
  /\ Right(i) => CoversAs(TestTrans!Moves, count)
  /\ ~ Right(i) => SpoilsAs(TestTrans!Moves, count, Gap, Ruin)

LEMMA NothingMoves ==
  ASSUME NEW gap
  PROVE  FitsAs(TestTrans!Nothing, 0) /\ SpoilsAs(TestTrans!Nothing, 0, gap, 0)
<1>1. DOMAIN TestTrans!Nothing = {} /\ 0 .. 0 - 1 = {} /\ 0 \in 0 .. 0 /\ ~ (0 > 0)
  BY DEF TestTrans!Nothing
<1> QED BY <1>1 DEF FitsAs, SpoilsAs

LEMMA SubmitMoves ==
  ASSUME size \in Sizes, i = 1
  PROVE  \E count : FitsAs(TestTrans!transpose_submit, count) /\
           /\ Right(i) => CoversAs(TestTrans!transpose_submit, count)
           /\ ~ Right(i) => SpoilsAs(TestTrans!transpose_submit, count, Gap, Ruin)
<1>1. Right(i) <=> size \in {<<32, 32>>, <<64, 64>>, <<61, 67>>}
  BY DEF Right
<1>2. Gap = 0 /\ Ruin = 0
  BY DEF Gap, Ruin
<1>3. <<32, 32>> # <<64, 64>> /\ <<32, 32>> # <<61, 67>> /\ <<64, 64>> # <<61, 67>>
  OBVIOUS
<1>4. CASE size = <<32, 32>>
  <2>1. TestTrans!transpose_submit = TestTrans!Strips(8)
    BY <1>3, <1>4 DEF TestTrans!transpose_submit
  <2>2. PICK count : FitsAs(TestTrans!Strips(8), count) /\ CoversAs(TestTrans!Strips(8), count)
    BY <1>4, StripMoves
  <2> QED BY <1>1, <1>4, <2>1, <2>2
<1>5. CASE size = <<64, 64>>
  <2>1. TestTrans!transpose_submit = TestTrans!Strips(4)
    BY <1>3, <1>5 DEF TestTrans!transpose_submit
  <2>2. PICK count : FitsAs(TestTrans!Strips(4), count) /\ CoversAs(TestTrans!Strips(4), count)
    BY <1>5, StripMoves
  <2> QED BY <1>1, <1>5, <2>1, <2>2
<1>6. CASE size = <<61, 67>>
  <2>1. TestTrans!transpose_submit = TestTrans!trans
    BY <1>3, <1>6 DEF TestTrans!transpose_submit
  <2> QED BY <1>1, <1>6, <2>1, TransMoves
<1>7. CASE size \notin {<<32, 32>>, <<64, 64>>, <<61, 67>>}
  <2>1. TestTrans!transpose_submit = TestTrans!Nothing
    BY <1>7 DEF TestTrans!transpose_submit
  <2> QED BY <1>1, <1>2, <1>7, <2>1, NothingMoves
<1> QED BY <1>4, <1>5, <1>6, <1>7

\* The moves of every registered function.
LEMMA MovesAreFit == Evaluating => MovesFit /\ MovesHelp(Count)
<1> SUFFICES ASSUME Evaluating PROVE MovesFit /\ MovesHelp(Count)
  OBVIOUS
<1>1. size \in Sizes /\ i \in 1 .. 4
  BY DEF Evaluating
<1>2. \E count : FitsAs(TestTrans!Moves, count) /\ MovesHelp(count)
  <2>1. CASE i = 1
    <3>1. TestTrans!Moves = TestTrans!transpose_submit
      BY <1>1, <2>1, MovesAre
    <3> QED BY <1>1, <2>1, <3>1, SubmitMoves DEF MovesHelp
  <2>2. CASE i = 2
    <3>1. TestTrans!Moves = TestTrans!trans /\ Right(i)
      BY <1>1, <2>2, MovesAre DEF Right
    <3> QED BY <1>1, <3>1, TransMoves DEF MovesHelp
  <2>3. CASE i = 3
    <3>1. TestTrans!Moves = TestTrans!transpose_blocking
      BY <1>1, <2>3, MovesAre
    <3>2. Right(i) <=> Columns % 4 = 0
      BY <2>3 DEF Right
    <3>3. Gap = Columns /\ Ruin = BlockRuin
      BY <2>3 DEF Gap, Ruin, BlockRuin
    <3> QED BY <1>1, <3>1, <3>2, <3>3, BlockingFits, BlockingSpoils DEF MovesHelp
  <2>4. CASE i = 4
    <3>1. TestTrans!Moves = TestTrans!transpose_64M
      BY <1>1, <2>4, MovesAre
    <3>2. ~ Right(i) /\ Gap = 4 /\ Ruin = 0
      BY <2>4 DEF Right, Gap, Ruin
    <3> QED BY <1>1, <3>1, <3>2, SixtyFourMoves DEF MovesHelp
  <2> QED BY <1>1, <2>1, <2>2, <2>3, <2>4
<1>3. PICK count : FitsAs(TestTrans!Moves, count) /\ MovesHelp(count)
  BY <1>2
<1>4. Count = count
  BY <1>3, CountTo DEF FitsAs, Count
<1> QED BY <1>3, <1>4 DEF FitsAs, MovesFit

\* One move writes its elements into one column.
LEMMA MovedElement ==
  ASSUME size \in Sizes, NEW b \in Matrix, NEW move \in AMove,
         NEW r \in 0 .. Rows - 1, NEW c \in 0 .. Columns - 1
  PROVE  LET first == TestTrans!ElementOfB(move, 0) \div Columns
         IN  /\ TestTrans!Moved(b, move)[r][c] =
                  IF r - first \in 0 .. move.width - 1 /\ c = TestTrans!ElementOfB(move, 0) % Columns
                  THEN TestTrans!Value(move, r - first) ELSE b[r][c]
             /\ TestTrans!Moved(b, move) \in Matrix
<1>1. Rows \in Nat \ {0} /\ Columns \in Nat \ {0}
  BY SizeIs
<1>2. PICK e : e = TestTrans!ElementOfB(move, 0)
  OBVIOUS
<1>3. PICK first, column : first = e \div Columns /\ column = e % Columns
  OBVIOUS
<1>4. PICK ii \in Nat, jj \in Nat, width \in 1 .. 8 : move = [ii |-> ii, jj |-> jj, width |-> width]
  BY DEF AMove
<1>5. e \in Nat
  <2>1. e = (jj + 0) * Columns + ii
    BY <1>2, <1>4 DEF TestTrans!ElementOfB, Columns
  <2> QED BY <1>1, <1>4, <2>1
<1>6. first \in Int /\ column \in 0 .. Columns - 1
  BY <1>1, <1>3, <1>5, ModParts
<1>7. \A d \in Int : TestTrans!Value(move, d) \in Int
  <2> SUFFICES ASSUME NEW d \in Int PROVE TestTrans!Value(move, d) \in Int
    OBVIOUS
  <2>1. TestTrans!ElementOfA(move, d) = ii * Rows + jj + d
    BY <1>4 DEF TestTrans!ElementOfA, Rows
  <2>2. ii * Rows + jj + d \in Int
    BY <1>1
  <2> QED BY <2>1, <2>2 DEF TestTrans!Value, TestTrans!Other
<1>8. TestTrans!Moved(b, move) =
        [q \in 0 .. Rows - 1 |->
           IF q - first \in 0 .. width - 1
           THEN [b[q] EXCEPT ![column] = TestTrans!Value(move, q - first)]
           ELSE b[q]]
  <2>1. DOMAIN b = 0 .. Rows - 1
    BY DEF Matrix
  <2> QED BY <1>2, <1>3, <1>4, <2>1 DEF TestTrans!Moved, Columns
<1>9. ASSUME NEW q \in 0 .. Rows - 1
      PROVE  /\ TestTrans!Moved(b, move)[q] \in [0 .. Columns - 1 -> Int]
             /\ \A z \in 0 .. Columns - 1 : TestTrans!Moved(b, move)[q][z] =
                  IF q - first \in 0 .. width - 1 /\ z = column
                  THEN TestTrans!Value(move, q - first) ELSE b[q][z]
  <2>1. b[q] \in [0 .. Columns - 1 -> Int]
    BY DEF Matrix
  <2>2. PICK value : value = TestTrans!Value(move, q - first)
    OBVIOUS
  <2>3. q - first \in Int
    BY <1>6
  <2>4. value \in Int
    BY <1>7, <2>2, <2>3
  <2>5. TestTrans!Moved(b, move)[q] =
          IF q - first \in 0 .. width - 1 THEN [b[q] EXCEPT ![column] = value] ELSE b[q]
    BY <1>8, <2>2
  <2> QED BY <1>6, <2>1, <2>2, <2>4, <2>5
<1>10. TestTrans!Moved(b, move) \in Matrix
  BY <1>8, <1>9 DEF Matrix
<1>11. move.width = width
  BY <1>4
<1> QED BY <1>2, <1>3, <1>9, <1>10, <1>11

LEMMA GapIs ==
  ASSUME Evaluating
  PROVE  /\ Gap \div Columns \in 0 .. Rows - 1 /\ Gap % Columns \in 0 .. Columns - 1
         /\ Gap = (Gap \div Columns) * Columns + (Gap % Columns) /\ Gap \in Nat
         /\ Ruin \in Nat
         /\ Ruin > 0 => Gap = Columns /\ Gap \div Columns = 1 /\ Gap % Columns = 0
<1>1. Rows \in Nat \ {0, 1} /\ Columns \in Nat \ (0 .. 4)
  BY SizeIs DEF Evaluating
<1>2. i \in 1 .. 4
  BY DEF Evaluating
<1>3. CASE i = 3
  <2>1. Gap = Columns
    BY <1>3 DEF Gap
  <2>2. Columns = 1 * Columns + 0 /\ 1 \in 0 .. 2 - 1 /\ 0 \in 0 .. Columns - 1
    BY <1>1
  <2>3. (1 * Columns + 0) \div Columns = 1 /\ (1 * Columns + 0) % Columns = 0
    BY <1>1, <2>2, TablePlace
  <2>4. Columns \div Columns = 1 /\ Columns % Columns = 0
    BY <2>2, <2>3
  <2>5. Ruin \in Nat
    <3>1. PICK q, across : q = Columns \div 4 /\ across = TestTrans!Times(Rows, 4)
      OBVIOUS
    <3>2. q \in Nat /\ across \in Nat /\ Columns % 4 \in Nat
      BY <1>1, <3>1, TimesIs
    <3>3. q * across \in Nat
      BY <3>2
    <3>4. Ruin = 16 * (q * across) + 4 * (Columns % 4) + 1
      BY <1>3, <3>1 DEF Ruin
    <3> QED BY <3>2, <3>3, <3>4
  <2> QED BY <1>1, <2>1, <2>4, <2>5
<1>4. CASE i # 3
  <2>1. Gap \in {0, 4} /\ Ruin = 0
    BY <1>2, <1>4 DEF Gap, Ruin
  <2>2. Gap = 0 * Columns + Gap /\ 0 \in 0 .. 1 - 1 /\ Gap \in 0 .. Columns - 1
    BY <1>1, <2>1
  <2>3. (0 * Columns + Gap) \div Columns = 0 /\ (0 * Columns + Gap) % Columns = Gap
    BY <1>1, <2>2, TablePlace
  <2>4. Gap \div Columns = 0 /\ Gap % Columns = Gap
    BY <2>2, <2>3
  <2> QED BY <1>1, <2>1, <2>4
<1> QED BY <1>3, <1>4

\* What is written has the number of the place.
LEMMA WrittenPlace ==
  ASSUME Evaluating, NEW move \in AMove, NEW r \in 0 .. Rows - 1, NEW c \in 0 .. Columns - 1,
         r - (TestTrans!ElementOfB(move, 0) \div Columns) \in 0 .. move.width - 1,
         c = TestTrans!ElementOfB(move, 0) % Columns
  PROVE  \E d \in 0 .. move.width - 1 : TestTrans!ElementOfB(move, d) = r * Columns + c
<1>1. Rows \in Nat \ {0} /\ Columns \in Nat \ {0}
  BY SizeIs DEF Evaluating
<1>2. PICK ii \in Nat, jj \in Nat, width \in 1 .. 8 : move = [ii |-> ii, jj |-> jj, width |-> width]
  BY DEF AMove
<1>3. PICK e : e = TestTrans!ElementOfB(move, 0)
  OBVIOUS
<1>4. e = jj * Columns + ii /\ e \in Nat /\ jj * Columns \in Nat
  <2>1. e = (jj + 0) * Columns + ii
    BY <1>2, <1>3 DEF TestTrans!ElementOfB, Columns
  <2>2. jj + 0 = jj
    OBVIOUS
  <2> QED BY <1>1, <2>1, <2>2
<1>5. PICK first : first = e \div Columns
  OBVIOUS
<1>6. e = first * Columns + c /\ first \in Int
  <2>1. c = e % Columns
    BY <1>3
  <2>2. e = (e \div Columns) * Columns + (e % Columns) /\ e \div Columns \in Int
    BY <1>1, <1>4, ModParts
  <2> QED BY <1>5, <2>1, <2>2
<1>7. PICK d : d = r - first
  OBVIOUS
<1>8. d \in 0 .. move.width - 1 /\ r = first + d /\ d \in Int
  BY <1>2, <1>3, <1>5, <1>6, <1>7
<1>9. TestTrans!ElementOfB(move, d) = (jj + d) * Columns + ii
  BY <1>2 DEF TestTrans!ElementOfB, Columns
<1>10. (jj + d) * Columns = jj * Columns + d * Columns /\ r * Columns = first * Columns + d * Columns
  BY <1>1, <1>6, <1>8
<1>11. d * Columns \in Int /\ first * Columns \in Int
  BY <1>1, <1>6, <1>8
<1>12. TestTrans!ElementOfB(move, d) = r * Columns + c
  BY <1>1, <1>4, <1>6, <1>9, <1>10, <1>11
<1> QED BY <1>8, <1>12

\* A move that stays in the rows of B writes the transposed element.
LEMMA StraightMove ==
  ASSUME Evaluating, NEW b \in Matrix, NEW move \in AMove, move.ii < Columns,
         NEW r \in 0 .. Rows - 1, NEW c \in 0 .. Columns - 1
  PROVE  TestTrans!Moved(b, move)[r][c] =
           IF r - move.jj \in 0 .. move.width - 1 /\ c = move.ii THEN c * Rows + r ELSE b[r][c]
<1>1. Rows \in Nat \ {0} /\ Columns \in Nat \ {0} /\ size \in Sizes
  BY SizeIs DEF Evaluating
<1>2. PICK ii \in Nat, jj \in Nat, width \in 1 .. 8 : move = [ii |-> ii, jj |-> jj, width |-> width]
  BY DEF AMove
<1>3. TestTrans!ElementOfB(move, 0) = jj * Columns + ii
  <2>1. TestTrans!ElementOfB(move, 0) = (jj + 0) * Columns + ii
    BY <1>2 DEF TestTrans!ElementOfB, Columns
  <2>2. jj + 0 = jj
    OBVIOUS
  <2> QED BY <2>1, <2>2
<1>4. (jj * Columns + ii) \div Columns = jj /\ (jj * Columns + ii) % Columns = ii
  <2>1. jj + 1 \in Nat /\ jj \in 0 .. (jj + 1) - 1 /\ ii \in 0 .. Columns - 1
    BY <1>1, <1>2
  <2> QED BY <1>1, <2>1, TablePlace
<1>5. TestTrans!Moved(b, move)[r][c] =
        IF r - jj \in 0 .. width - 1 /\ c = ii THEN TestTrans!Value(move, r - jj) ELSE b[r][c]
  <2>1. move.width = width
    BY <1>2
  <2> QED BY <1>1, <1>3, <1>4, <2>1, MovedElement
<1>6. ASSUME c = ii PROVE TestTrans!Value(move, r - jj) = c * Rows + r
  <2>1. TestTrans!ElementOfA(move, r - jj) = c * Rows + jj + (r - jj)
    BY <1>2, <1>6 DEF TestTrans!ElementOfA, Rows
  <2>2. c * Rows \in Int /\ r \in Int
    BY <1>1
  <2>3. TestTrans!ElementOfA(move, r - jj) = c * Rows + r
    BY <1>2, <2>1, <2>2
  <2>4. c * Rows + r < Rows * Columns
    <3>1. c * Rows + r \in 0 .. Rows * Columns - 1
      BY <1>1, TablePlace
    <3>2. Rows * Columns \in Nat
      BY <1>1
    <3> QED BY <3>1, <3>2
  <2> QED BY <2>3, <2>4 DEF TestTrans!Value, Rows, Columns
<1>7. move.ii = ii /\ move.jj = jj /\ move.width = width
  BY <1>2
<1> QED BY <1>5, <1>6, <1>7

LEMMA CountIsNat == Evaluating => Count \in Nat
BY MovesAreFit DEF MovesFit

LEMMA ProgressStart ==
  Evaluating => TestTrans!NewMatrix \in Matrix /\ Progress(0, TestTrans!NewMatrix)
<1> SUFFICES ASSUME Evaluating
             PROVE  TestTrans!NewMatrix \in Matrix /\ Progress(0, TestTrans!NewMatrix)
  OBVIOUS
<1>1. TestTrans!NewMatrix = [r \in 0 .. Rows - 1 |-> [c \in 0 .. Columns - 1 |-> TestTrans!Other]]
  BY DEF TestTrans!NewMatrix, Rows, Columns
<1>2. TestTrans!NewMatrix \in Matrix
  BY <1>1 DEF Matrix, TestTrans!Other
<1>3. Spoiled(TestTrans!NewMatrix)
  BY <1>1, GapIs DEF Spoiled
<1>4. 0 .. 0 - 1 = {}
  OBVIOUS
<1> QED BY <1>2, <1>3, <1>4 DEF Progress

LEMMA ProgressStep ==
  ASSUME Evaluating, NEW b \in Matrix, NEW n \in 0 .. Count - 1, Progress(n, b)
  PROVE  /\ TestTrans!Moved(b, TestTrans!Moves[n]) \in Matrix
         /\ Progress(n + 1, TestTrans!Moved(b, TestTrans!Moves[n]))
<1>1. MovesFit /\ MovesHelp(Count)
  BY MovesAreFit
<1>2. Rows \in Nat \ {0, 1} /\ Columns \in Nat \ {0} /\ size \in Sizes
  BY SizeIs DEF Evaluating
<1>3. PICK move : move = TestTrans!Moves[n]
  OBVIOUS
<1>4. PICK new : new = TestTrans!Moved(b, move)
  OBVIOUS
<1>5. Count \in Nat /\ move \in AMove
  BY <1>1, <1>3 DEF MovesFit
<1>6. new \in Matrix
  <2>1. 0 \in 0 .. Rows - 1 /\ 0 \in 0 .. Columns - 1
    BY <1>2
  <2> QED BY <1>2, <1>4, <1>5, <2>1, MovedElement
<1>7. ASSUME Right(i), NEW m \in 0 .. n, NEW r \in 0 .. Rows - 1,
             r - TestTrans!Moves[m].jj \in 0 .. TestTrans!Moves[m].width - 1
      PROVE  new[r][TestTrans!Moves[m].ii] = TestTrans!Moves[m].ii * Rows + r
  <2>1. \A z \in 0 .. Count - 1 : TestTrans!Moves[z] \in AMove /\ TestTrans!Moves[z].ii < Columns
    BY <1>1, <1>7 DEF MovesFit, MovesHelp, CoversAs
  <2>2. PICK c : c = TestTrans!Moves[m].ii
    OBVIOUS
  <2>3. c \in 0 .. Columns - 1
    <3>1. m \in 0 .. Count - 1
      BY <1>5
    <3>2. TestTrans!Moves[m].ii \in Nat
      BY <2>1, <3>1 DEF AMove
    <3> QED BY <1>2, <2>1, <2>2, <3>1, <3>2
  <2>4. new[r][c] = IF r - move.jj \in 0 .. move.width - 1 /\ c = move.ii THEN c * Rows + r ELSE b[r][c]
    BY <1>3, <1>4, <1>5, <2>1, <2>3, StraightMove
  <2>5. CASE m = n
    BY <1>3, <1>7, <2>2, <2>4, <2>5
  <2>6. CASE m # n
    <3>1. m \in 0 .. n - 1
      BY <1>5, <2>6
    <3>2. b[r][c] = c * Rows + r
      BY <1>7, <2>2, <3>1 DEF Progress
    <3> QED BY <2>2, <2>4, <3>2
  <2> QED BY <2>5, <2>6
<1>8. ASSUME ~ Right(i), Ruin <= n + 1 PROVE Spoiled(new)
  <2>1. SpoilsAs(TestTrans!Moves, Count, Gap, Ruin)
    BY <1>1, <1>8 DEF MovesHelp
  <2>2. PICK r, c : r = Gap \div Columns /\ c = Gap % Columns
    OBVIOUS
  <2>3. r \in 0 .. Rows - 1 /\ c \in 0 .. Columns - 1 /\ Gap = r * Columns + c /\ Ruin \in Nat
    BY <2>2, GapIs
  <2>4. PICK e, first : e = TestTrans!ElementOfB(move, 0) /\ first = e \div Columns
    OBVIOUS
  <2>5. new[r][c] = IF r - first \in 0 .. move.width - 1 /\ c = e % Columns
                    THEN TestTrans!Value(move, r - first) ELSE b[r][c]
    BY <1>2, <1>4, <1>5, <2>3, <2>4, MovedElement
  <2>6. CASE Ruin <= n
    <3>1. b[r][c] = TestTrans!Other
      BY <1>8, <2>2, <2>6 DEF Progress, Spoiled
    <3>2. ~ (r - first \in 0 .. move.width - 1 /\ c = e % Columns)
      <4> SUFFICES ASSUME r - first \in 0 .. move.width - 1, c = e % Columns PROVE FALSE
        OBVIOUS
      <4>1. PICK d \in 0 .. move.width - 1 : TestTrans!ElementOfB(move, d) = r * Columns + c
        BY <1>5, <2>3, <2>4, WrittenPlace
      <4>2. n \in Ruin .. Count - 1
        BY <1>5, <2>3, <2>6
      <4> QED BY <1>3, <2>1, <2>3, <4>1, <4>2 DEF SpoilsAs
    <3> QED BY <2>2, <2>5, <3>1, <3>2 DEF Spoiled
  <2>7. CASE Ruin = n + 1
    <3>1. Ruin > 0 /\ Ruin - 1 = n
      BY <1>5, <2>7
    <3>2. Gap = Columns /\ r = 1 /\ c = 0
      BY <2>2, <3>1, GapIs
    <3>3. move = [ii |-> Columns, jj |-> 0, width |-> 1]
      BY <1>3, <2>1, <3>1 DEF SpoilsAs, TestTrans!Move
    <3>4. e = Columns
      <4>1. e = (0 + 0) * Columns + Columns
        BY <2>4, <3>3 DEF TestTrans!ElementOfB, Columns
      <4> QED BY <1>2, <4>1
    <3>5. first = 1 /\ e % Columns = 0
      <4>1. Columns \div Columns = 1 /\ Columns % Columns = 0
        BY <2>2, <3>1, <3>2
      <4> QED BY <2>4, <3>4, <4>1
    <3>6. r - first = 0 /\ 0 \in 0 .. move.width - 1
      BY <3>2, <3>3, <3>5
    <3>7. TestTrans!Value(move, 0) = TestTrans!Other
      <4>1. TestTrans!ElementOfA(move, 0) = Columns * Rows + 0 + 0
        BY <3>3 DEF TestTrans!ElementOfA, Rows
      <4>2. Columns * Rows + 0 + 0 = Rows * Columns /\ Rows * Columns \in Nat
        BY <1>2
      <4>3. ~ (TestTrans!ElementOfA(move, 0) < Rows * Columns)
        BY <4>1, <4>2
      <4> QED BY <4>3 DEF TestTrans!Value, Rows, Columns
    <3> QED BY <2>2, <2>5, <3>2, <3>5, <3>6, <3>7 DEF Spoiled
  <2>8. Ruin <= n \/ Ruin = n + 1
    BY <1>5, <1>8, <2>3
  <2> QED BY <2>6, <2>7, <2>8
<1>9. Progress(n + 1, new)
  <2>1. (n + 1) - 1 = n
    BY <1>5
  <2> QED BY <1>7, <1>8, <2>1 DEF Progress
<1> QED BY <1>3, <1>4, <1>6, <1>9

\* validate tells a transpose from another function.
LEMMA Verdict ==
  ASSUME Evaluating, B \in Matrix, Progress(Count, B)
  PROVE  TestTrans!validate <=> Right(i)
<1>1. MovesFit /\ MovesHelp(Count)
  BY MovesAreFit
<1>2. Rows \in Nat \ {0, 1} /\ Columns \in Nat \ {0}
  BY SizeIs DEF Evaluating
<1>3. DOMAIN B = 0 .. Rows - 1 /\ \A r \in 0 .. Rows - 1 : B[r] \in [0 .. Columns - 1 -> Int]
  BY DEF Matrix
<1>4. TestTrans!validate <=> \A r \in DOMAIN B : B[r] = [c \in 0 .. Columns - 1 |-> c * Rows + r]
  BY DEF TestTrans!validate, Rows, Columns
<1>5. ASSUME Right(i) PROVE TestTrans!validate
  <2> SUFFICES ASSUME NEW r \in 0 .. Rows - 1, NEW c \in 0 .. Columns - 1
               PROVE  B[r][c] = c * Rows + r
    BY <1>3, <1>4
  <2>1. CoversAs(TestTrans!Moves, Count)
    BY <1>1, <1>5 DEF MovesHelp
  <2>2. PICK n \in 0 .. Count - 1 :
          /\ TestTrans!Moves[n].ii = c
          /\ r - TestTrans!Moves[n].jj \in 0 .. TestTrans!Moves[n].width - 1
    BY <2>1 DEF CoversAs
  <2> QED BY <1>5, <2>2 DEF Progress
<1>6. ASSUME ~ Right(i) PROVE ~ TestTrans!validate
  <2>1. Ruin <= Count
    <3>1. Ruin \in 0 .. Count /\ Count \in Nat
      BY <1>1, <1>6 DEF MovesHelp, SpoilsAs, MovesFit
    <3> QED BY <3>1
  <2>2. PICK r, c : r = Gap \div Columns /\ c = Gap % Columns
    OBVIOUS
  <2>3. r \in 0 .. Rows - 1 /\ c \in 0 .. Columns - 1
    BY <2>2, GapIs
  <2>4. B[r][c] = -1
    BY <1>6, <2>1, <2>2 DEF Progress, Spoiled, TestTrans!Other
  <2>5. c * Rows + r \in Nat
    <3>1. c * Rows \in Nat
      BY <1>2, <2>3
    <3> QED BY <1>2, <2>3, <3>1
  <2>6. ASSUME B[r] = [z \in 0 .. Columns - 1 |-> z * Rows + r] PROVE FALSE
    BY <2>3, <2>4, <2>5, <2>6
  <2> QED BY <1>3, <1>4, <2>3, <2>6
<1> QED BY <1>5, <1>6

LEMMA SameMoves ==
  ASSUME size' = size, i' = i
  PROVE  /\ Rows' = Rows /\ Columns' = Columns /\ TestTrans!Moves' = TestTrans!Moves
         /\ Count' = Count /\ Matrix' = Matrix
<1>1. Rows' = Rows /\ Columns' = Columns
  BY DEF Rows, Columns, TestTrans!M, TestTrans!N
<1>2. TestTrans!Moves' = TestTrans!Moves
  BY DEF TestTrans!Moves, TestTrans!transpose_submit, TestTrans!trans, TestTrans!transpose_blocking,
         TestTrans!transpose_64M, TestTrans!Nothing, TestTrans!Strips, TestTrans!Times,
         TestTrans!Move, TestTrans!M, TestTrans!N, TestTrans!registerFunctions
<1>3. Count' = Count
  BY <1>2 DEF Count
<1>4. Matrix' = Matrix
  BY <1>1 DEF Matrix
<1> QED BY <1>1, <1>2, <1>3, <1>4

LEMMA SameProgress ==
  ASSUME size' = size, i' = i, NEW n, n = k', NEW b, b = B', Progress(n, b)
  PROVE  Progress(k, B)'
<1>1. /\ Rows' = Rows /\ Columns' = Columns /\ TestTrans!Moves' = TestTrans!Moves
  BY SameMoves
<1>2. Gap' = Gap /\ Ruin' = Ruin
  BY <1>1 DEF Gap, Ruin, TestTrans!Times
<1>3. Right(i)' <=> Right(i)
  BY <1>1 DEF Right
<1>4. Spoiled(B)' <=> Spoiled(b)
  BY <1>1, <1>2 DEF Spoiled, TestTrans!Other
<1> QED BY <1>1, <1>2, <1>3, <1>4 DEF Progress

\* The matrices that a batch of moves goes through.
Batch(f, from, upto, b) ==
  f = [n \in from .. upto |->
         IF n = from THEN b ELSE TestTrans!Moved(f[n - 1], TestTrans!Moves[n - 1])]

LEMMA BatchExists ==
  ASSUME NEW from \in Nat, NEW upto \in Nat, from <= upto, NEW b
  PROVE  \E f : Batch(f, from, upto, b)
<1> DEFINE Next1(g, n) == IF n = from THEN b
                          ELSE TestTrans!Moved(g[n - 1], TestTrans!Moves[n - 1])
           Done1(g, m) == g = [n \in from .. m |-> Next1(g, n)]
           Bad == {m \in from .. upto : ~ \E g : Done1(g, m)}
<1>1. Bad = {}
  <2> SUFFICES ASSUME Bad # {} PROVE FALSE
    OBVIOUS
  <2>1. PICK m \in Bad : \A l \in Bad : m <= l
    <3>1. Bad \in SUBSET Nat
      OBVIOUS
    <3> HIDE DEF Bad
    <3> QED BY <3>1, LeastNat
  <2>2. m \in from .. upto /\ ~ \E g : Done1(g, m)
    OBVIOUS
  <2>3. CASE m = from
    <3> DEFINE g == [n \in from .. from |-> b]
    <3>1. Done1(g, from)
      <4>1. \A n \in from .. from : n = from
        OBVIOUS
      <4> QED BY <4>1
    <3> QED BY <2>2, <2>3, <3>1
  <2>4. CASE m # from
    <3>1. m - 1 \in from .. upto /\ ~ (m <= m - 1) /\ m \in Nat
      BY <2>2, <2>4
    <3>2. PICK g : Done1(g, m - 1)
      <4>1. m - 1 \notin Bad
        <5> HIDE DEF Bad
        <5> QED BY <2>1, <3>1
      <4> QED BY <3>1, <4>1
    <3> DEFINE h == [n \in from .. m |-> IF n = m THEN Next1(g, m) ELSE g[n]]
    <3>3. \A n \in from .. m - 1 : g[n] = Next1(g, n)
      BY <3>2
    <3>4. ASSUME NEW n \in from .. m PROVE h[n] = Next1(h, n)
      <4>1. CASE n = from
        <5>1. n \in from .. m - 1 /\ n # m
          BY <2>2, <2>4, <4>1
        <5> QED BY <3>3, <4>1, <5>1
      <4>2. CASE n # from
        <5>1. n - 1 \in from .. m /\ n - 1 # m
          BY <3>1, <4>2
        <5>2. h[n - 1] = g[n - 1]
          BY <5>1
        <5>3. Next1(h, n) = Next1(g, n)
          BY <4>2, <5>2
        <5>4. h[n] = Next1(g, n)
          <6>1. CASE n = m
            BY <6>1
          <6>2. CASE n # m
            <7>1. n \in from .. m - 1
              BY <3>1, <6>2
            <7> QED BY <3>3, <6>2, <7>1
          <6> QED BY <6>1, <6>2
        <5> QED BY <5>3, <5>4
      <4> QED BY <4>1, <4>2
    <3>5. Done1(h, m)
      <4> HIDE DEF Next1
      <4> QED BY <3>4
    <3> QED BY <2>2, <3>5
  <2> QED BY <2>3, <2>4
<1>2. upto \in from .. upto
  OBVIOUS
<1>3. \E g : Done1(g, upto)
  BY <1>1, <1>2
<1> QED BY <1>3 DEF Batch

LEMMA BatchProgress ==
  ASSUME Evaluating, NEW from \in 0 .. Count, NEW upto \in 0 .. Count, from <= upto,
         NEW b \in Matrix, Progress(from, b), NEW f, Batch(f, from, upto, b)
  PROVE  f[upto] \in Matrix /\ Progress(upto, f[upto])
<1> DEFINE OK(n) == f[n] \in Matrix /\ Progress(n, f[n])
           Bad == {n \in from .. upto : ~ OK(n)}
<1>1. Count \in Nat /\ from \in Nat /\ upto \in Nat
  BY MovesAreFit DEF MovesFit
<1>2. \A n \in from .. upto :
        f[n] = IF n = from THEN b ELSE TestTrans!Moved(f[n - 1], TestTrans!Moves[n - 1])
  BY DEF Batch
<1>3. Bad = {}
  <2> SUFFICES ASSUME Bad # {} PROVE FALSE
    OBVIOUS
  <2>1. PICK n \in Bad : \A l \in Bad : n <= l
    <3>1. Bad \in SUBSET Nat
      BY <1>1
    <3> HIDE DEF Bad
    <3> QED BY <3>1, LeastNat
  <2>2. n \in from .. upto /\ ~ OK(n)
    OBVIOUS
  <2>3. n # from
    BY <1>1, <1>2, <2>2
  <2>4. n - 1 \in from .. upto /\ ~ (n <= n - 1) /\ n - 1 \in 0 .. Count - 1 /\ (n - 1) + 1 = n
    BY <1>1, <2>2, <2>3
  <2>5. OK(n - 1)
    <3>1. n - 1 \notin Bad
      <4> HIDE DEF Bad, OK
      <4> QED BY <2>1, <2>4
    <3> HIDE DEF OK
    <3> QED BY <2>4, <3>1
  <2>6. f[n] = TestTrans!Moved(f[n - 1], TestTrans!Moves[n - 1])
    BY <1>2, <2>2, <2>3
  <2>7. PICK m, c : m = n - 1 /\ c = f[n - 1]
    OBVIOUS
  <2>8. TestTrans!Moved(c, TestTrans!Moves[m]) \in Matrix /\ Progress(m + 1, TestTrans!Moved(c, TestTrans!Moves[m]))
    BY <2>4, <2>5, <2>7, ProgressStep
  <2>9. OK(n)
    BY <2>4, <2>6, <2>7, <2>8
  <2> QED BY <2>2, <2>9
<1>4. upto \in from .. upto
  BY <1>1
<1> QED BY <1>3, <1>4

\* The functions that have been evaluated.
Decided(f) == f < i \/ (f = i /\ pc # "tracegen")

TransInv ==
  /\ Evaluating
  /\ pc \in {"tracegen", "csim", "collect", "done", "abort"}
  /\ pc = "done" => i = 4
  /\ func_list = [f \in 1 .. 4 |-> func_list[f]]
  /\ \A f \in 1 .. 4 :
       func_list[f] = [correct |-> IF Decided(f) /\ Right(f) THEN 1 ELSE 0,
                       num_misses |-> func_list[f].num_misses]
  /\ pc = "tracegen" => B \in Matrix /\ k \in 0 .. Count /\ Progress(k, B)

LEMMA FuncsAre == TestTrans!Funcs = 1 .. 4 /\ Len(TestTrans!registerFunctions) = 4
BY DEF TestTrans!Funcs, TestTrans!registerFunctions

LEMMA TransInit == TestTrans!Init => TransInv
<1> SUFFICES ASSUME TestTrans!Init PROVE TransInv
  OBVIOUS
<1>1. Evaluating /\ pc = "tracegen" /\ i = 1
  BY DEF TestTrans!Init, Evaluating
<1>2. B \in Matrix /\ k = 0 /\ Progress(k, B)
  BY <1>1, ProgressStart DEF TestTrans!Init
<1>3. k \in 0 .. Count
  BY <1>1, <1>2, MovesAreFit DEF MovesFit
<1>4. func_list = [f \in 1 .. 4 |-> [correct |-> 0, num_misses |-> 0]]
  BY FuncsAre DEF TestTrans!Init
<1>5. \A f \in 1 .. 4 : ~ Decided(f)
  BY <1>1 DEF Decided
<1> QED BY <1>1, <1>2, <1>3, <1>4, <1>5 DEF TransInv

\* What an action must say of the next state.
Judged(f) ==
  func_list'[f] = [correct |-> IF Decided(f)' /\ Right(f) THEN 1 ELSE 0,
                   num_misses |-> func_list'[f].num_misses]

LEMMA SameRight == size' = size => \A f : Right(f)' <=> Right(f)
<1> SUFFICES ASSUME size' = size PROVE \A f : Right(f)' <=> Right(f)
  OBVIOUS
<1>1. Columns' = Columns
  BY DEF Columns, TestTrans!N
<1> QED BY <1>1 DEF Right

\* An action that leaves the matrix alone.
LEMMA QuietStep ==
  ASSUME TransInv, size' = size, i' \in 1 .. 4,
         pc' \in {"csim", "collect", "done", "abort"}, pc' = "done" => i' = 4,
         func_list' = [f \in 1 .. 4 |-> func_list'[f]],
         \A f \in 1 .. 4 : Judged(f)
  PROVE  TransInv'
<1>1. Evaluating'
  BY DEF TransInv, Evaluating
<1> QED BY <1>1, SameRight DEF TransInv, Judged

LEMMA SameCount == \A S : TestTrans!Cardinality(S) = Cardinality(S)
BY DEF Cardinality, TestTrans!Cardinality

LEMMA RunKeeps == TransInv /\ TestTrans!Run => TransInv'
<1> SUFFICES ASSUME TransInv, TestTrans!Run PROVE TransInv'
  OBVIOUS
<1>1. /\ Evaluating /\ pc = "tracegen" /\ B \in Matrix /\ k \in 0 .. Count /\ Progress(k, B)
      /\ size' = size /\ i' = i /\ pc' = pc /\ func_list' = func_list
      /\ k' = TestTrans!Upto(Count)
  <2>1. pc = "tracegen" /\ k' = TestTrans!Upto(Count)
    <3>1. pc = "tracegen"
      BY DEF TestTrans!Run
    <3>2. k' = TestTrans!Upto(TestTrans!Cardinality(DOMAIN TestTrans!Moves))
      BY DEF TestTrans!Run
    <3> QED BY <3>1, <3>2, SameCount DEF Count
  <2>2. size' = size /\ i' = i /\ pc' = pc /\ TestTrans!files' = TestTrans!files
    BY DEF TestTrans!Run
  <2>3. func_list' = func_list
    BY <2>2 DEF TestTrans!files
  <2> QED BY <2>1, <2>2, <2>3 DEF TransInv
<1>2. PICK upto : upto = k'
  OBVIOUS
<1>3. Count \in Nat
  BY <1>1, MovesAreFit DEF MovesFit
<1>4. upto \in 0 .. Count /\ k <= upto /\ k \in Nat /\ upto \in Nat
  BY <1>1, <1>2, <1>3, SizesAssumption DEF TestTrans!Upto
<1>5. PICK f : Batch(f, k, upto, B)
  BY <1>4, BatchExists
<1>6. PICK g : g = CHOOSE f1 : f1 = [n \in k .. upto |->
                 IF n = k THEN B ELSE TestTrans!Moved(f1[n - 1], TestTrans!Moves[n - 1])]
  OBVIOUS
<1>7. Batch(g, k, upto, B)
  BY <1>5, <1>6 DEF Batch
<1>8. B' = g[upto]
  BY <1>2, <1>6 DEF TestTrans!Run
<1>9. g[upto] \in Matrix /\ Progress(upto, g[upto])
  BY <1>1, <1>4, <1>7, BatchProgress
<1>10. B' \in Matrix' /\ k' \in 0 .. Count' /\ Progress(k, B)'
  BY <1>1, <1>2, <1>4, <1>8, <1>9, SameMoves, SameProgress
<1>11. Evaluating' /\ \A f1 : Decided(f1)' <=> Decided(f1)
  BY <1>1 DEF Evaluating, Decided
<1> QED BY <1>1, <1>10, <1>11, SameRight DEF TransInv

LEMMA NextFunctionKeeps ==
  ASSUME TransInv, size' = size, TestTrans!NextFunction, k' = 0,
         func_list' = [f \in 1 .. 4 |-> func_list'[f]],
         \A f \in 1 .. 4 : Judged(f)
  PROVE  TransInv'
<1>1. Len(TestTrans!registerFunctions) = 4 /\ i \in 1 .. 4
  BY FuncsAre DEF TransInv, Evaluating
<1>2. CASE i = 4
  <2>1. pc' = "done" /\ i' = i
    BY <1>1, <1>2 DEF TestTrans!NextFunction
  <2> QED BY <1>2, <2>1, QuietStep
<1>3. CASE i # 4
  <2>1. pc' = "tracegen" /\ i' = i + 1 /\ B' = TestTrans!NewMatrix
    BY <1>1, <1>3 DEF TestTrans!NextFunction
  <2>2. Evaluating'
    BY <1>1, <1>3, <2>1 DEF TransInv, Evaluating
  <2>3. TestTrans!NewMatrix' = TestTrans!NewMatrix
    BY DEF TestTrans!NewMatrix, TestTrans!M, TestTrans!N
  <2>4. (TestTrans!NewMatrix \in Matrix /\ Progress(0, TestTrans!NewMatrix))'
    BY <2>2, ProgressStart, PTL
  <2>5. (Count \in Nat)'
    BY <2>2, CountIsNat, PTL
  <2>6. B' \in Matrix' /\ k' \in 0 .. Count' /\ Progress(k, B)'
    BY <2>1, <2>3, <2>4, <2>5
  <2> QED BY <2>1, <2>2, <2>6, SameRight DEF TransInv, Judged
<1> QED BY <1>2, <1>3

LEMMA ValidateKeeps == TransInv /\ TestTrans!Validate => TransInv'
<1> SUFFICES ASSUME TransInv, TestTrans!Validate PROVE TransInv'
  OBVIOUS
<1>1. Evaluating /\ i \in 1 .. 4 /\ pc = "tracegen" /\ B \in Matrix /\ Progress(k, B) /\ k' = 0
  BY DEF TransInv, Evaluating, TestTrans!Validate
<1>2. k = Count
  <2>1. k = TestTrans!Cardinality(DOMAIN TestTrans!Moves)
    BY DEF TestTrans!Validate
  <2> QED BY <2>1, SameCount DEF Count
<1>3. TestTrans!validate <=> Right(i)
  BY <1>1, <1>2, Verdict
<1>4. size' = size
  BY DEF TestTrans!Validate
<1>5. /\ func_list = [f \in 1 .. 4 |-> func_list[f]]
      /\ \A f \in 1 .. 4 : func_list[f] =
           [correct |-> IF Decided(f) /\ Right(f) THEN 1 ELSE 0, num_misses |-> func_list[f].num_misses]
  BY DEF TransInv
<1>6. CASE TestTrans!validate
  <2>1. /\ pc' = "csim" /\ i' = i /\ func_list' = [func_list EXCEPT ![i].correct = 1]
    BY <1>6 DEF TestTrans!Validate
  <2>2. func_list'[i] = [correct |-> 1, num_misses |-> func_list'[i].num_misses]
    BY <1>1, <1>5, <2>1
  <2>3. \A f \in 1 .. 4 : f # i => func_list'[f] = func_list[f]
    BY <1>5, <2>1
  <2>4. func_list' = [f \in 1 .. 4 |-> func_list'[f]]
    BY <1>5, <2>1
  <2>5. ASSUME NEW f \in 1 .. 4 PROVE Judged(f)
    <3>1. CASE f = i
      BY <1>3, <1>6, <2>1, <2>2, <3>1 DEF Judged, Decided
    <3>2. CASE f # i
      <4>1. Decided(f)' <=> Decided(f)
        BY <2>1, <3>2 DEF Decided
      <4>2. func_list'[f] = func_list[f]
        BY <2>3, <3>2
      <4> QED BY <1>5, <4>1, <4>2 DEF Judged
    <3> QED BY <3>1, <3>2
  <2> QED BY <1>1, <1>4, <2>1, <2>4, <2>5, QuietStep
<1>7. CASE ~ TestTrans!validate
  <2>1. TestTrans!NextFunction /\ func_list' = func_list
    BY <1>7 DEF TestTrans!Validate
  <2>2. ASSUME NEW f \in 1 .. 4 PROVE Judged(f)
    <3>1. CASE f = i
      <4>1. ~ Right(f) /\ func_list[f] = [correct |-> 0, num_misses |-> func_list[f].num_misses]
        BY <1>3, <1>5, <1>7, <3>1
      <4> QED BY <2>1, <4>1 DEF Judged
    <3>2. CASE f # i
      <4>1. Decided(f)' <=> Decided(f)
        <5>1. (i' = i /\ pc' = "done" /\ i = 4) \/ (i' = i + 1 /\ pc' = "tracegen")
          BY <1>1, <2>1, FuncsAre DEF TestTrans!NextFunction
        <5> QED BY <1>1, <3>2, <5>1 DEF Decided
      <4> QED BY <1>5, <2>1, <4>1 DEF Judged
    <3> QED BY <3>1, <3>2
  <2>3. func_list' = [f \in 1 .. 4 |-> func_list'[f]]
    BY <1>5, <2>1
  <2> QED BY <1>1, <1>4, <2>1, <2>2, <2>3, NextFunctionKeeps
<1> QED BY <1>6, <1>7

LEMMA CollectKeeps == TransInv /\ TestTrans!Collect => TransInv'
<1> SUFFICES ASSUME TransInv, TestTrans!Collect PROVE TransInv'
  OBVIOUS
<1>1. /\ i \in 1 .. 4 /\ pc = "collect" /\ k' = 0 /\ size' = size /\ TestTrans!NextFunction
      /\ func_list' = [func_list EXCEPT ![i].num_misses = csim_results]
  BY DEF TransInv, Evaluating, TestTrans!Collect
<1>2. /\ func_list = [f \in 1 .. 4 |-> func_list[f]]
      /\ \A f \in 1 .. 4 : func_list[f] =
           [correct |-> IF Decided(f) /\ Right(f) THEN 1 ELSE 0, num_misses |-> func_list[f].num_misses]
  BY DEF TransInv
<1>3. \A f \in 1 .. 4 : Decided(f)' <=> Decided(f)
  <2>1. (i' = i /\ pc' = "done" /\ i = 4) \/ (i' = i + 1 /\ pc' = "tracegen")
    BY <1>1, FuncsAre DEF TestTrans!NextFunction
  <2> QED BY <1>1, <2>1 DEF Decided
<1>4. ASSUME NEW f \in 1 .. 4 PROVE Judged(f)
  <2>1. PICK c : c = IF Decided(f) /\ Right(f) THEN 1 ELSE 0
    OBVIOUS
  <2>2. func_list[f] = [correct |-> c, num_misses |-> func_list[f].num_misses]
    BY <1>2, <2>1
  <2>3. func_list'[f] = [correct |-> c, num_misses |-> func_list'[f].num_misses]
    <3>1. CASE f = i
      BY <1>1, <1>2, <2>2, <3>1
    <3>2. CASE f # i
      <4>1. func_list'[f] = func_list[f]
        BY <1>1, <1>2, <3>2
      <4> QED BY <2>2, <4>1
    <3> QED BY <3>1, <3>2
  <2> QED BY <1>3, <2>1, <2>3 DEF Judged
<1>5. func_list' = [f \in 1 .. 4 |-> func_list'[f]]
  BY <1>1, <1>2
<1> QED BY <1>1, <1>4, <1>5, NextFunctionKeeps

\* Actions that leave everything that TransInv is about but pc.
LEMMA OthersKeep ==
  ASSUME TransInv, size' = size, i' = i, func_list' = func_list, pc # "tracegen",
         pc' \in {"csim", "collect", "done", "abort"}, pc' = "done" => pc = "done"
  PROVE  TransInv'
<1>1. i \in 1 .. 4 /\ (pc = "done" => i = 4)
  BY DEF TransInv, Evaluating
<1>2. \A f \in 1 .. 4 : Decided(f)' <=> Decided(f)
  BY <1>1 DEF Decided
<1>3. func_list' = [f \in 1 .. 4 |-> func_list'[f]]
  BY DEF TransInv
<1>4. \A f \in 1 .. 4 : Judged(f)
  BY <1>2 DEF TransInv, Judged
<1> QED BY <1>1, <1>3, <1>4, QuietStep

LEMMA TransStep == TransInv /\ [TestTrans!Next]_testTransVars => TransInv'
<1> SUFFICES ASSUME TransInv, [TestTrans!Next]_testTransVars PROVE TransInv'
  OBVIOUS
<1>1. ASSUME UNCHANGED testTransVars PROVE TransInv'
  <2>1. UNCHANGED <<size, i, pc, k, B, func_list>>
    BY <1>1 DEF testTransVars
  <2>2. CASE pc = "tracegen"
    <3>1. B \in Matrix /\ k \in 0 .. Count /\ Progress(k, B)
      BY <2>2 DEF TransInv
    <3>2. B' \in Matrix' /\ k' \in 0 .. Count' /\ Progress(k, B)'
      BY <2>1, <3>1, SameMoves, SameProgress
    <3>3. Evaluating' /\ \A f : Decided(f)' <=> Decided(f)
      BY <2>1 DEF TransInv, Evaluating, Decided
    <3> QED BY <2>1, <3>2, <3>3, SameRight DEF TransInv
  <2>3. CASE pc # "tracegen"
    BY <2>1, <2>3, OthersKeep DEF TransInv
  <2> QED BY <2>2, <2>3
<1>2. CASE TestTrans!Run
  BY <1>2, RunKeeps
<1>3. CASE TestTrans!Validate
  BY <1>3, ValidateKeeps
<1>4. CASE TestTrans!Collect
  BY <1>4, CollectKeeps
<1>5. CASE TestTrans!Replay
  BY <1>5, OthersKeep DEF TestTrans!Replay, TestTrans!files
<1>6. CASE TestTrans!Summary
  BY <1>6, OthersKeep DEF TestTrans!Summary
<1>7. CASE TestTrans!CsimFails
  BY <1>7, OthersKeep DEF TestTrans!CsimFails
<1>8. CASE TestTrans!Abort
  BY <1>8, OthersKeep DEF TestTrans!Abort, TestTrans!files
<1>9. CASE TestTrans!Done
  <2>1. UNCHANGED testTransVars
    BY <1>9 DEF TestTrans!Done, TestTrans!vars, TestTrans!files, testTransVars
  <2> QED BY <1>1, <2>1
<1> QED BY <1>1, <1>2, <1>3, <1>4, <1>5, <1>6, <1>7, <1>8, <1>9 DEF TestTrans!Next

LEMMA EntryIs ==
  /\ TestTrans!Entry("transpose_submit") = func_list[1]
  /\ TestTrans!Entry("trans") = func_list[2]
  /\ TestTrans!Entry("transpose_blocking") = func_list[3]
  /\ TestTrans!Entry("transpose_64M") = func_list[4]
<1>1. /\ TestTrans!registerFunctions[1] = "transpose_submit"
      /\ TestTrans!registerFunctions[2] = "trans"
      /\ TestTrans!registerFunctions[3] = "transpose_blocking"
      /\ TestTrans!registerFunctions[4] = "transpose_64M"
  BY DEF TestTrans!registerFunctions
<1>2. \A f \in TestTrans!Funcs : f = 1 \/ f = 2 \/ f = 3 \/ f = 4
  BY FuncsAre
<1>3. 1 \in TestTrans!Funcs /\ 2 \in TestTrans!Funcs /\ 3 \in TestTrans!Funcs /\ 4 \in TestTrans!Funcs
  BY FuncsAre
<1>4. (CHOOSE f \in TestTrans!Funcs : TestTrans!registerFunctions[f] = "transpose_submit") = 1
  BY <1>1, <1>2, <1>3
<1>5. (CHOOSE f \in TestTrans!Funcs : TestTrans!registerFunctions[f] = "trans") = 2
  BY <1>1, <1>2, <1>3
<1>6. (CHOOSE f \in TestTrans!Funcs : TestTrans!registerFunctions[f] = "transpose_blocking") = 3
  BY <1>1, <1>2, <1>3
<1>7. (CHOOSE f \in TestTrans!Funcs : TestTrans!registerFunctions[f] = "transpose_64M") = 4
  BY <1>1, <1>2, <1>3
<1> QED BY <1>4, <1>5, <1>6, <1>7 DEF TestTrans!Entry

LEMMA VerdictsFollow == TransInv => WhichTranspose
<1> SUFFICES ASSUME TransInv, pc = "done" PROVE TestTrans!WhichTranspose
  BY DEF WhichTranspose, TestTrans!WhichTranspose
<1>1. \A f \in 1 .. 4 : Decided(f)
  BY DEF TransInv, Decided
<1>2. \A f \in 1 .. 4 : func_list[f].correct = IF Right(f) THEN 1 ELSE 0
  <2> SUFFICES ASSUME NEW f \in 1 .. 4 PROVE func_list[f].correct = IF Right(f) THEN 1 ELSE 0
    OBVIOUS
  <2>1. func_list[f] = [correct |-> IF Decided(f) /\ Right(f) THEN 1 ELSE 0,
                        num_misses |-> func_list[f].num_misses]
    BY DEF TransInv
  <2>2. PICK c : c = IF Right(f) THEN 1 ELSE 0
    OBVIOUS
  <2>3. func_list[f] = [correct |-> c, num_misses |-> func_list[f].num_misses]
    BY <1>1, <2>1, <2>2
  <2> QED BY <2>2, <2>3
<1>3. 1 \in 1 .. 4 /\ 2 \in 1 .. 4 /\ 3 \in 1 .. 4 /\ 4 \in 1 .. 4
  OBVIOUS
<1>4. /\ func_list[1].correct = 1 <=> size \in {<<32, 32>>, <<64, 64>>, <<61, 67>>}
      /\ func_list[2].correct = 1
      /\ func_list[3].correct = 1 <=> Columns % 4 = 0
      /\ func_list[4].correct = 0
  BY <1>2, <1>3 DEF Right
<1> QED BY <1>4, EntryIs DEF TestTrans!WhichTranspose, Columns

(* For matrices of any size (with a second column and five rows):          *)
(* test-trans marks trans.c's functions as transposes just when they are:  *)
(* the submission for the three sizes it knows, the plain function always, *)
(* the blocked one if its blocks end with the rows, transpose_64M never.   *)
THEOREM VerdictsAreRight == LabSpec => []WhichTranspose
<1>1. LabInit => TransInv
  BY TransInit DEF LabInit
<1>2. TransInv /\ [LabNext]_<<program, vars, argumentVars, testTransVars>> => TransInv'
  <2> SUFFICES ASSUME TransInv, [LabNext]_<<program, vars, argumentVars, testTransVars>>
               PROVE  TransInv'
    OBVIOUS
  <2>1. [TestTrans!Next]_testTransVars
    BY DEF LabNext
  <2> QED BY <2>1, TransStep
<1> QED BY <1>1, <1>2, VerdictsFollow, PTL DEF LabSpec
=============================================================================
