----------------------------- MODULE NatLemmas -----------------------------
(***************************************************************************)
(* Facts about natural numbers that the proofs of this project rest on.    *)
(* Induction is used in the form "a nonempty set of naturals has a least   *)
(* element", which follows from the well-foundedness of strict inclusion   *)
(* on the intervals 1..n.                                                  *)
(***************************************************************************)
EXTENDS Integers, FiniteSetsExt, FiniteSetTheorems, WellFoundedInduction, TLAPS

(* Every nonempty set of natural numbers has a least element.  Searches    *)
(* that stop at the first match (FirstSlot in TshJobs) rest on it.         *)
LEMMA LeastNat ==
  ASSUME NEW S \in SUBSET Nat, S # {}
  PROVE  \E n \in S : \A m \in S : n <= m
<1> DEFINE T == {1 .. n : n \in S}
           R == StrictSubsetOrdering(Nat)
           F == FiniteSubsetsOf(Nat)
<1>1. IsWellFoundedOn(R, F)
  BY FS_StrictSubsetOrderingWellFounded
<1>2. T \subseteq F
  <2> SUFFICES ASSUME NEW n \in S PROVE 1 .. n \in F
    OBVIOUS
  <2>1. n \in Int OBVIOUS
  <2>2. IsFiniteSet(1 .. n) BY <2>1, FS_Interval
  <2>3. 1 .. n \in SUBSET Nat BY <2>1
  <2> QED BY <2>2, <2>3 DEF FiniteSubsetsOf
<1>3. T # {}
  OBVIOUS
<1>4. PICK t \in T : \A u \in T : ~ (<<u, t>> \in R)
  <2> HIDE DEF R, F, T
  <2> QED BY <1>1, <1>2, <1>3, WFMin
<1>5. PICK n \in S : t = 1 .. n
  OBVIOUS
<1>6. ASSUME NEW m \in S PROVE n <= m
  <2> SUFFICES ASSUME m < n PROVE FALSE
    OBVIOUS
  <2>1. 1 .. m \in T /\ ~ (<<1 .. m, 1 .. n>> \in R)
    BY <1>4, <1>5
  <2>2. 1 .. m \subseteq 1 .. n
    OBVIOUS
  <2>3. n \in 1 .. n /\ n \notin 1 .. m
    OBVIOUS
  <2>4. 1 .. m # 1 .. n
    BY <2>3
  <2>5. 1 .. m \in SUBSET Nat /\ 1 .. n \in SUBSET Nat
    OBVIOUS
  <2>6. <<1 .. m, 1 .. n>> \in R
    BY <2>2, <2>4, <2>5 DEF StrictSubsetOrdering
  <2> QED BY <2>1, <2>6
<1> QED BY <1>6

(* A function from 1..n to the naturals is bounded.                        *)
LEMMA BoundedOnInterval ==
  ASSUME NEW k \in Nat, NEW f, \A i \in 1 .. k : f[i] \in Nat
  PROVE  \E b \in Nat : \A i \in 1 .. k : f[i] <= b
<1> DEFINE Bad == {n \in 0 .. k : ~ \E b \in Nat : \A i \in 1 .. n : f[i] <= b}
<1>0. k \in 0 .. k
  OBVIOUS
<1> SUFFICES ASSUME Bad # {} PROVE FALSE
  BY <1>0
<1>1. PICK n \in Bad : \A m \in Bad : n <= m
  <2>1. Bad \in SUBSET Nat OBVIOUS
  <2> HIDE DEF Bad
  <2> QED BY <2>1, LeastNat
<1>2. n # 0
  <2>1. \A i \in 1 .. 0 : f[i] <= 0 OBVIOUS
  <2> QED BY <2>1
<1>3. n - 1 \in 0 .. k /\ n - 1 \notin Bad
  <2>1. n \in 0 .. k OBVIOUS
  <2>2. n - 1 \in 0 .. k /\ ~ (n <= n - 1) BY <1>2, <2>1
  <2> HIDE DEF Bad
  <2> QED BY <1>1, <2>2
<1>4. PICK b \in Nat : \A i \in 1 .. n - 1 : f[i] <= b
  BY <1>3
<1>5. f[n] \in Nat
  BY <1>2
<1>6. \A i \in 1 .. n : f[i] <= b + f[n]
  <2> SUFFICES ASSUME NEW i \in 1 .. n PROVE f[i] <= b + f[n]
    OBVIOUS
  <2>1. f[i] \in Nat BY <1>1
  <2>2. i = n \/ i \in 1 .. n - 1 BY <1>1
  <2> QED BY <1>4, <1>5, <2>1, <2>2
<1>7. b + f[n] \in Nat
  BY <1>5
<1> QED BY <1>6, <1>7

(* The largest of 0 and the values of such a function: Max is one of them  *)
(* and no value exceeds it.                                                *)
LEMMA MaxOnInterval ==
  ASSUME NEW k \in Nat, NEW f, \A i \in 1 .. k : f[i] \in Nat
  PROVE  LET M == Max({0} \cup {f[i] : i \in 1 .. k})
         IN  M \in Nat /\ \A i \in 1 .. k : f[i] <= M
<1> DEFINE S == {0} \cup {f[i] : i \in 1 .. k}
           U == {b \in Nat : \A i \in 1 .. k : f[i] <= b}
<1>1. U # {}
  BY BoundedOnInterval
<1>2. PICK m \in U : \A b \in U : m <= b
  <2>1. U \in SUBSET Nat OBVIOUS
  <2> HIDE DEF U
  <2> QED BY <1>1, <2>1, LeastNat
<1>3. S \in SUBSET Nat
  OBVIOUS
<1>4. m \in S
  <2> SUFFICES ASSUME m \notin S PROVE FALSE
    OBVIOUS
  <2>1. m # 0 /\ \A i \in 1 .. k : f[i] # m
    OBVIOUS
  <2>2. m - 1 \in Nat /\ \A i \in 1 .. k : f[i] <= m - 1
    BY <2>1
  <2>3. m - 1 \in U BY <2>2
  <2> QED BY <1>2, <2>3
<1>5. \A y \in S : m >= y
  OBVIOUS
<1>6. Max(S) \in S /\ \A y \in S : Max(S) >= y
  <2> HIDE DEF S
  <2> QED BY <1>4, <1>5 DEF Max
<1>7. \A i \in 1 .. k : f[i] \in S
  OBVIOUS
<1> QED BY <1>3, <1>6, <1>7

(* Among the values of such a function on a nonempty interval one is the   *)
(* largest.                                                                *)
LEMMA LargestOnInterval ==
  ASSUME NEW k \in Nat \ {0}, NEW f, \A i \in 1 .. k : f[i] \in Nat
  PROVE  \E i \in 1 .. k : \A j \in 1 .. k : f[j] <= f[i]
<1> DEFINE U == {b \in Nat : \A i \in 1 .. k : f[i] <= b}
<1>1. U # {}
  BY BoundedOnInterval
<1>2. PICK m \in U : \A b \in U : m <= b
  <2>1. U \in SUBSET Nat OBVIOUS
  <2> HIDE DEF U
  <2> QED BY <1>1, <2>1, LeastNat
<1>3. \E i \in 1 .. k : f[i] = m
  <2> SUFFICES ASSUME \A i \in 1 .. k : f[i] # m PROVE FALSE
    OBVIOUS
  <2>1. f[1] \in Nat /\ f[1] <= m /\ f[1] # m
    OBVIOUS
  <2>2. m - 1 \in Nat /\ \A i \in 1 .. k : f[i] <= m - 1
    BY <2>1
  <2> QED BY <1>2, <2>2
<1> QED BY <1>3

----------------------------------------------------------------------------
(* Residues.                                                               *)

\* A number below n is the residue of what exceeds it by multiples of n.
LEMMA ModUnique ==
  ASSUME NEW n \in Nat \ {0}, NEW q \in Int, NEW r \in 0 .. n - 1
  PROVE  (q * n + r) % n = r
OBVIOUS

\* What quotient and residue are.
LEMMA ModParts ==
  ASSUME NEW n \in Nat \ {0}, NEW a \in Int
  PROVE  /\ a % n \in 0 .. n - 1
         /\ a = (a \div n) * n + (a % n) /\ (a \div n) \in Int
OBVIOUS

(* The difference of two residues is the difference of the numbers, or     *)
(* less by the modulus.                                                    *)
LEMMA ModDifference ==
  ASSUME NEW n \in Nat \ {0}, NEW a \in 0 .. n - 1, NEW b \in 0 .. n - 1
  PROVE  (a - b) % n = IF a >= b THEN a - b ELSE a - b + n
<1>1. CASE a >= b
  <2>1. a - b \in 0 .. n - 1 /\ a - b = 0 * n + (a - b)
    BY <1>1
  <2> QED BY <1>1, <2>1, ModUnique
<1>2. CASE a < b
  <2>1. a - b + n \in 0 .. n - 1 /\ a - b = (-1) * n + (a - b + n)
    BY <1>2
  <2> QED BY <1>2, <2>1, ModUnique
<1> QED BY <1>1, <1>2

(* Counting on from a residue.                                             *)
LEMMA ModOn ==
  ASSUME NEW n \in Nat \ {0}, NEW a \in Int, NEW b \in Int
  PROVE  ((a % n) + b) % n = (a + b) % n
<1> DEFINE q == (a + b) \div n
           r == (a + b) % n
           d == a \div n
<1>1. r \in 0 .. n - 1 /\ a + b = q * n + r /\ q \in Int
  <2>1. a + b \in Int
    OBVIOUS
  <2> QED BY <2>1, ModParts
<1>2. a % n \in Int /\ a = d * n + (a % n) /\ d \in Int
  BY ModParts
<1> HIDE DEF q, r, d
<1>3. (a % n) + b = q * n + r - d * n
  BY <1>1, <1>2
<1>4. q * n - d * n = (q - d) * n
  <2>1. \A x, y, z \in Int : x * z - y * z = (x - y) * z
    OBVIOUS
  <2> QED BY <1>1, <1>2, <2>1
<1>5. (a % n) + b = (q - d) * n + r /\ q - d \in Int
  BY <1>1, <1>2, <1>3, <1>4
<1>6. ((q - d) * n + r) % n = r
  BY <1>1, <1>5, ModUnique
<1> QED BY <1>5, <1>6 DEF r
=============================================================================
