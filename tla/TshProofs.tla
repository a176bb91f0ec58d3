----------------------------- MODULE TshProofs -----------------------------
(***************************************************************************)
(* Proofs about the tiny shell (modules Tsh and TshRefines), for every     *)
(* number of slots, every set of process IDs and every bound.  First what  *)
(* the routines of the job list do to a table, then one lemma per group of *)
(* actions that the inductive invariant IInv is preserved, then the        *)
(* theorems, and last that the shell implements job control.               *)
(***************************************************************************)
EXTENDS TshRefines, NatLemmas

----------------------------------------------------------------------------
(* The job list.                                                           *)

Table == [Slots -> Job]

(* The first matching slot is a matching slot.                             *)
LEMMA FirstSlotMatches ==
  ASSUME NEW S \in SUBSET Slots, S # {}
  PROVE  FirstSlot(S) \in S
<1>1. S \in SUBSET Nat
  BY JobsAssumption DEF Slots
<1>2. \E i \in S : \A j \in S : i <= j
  BY <1>1, LeastNat
<1> QED BY <1>2 DEF FirstSlot

LEMMA ClearJobType == clearjob \in Job /\ initjobs \in Table
BY DEF clearjob, initjobs, Job, JobState, Table

(* addjob rewrites one unused slot, or nothing when there is none.         *)
LEMMA AddRewritesUnused ==
  ASSUME NEW t \in Table, NEW n \in Nat, NEW p \in Pids, NEW st \in JobState,
         ~ TableFull(t)
  PROVE  \E k \in Slots : /\ t[k].pid = NoPid
                          /\ addjob(t, n, p, st) =
                               [t EXCEPT ![k] = [pid |-> p, jid |-> n, state |-> st]]
<1>1. SlotsOf(t, NoPid) \in SUBSET Slots /\ SlotsOf(t, NoPid) # {}
  BY DEF SlotsOf, TableFull
<1>2. FirstSlot(SlotsOf(t, NoPid)) \in SlotsOf(t, NoPid)
  BY <1>1, FirstSlotMatches
<1> QED BY <1>2 DEF addjob, SlotsOf

(* deletejob clears one slot that holds the pid, or nothing.               *)
LEMMA DeleteClearsSlot ==
  ASSUME NEW t \in Table, NEW p \in Listed(t)
  PROVE  \E k \in Slots : /\ t[k].pid = p
                          /\ deletejob(t, p) = [t EXCEPT ![k] = clearjob]
<1>1. SlotsOf(t, p) \in SUBSET Slots /\ SlotsOf(t, p) # {}
  BY DEF SlotsOf, Listed
<1>2. FirstSlot(SlotsOf(t, p)) \in SlotsOf(t, p)
  BY <1>1, FirstSlotMatches
<1> QED BY <1>2 DEF deletejob, SlotsOf

LEMMA AddType ==
  ASSUME NEW t \in Table, NEW n \in Nat \ {0}, NEW p \in Pids, NEW st \in JobState
  PROVE  addjob(t, n, p, st) \in Table /\ nextjidAfterAdd(t, n) \in Nat \ {0}
<1>1. CASE TableFull(t)
  BY <1>1 DEF addjob, nextjidAfterAdd
<1>2. CASE ~ TableFull(t)
  <2>1. [pid |-> p, jid |-> n, state |-> st] \in Job
    BY DEF Job
  <2>2. addjob(t, n, p, st) \in Table
    BY <1>2, <2>1, AddRewritesUnused DEF Table
  <2>3. nextjidAfterAdd(t, n) \in Nat \ {0}
    BY <1>2 DEF nextjidAfterAdd
  <2> QED BY <2>2, <2>3
<1> QED BY <1>1, <1>2

\* maxjid finds the largest job ID of the table.
LEMMA MaxjidBounds ==
  ASSUME NEW u \in Table
  PROVE  maxjid(u) \in Nat /\ \A i \in Slots : u[i].jid <= maxjid(u)
<1> DEFINE f == [i \in Slots |-> u[i].jid]
<1>1. \A i \in 1 .. MAXJOBS : f[i] \in Nat
  BY DEF Table, Job, Slots
<1>2. MAXJOBS \in Nat
  BY JobsAssumption
<1>3. /\ Max({0} \cup {f[i] : i \in 1 .. MAXJOBS}) \in Nat
      /\ \A i \in 1 .. MAXJOBS : f[i] <= Max({0} \cup {f[j] : j \in 1 .. MAXJOBS})
  <2> HIDE DEF f
  <2> QED BY <1>1, <1>2, MaxOnInterval
<1>4. {f[i] : i \in 1 .. MAXJOBS} = {u[i].jid : i \in Slots} /\ \A i \in Slots : f[i] = u[i].jid
  BY DEF Slots
<1> HIDE DEF f
<1> QED BY <1>3, <1>4 DEF maxjid, Slots

LEMMA DeleteType ==
  ASSUME NEW t \in Table, NEW n \in Nat \ {0}, NEW p \in Pids
  PROVE  deletejob(t, p) \in Table /\ nextjidAfterDelete(t, n, p) \in Nat \ {0}
<1>1. deletejob(t, p) \in Table
  <2>1. CASE p \notin Listed(t) BY <2>1 DEF deletejob
  <2>2. CASE p \in Listed(t)
    BY <2>2, DeleteClearsSlot, ClearJobType DEF Table
  <2> QED BY <2>1, <2>2
<1>2. \A u \in Table : maxjid(u) \in Nat
  BY MaxjidBounds
<1> QED BY <1>1, <1>2 DEF nextjidAfterDelete

(* addjob lists exactly the new pid, deletejob unlists exactly the old one *)
(* when it is in one slot only.                                            *)
LEMMA ListedAfterAdd ==
  ASSUME NEW t \in Table, NEW n \in Nat, NEW p \in Pids, NEW st \in JobState,
         ~ TableFull(t)
  PROVE  Listed(addjob(t, n, p, st)) = Listed(t) \cup {p}
<1>1. PICK k \in Slots : /\ t[k].pid = NoPid
                         /\ addjob(t, n, p, st) =
                              [t EXCEPT ![k] = [pid |-> p, jid |-> n, state |-> st]]
  BY AddRewritesUnused
<1>2. p # NoPid
  BY JobsAssumption
<1> DEFINE u == addjob(t, n, p, st)
<1>3. \A i \in Slots : u[i].pid = IF i = k THEN p ELSE t[i].pid
  BY <1>1 DEF Table
<1> HIDE DEF u
<1>4. Listed(u) = Listed(t) \cup {p}
  BY <1>1, <1>2, <1>3 DEF Listed
<1> QED BY <1>4 DEF u

LEMMA ListedAfterDelete ==
  ASSUME NEW t \in Table, NEW p \in Pids,
         \A i, j \in Slots : t[i].pid = t[j].pid /\ t[i].pid # NoPid => i = j
  PROVE  Listed(deletejob(t, p)) = Listed(t) \ {p}
<1>1. CASE p \notin Listed(t)
  BY <1>1 DEF deletejob
<1>2. CASE p \in Listed(t)
  <2>1. PICK k \in Slots : /\ t[k].pid = p
                           /\ deletejob(t, p) = [t EXCEPT ![k] = clearjob]
    BY <1>2, DeleteClearsSlot
  <2> DEFINE u == deletejob(t, p)
  <2>2. \A i \in Slots : u[i].pid = IF i = k THEN NoPid ELSE t[i].pid
    BY <2>1 DEF Table, clearjob
  <2>3. p # NoPid
    BY JobsAssumption
  <2> HIDE DEF u
  <2>4. Listed(u) = Listed(t) \ {p}
    BY <2>1, <2>2, <2>3 DEF Listed
  <2> QED BY <2>4 DEF u
<1> QED BY <1>1, <1>2

(* fgpid finds the foreground job if there is one.                         *)
LEMMA FgpidFinds ==
  ASSUME NEW t \in Table
  PROVE  \/ /\ fgpid(t) = NoPid
            /\ \A i \in Slots : t[i].state # "FG"
         \/ \E i \in Slots : t[i].state = "FG" /\ fgpid(t) = t[i].pid
<1>1. CASE SlotsIn(t, "FG") = {}
  BY <1>1 DEF fgpid, SlotsIn
<1>2. CASE SlotsIn(t, "FG") # {}
  <2>1. SlotsIn(t, "FG") \in SUBSET Slots
    BY DEF SlotsIn
  <2>2. FirstSlot(SlotsIn(t, "FG")) \in SlotsIn(t, "FG")
    BY <1>2, <2>1, FirstSlotMatches
  <2> QED BY <1>2, <2>2 DEF fgpid, SlotsIn
<1> QED BY <1>1, <1>2

----------------------------------------------------------------------------
(* The invariant: initial states.                                          *)

LEMMA InitIInv == Init => IInv
<1> SUFFICES ASSUME Init PROVE IInv
  OBVIOUS
<1> USE DEF Init
<1>1. TypeOK
  <2>1. jobs \in [Slots -> Job]
    BY ClearJobType DEF Table
  <2>2. handler \in [Sigs -> Frame]
    BY DEF IdleFrame, Frame
  <2>3. /\ nextjid \in Nat \ {0} /\ nest \in [Sigs -> Nat]
        /\ proc \in [Pids -> PState] /\ exit \in EXITS /\ events \in Nat
    BY DEF EXITS, PState
  <2> HIDE DEF Init
  <2>4. /\ errno = "other" /\ saved = "other" /\ pc = "read" /\ pid = NoPid
        /\ bg = FALSE /\ sigchldBlocked = FALSE /\ pending = {}
        /\ collected = {} /\ refused = {}
    BY DEF Init
  <2> QED BY <2>1, <2>2, <2>3, <2>4 DEF TypeOK
<1>2. FramesMatchNest
  BY DEF FramesMatchNest, Sigs, IdleFrame, KeyLabels
<1>3. BlockedWindow /\ RecordsAreChildren
  BY DEF BlockedWindow, RecordsAreChildren
<1>4. PidInOneSlot /\ ForegroundIsAwaited
  BY DEF PidInOneSlot, ForegroundIsAwaited, initjobs, clearjob
<1>5. KeyTargets
  BY DEF KeyTargets, KeySigs, Sigs, IdleFrame, KeyLabels
<1>6. TableMatchesKernel
  BY DEF TableMatchesKernel, Listed, Deleting, Adding, Uncollected, Children,
         initjobs, clearjob, IdleFrame, Sigs
<1> QED BY <1>1, <1>2, <1>3, <1>4, <1>5, <1>6 DEF IInv

----------------------------------------------------------------------------
(* Steps that keep the invariant.  Exiting changes nothing but exit.       *)

LEMMA ExitsIInv ==
  ASSUME IInv, NEW why \in EXITS, Exits(why)
  PROVE  IInv'
<1> USE DEF IInv, Exits, table, main, frames, kernel
<1>1. TypeOK'
  BY DEF TypeOK
<1>2. FramesMatchNest' /\ KeyTargets'
  BY DEF FramesMatchNest, KeyTargets
<1>3. BlockedWindow' /\ RecordsAreChildren'
  BY DEF BlockedWindow, RecordsAreChildren, Uncollected, Children
<1>4. PidInOneSlot' /\ ForegroundIsAwaited'
  BY DEF PidInOneSlot, ForegroundIsAwaited
<1>5. TableMatchesKernel'
  BY DEF TableMatchesKernel, Deleting, Adding, Uncollected, Children
<1> QED BY <1>1, <1>2, <1>3, <1>4, <1>5

(* While the main flow runs every handler is idle.                         *)
LEMMA MainAlone ==
  ASSUME IInv, MainRuns
  PROVE  /\ \A s \in Sigs : handler[s].at = "idle"
         /\ Deleting = {}
BY DEF IInv, FramesMatchNest, MainRuns, Deleting, Sigs

LEMMA ReadCommandIInv ==
  ASSUME IInv, ReadCommand
  PROVE  IInv'
<1>1. CASE Exits("quit") \/ Exits("SIGSEGV")
  BY <1>1, ExitsIInv DEF EXITS
<1>2. CASE ~ (Exits("quit") \/ Exits("SIGSEGV"))
  <2> USE DEF IInv, table, frames, kernel
  <2>1. /\ MainRuns /\ pc = "read" /\ bg' \in BOOLEAN /\ sigchldBlocked' = TRUE
        /\ pc' = "fork"
        /\ UNCHANGED <<table, errno, pid, saved, frames, pending, kernel, exit,
                       events>>
    BY <1>2 DEF ReadCommand
  <2> HIDE <1>2
  <2>2. TypeOK'
    BY <2>1 DEF TypeOK
  <2>3. FramesMatchNest' /\ KeyTargets'
    BY <2>1 DEF FramesMatchNest, KeyTargets
  <2>4. BlockedWindow' /\ RecordsAreChildren'
    BY <2>1 DEF BlockedWindow, RecordsAreChildren, Children, MainRuns, Sigs
  <2>5. PidInOneSlot' /\ ForegroundIsAwaited'
    BY <2>1 DEF PidInOneSlot, ForegroundIsAwaited
  <2>6. TableMatchesKernel'
    BY <2>1 DEF TableMatchesKernel, Deleting, Adding, Uncollected, Children
  <2> QED BY <2>2, <2>3, <2>4, <2>5, <2>6
<1> QED BY <1>1, <1>2

LEMMA ForkChildIInv ==
  ASSUME IInv, NEW p \in Pids, ForkChild(p)
  PROVE  IInv'
<1> USE DEF IInv, ForkChild, table, frames
<1>1. TypeOK'
  BY DEF TypeOK, PState
<1>2. FramesMatchNest' /\ KeyTargets'
  BY DEF FramesMatchNest, KeyTargets
<1>3. /\ Children' = Children \cup {p} /\ p \notin Children
      /\ Uncollected' = Uncollected \cup {p} /\ p \notin collected
      /\ p \notin refused
  BY DEF TypeOK, Children, Uncollected, RecordsAreChildren
<1>4. BlockedWindow' /\ RecordsAreChildren'
  BY <1>3 DEF BlockedWindow, RecordsAreChildren
<1>5. PidInOneSlot' /\ ForegroundIsAwaited'
  BY DEF PidInOneSlot, ForegroundIsAwaited
<1>6. TableMatchesKernel'
  <2>1. Adding = {} /\ Adding' = {p} /\ Deleting' = Deleting
    BY DEF Adding, Deleting
  <2>2. p \notin Uncollected
    BY <1>3 DEF Uncollected
  <2> QED BY <1>3, <2>1, <2>2 DEF TableMatchesKernel
<1> QED BY <1>1, <1>2, <1>4, <1>5, <1>6

LEMMA ListChildIInv ==
  ASSUME IInv, ListChild
  PROVE  IInv'
<1> USE DEF IInv, ListChild, frames
<1> DEFINE st == IF bg THEN "BG" ELSE "FG"
<1>1. st \in JobState /\ jobs \in Table /\ nextjid \in Nat \ {0} /\ pid \in Pids
  BY DEF JobState, TypeOK, Table, ForegroundIsAwaited
<1>2. Deleting = {} /\ Deleting' = {} /\ Adding = {pid} /\ Adding' = {}
  BY MainAlone DEF Deleting, Adding, Sigs
<1>3. pid \in Uncollected \ refused /\ pid \notin Listed(jobs)
  BY <1>2 DEF BlockedWindow, TableMatchesKernel
<1>4. TypeOK'
  <2>1. jobs' \in [Slots -> Job] /\ nextjid' \in Nat \ {0}
    BY <1>1, AddType DEF Table
  <2>2. refused' \subseteq Pids
    BY <1>1 DEF TypeOK
  <2> QED BY <2>1, <2>2 DEF TypeOK
<1>5. FramesMatchNest'
  BY DEF FramesMatchNest
<1>6. KeyTargets'
  BY MainAlone DEF KeyTargets, KeyLabels, KeySigs, Sigs
<1>7. BlockedWindow' /\ RecordsAreChildren'
  BY <1>3 DEF BlockedWindow, RecordsAreChildren, Uncollected, Children
<1>8. CASE TableFull(jobs)
  <2>1. jobs' = jobs /\ refused' = refused \cup {pid}
    BY <1>8 DEF addjob
  <2>2. PidInOneSlot'
    BY <2>1 DEF PidInOneSlot
  <2>3. \A i \in Slots : jobs[i].pid # pid
    BY <1>1, <1>3, JobsAssumption DEF Listed
  <2>4. ForegroundIsAwaited'
    BY <2>1, <2>3 DEF ForegroundIsAwaited
  <2>5. TableMatchesKernel'
    BY <1>2, <1>3, <2>1 DEF TableMatchesKernel, Uncollected, Children
  <2> QED BY <1>4, <1>5, <1>6, <1>7, <2>2, <2>4, <2>5
<1>9. CASE ~ TableFull(jobs)
  <2>1. PICK k \in Slots : /\ jobs[k].pid = NoPid
                           /\ jobs' = [jobs EXCEPT ![k] =
                                [pid |-> pid, jid |-> nextjid, state |-> st]]
    BY <1>1, <1>9, AddRewritesUnused
  <2>2. \A i \in Slots : /\ jobs'[i].pid = IF i = k THEN pid ELSE jobs[i].pid
                         /\ jobs'[i].state = IF i = k THEN st ELSE jobs[i].state
    BY <1>1, <2>1 DEF Table
  <2>3. \A i \in Slots : jobs[i].pid # pid
    BY <1>1, <1>3, JobsAssumption DEF Listed
  <2>4. PidInOneSlot'
    BY <2>2, <2>3 DEF PidInOneSlot
  <2>5. ForegroundIsAwaited'
    BY <1>1, <2>2, <2>3 DEF ForegroundIsAwaited
  <2>6. Listed(jobs') = Listed(jobs) \cup {pid}
    BY <1>1, <1>9, ListedAfterAdd
  <2>7. TableMatchesKernel'
    BY <1>2, <1>3, <1>9, <2>6 DEF TableMatchesKernel, Uncollected, Children
  <2> QED BY <1>4, <1>5, <1>6, <1>7, <2>4, <2>5, <2>7
<1> QED BY <1>8, <1>9

LEMMA UnblockIInv ==
  ASSUME IInv, UnblockSigchld
  PROVE  IInv'
<1> USE DEF IInv, UnblockSigchld, table, frames, kernel
<1>1. TypeOK'
  BY DEF TypeOK
<1>2. FramesMatchNest' /\ KeyTargets'
  BY DEF FramesMatchNest, KeyTargets
<1>3. BlockedWindow' /\ RecordsAreChildren'
  BY DEF BlockedWindow, RecordsAreChildren, Children
<1>4. PidInOneSlot' /\ ForegroundIsAwaited'
  BY DEF PidInOneSlot, ForegroundIsAwaited
<1>5. TableMatchesKernel'
  BY DEF TableMatchesKernel, Deleting, Adding, Uncollected, Children
<1> QED BY <1>1, <1>2, <1>3, <1>4, <1>5

LEMMA PrintJobIInv ==
  ASSUME IInv, PrintJob
  PROVE  IInv'
<1> USE DEF IInv, PrintJob, table, frames, kernel
<1>1. TypeOK'
  BY DEF TypeOK
<1>2. FramesMatchNest' /\ KeyTargets'
  BY DEF FramesMatchNest, KeyTargets
<1>3. BlockedWindow' /\ RecordsAreChildren'
  BY DEF BlockedWindow, RecordsAreChildren, Children
<1>4. PidInOneSlot' /\ ForegroundIsAwaited'
  BY DEF PidInOneSlot, ForegroundIsAwaited
<1>5. TableMatchesKernel'
  BY DEF TableMatchesKernel, Deleting, Adding, Uncollected, Children
<1> QED BY <1>1, <1>2, <1>3, <1>4, <1>5

(* waitfg returns only when fgpid is another pid; as the only slot in the  *)
(* foreground is that of pid, there is none left.                          *)
LEMMA WaitFgIInv ==
  ASSUME IInv, WaitFg
  PROVE  IInv'
<1> USE DEF IInv, WaitFg, table, frames, kernel
<1>1. TypeOK'
  BY DEF TypeOK
<1>2. FramesMatchNest' /\ KeyTargets'
  BY DEF FramesMatchNest, KeyTargets
<1>3. BlockedWindow' /\ RecordsAreChildren'
  BY DEF BlockedWindow, RecordsAreChildren, Children
<1>4. PidInOneSlot'
  BY DEF PidInOneSlot
<1>5. ForegroundIsAwaited'
  <2>1. CASE fgpid(jobs) = pid
    BY <2>1 DEF ForegroundIsAwaited
  <2>2. CASE fgpid(jobs) # pid
    <3>1. \A i \in Slots : jobs[i].state # "FG"
      BY <2>2, FgpidFinds DEF TypeOK, Table, ForegroundIsAwaited
    <3> QED BY <2>2, <3>1 DEF ForegroundIsAwaited
  <2> QED BY <2>1, <2>2
<1>6. TableMatchesKernel'
  BY DEF TableMatchesKernel, Deleting, Adding, Uncollected, Children
<1> QED BY <1>1, <1>2, <1>3, <1>4, <1>5, <1>6

LEMMA SleepEndsIInv ==
  ASSUME IInv, SleepEnds
  PROVE  IInv'
<1> USE DEF IInv, SleepEnds, table, frames, kernel
<1>1. TypeOK'
  BY DEF TypeOK
<1>2. FramesMatchNest' /\ KeyTargets'
  BY DEF FramesMatchNest, KeyTargets
<1>3. BlockedWindow' /\ RecordsAreChildren'
  BY DEF BlockedWindow, RecordsAreChildren, Children
<1>4. PidInOneSlot' /\ ForegroundIsAwaited'
  BY DEF PidInOneSlot, ForegroundIsAwaited
<1>5. TableMatchesKernel'
  BY DEF TableMatchesKernel, Deleting, Adding, Uncollected, Children
<1> QED BY <1>1, <1>2, <1>3, <1>4, <1>5

----------------------------------------------------------------------------
(* Handlers.  Delivery, and a return that changes nothing else, keep the   *)
(* invariant whatever the handler.                                         *)

LEMMA DeepestType ==
  ASSUME nest \in [Sigs -> Nat]
  PROVE  Max({nest[t] : t \in Sigs}) \in Nat
<1> DEFINE S == {nest[t] : t \in Sigs}
<1>1. S = {nest["CHLD"], nest["INT"], nest["TSTP"]}
  BY DEF Sigs
<1>2. nest["CHLD"] \in Nat /\ nest["INT"] \in Nat /\ nest["TSTP"] \in Nat
  BY DEF Sigs
<1> HIDE DEF S
<1>3. \E x \in S : \A y \in S : x >= y
  BY <1>1, <1>2
<1>4. Max(S) \in S
  BY <1>3 DEF Max
<1> QED BY <1>1, <1>2, <1>4 DEF S

LEMMA DeliverIInv ==
  ASSUME IInv, NEW s \in Sigs, Deliver(s)
  PROVE  IInv'
<1> USE DEF IInv, Deliver, table, main, kernel
<1> DEFINE d == 1 + Max({nest[t] : t \in Sigs})
<1>1. d \in Nat /\ d # 0
  BY DeepestType DEF TypeOK
<1>2. nest' = [nest EXCEPT ![s] = d] /\ nest[s] = 0
  OBVIOUS
<1> HIDE DEF d
<1>3. [IdleFrame EXCEPT !.at = FirstStep(s)] \in Frame
  BY DEF IdleFrame, Frame, FirstStep
<1>4. /\ handler' \in [Sigs -> Frame]
      /\ \A t \in Sigs : t # s => handler'[t] = handler[t]
      /\ handler'[s].at = FirstStep(s)
  BY <1>3 DEF TypeOK, IdleFrame
<1>5. TypeOK'
  <2>1. nest' \in [Sigs -> Nat]
    BY <1>1, <1>2 DEF TypeOK
  <2>2. pending' \subseteq Sigs
    BY DEF TypeOK
  <2> QED BY <1>4, <2>1, <2>2 DEF TypeOK
<1>6. FramesMatchNest'
  <2>1. \A t \in Sigs : nest'[t] = IF t = s THEN d ELSE nest[t]
    BY <1>2 DEF TypeOK
  <2> HIDE DEF Deliver
  <2>2. handler'[s].at # "idle" /\ handler'[s].at \notin KeyLabels \cup {"deletejob"}
    BY <1>4 DEF FirstStep, KeyLabels
  <2>3. handler'[s].at \in IF s = "CHLD" THEN {"idle", "waitpid", "deletejob"}
                          ELSE {"idle", "fgpid"} \cup KeyLabels
    BY <1>4 DEF FirstStep
  <2>4. nest'[s] # 0
    BY <1>1, <2>1
  <2> QED BY <1>4, <2>1, <2>2, <2>3, <2>4 DEF FramesMatchNest
<1>7. KeyTargets'
  BY <1>4 DEF KeyTargets, KeySigs, Sigs, FirstStep, KeyLabels
<1>8. BlockedWindow' /\ RecordsAreChildren'
  <2>1. sigchldBlocked => nest'["CHLD"] = nest["CHLD"]
    BY <1>2 DEF Sigs, TypeOK
  <2> QED BY <2>1 DEF BlockedWindow, RecordsAreChildren, Uncollected, Children
<1>9. PidInOneSlot' /\ ForegroundIsAwaited'
  BY DEF PidInOneSlot, ForegroundIsAwaited
<1>10. TableMatchesKernel'
  <2>1. Deleting' = Deleting
    BY <1>2, <1>4 DEF Deleting, FramesMatchNest, FirstStep, Sigs
  <2> QED BY <2>1 DEF TableMatchesKernel, Adding, Uncollected, Children
<1> QED BY <1>5, <1>6, <1>7, <1>8, <1>9, <1>10

(* Returning from a handler that is not between waitpid and deletejob.     *)
LEMMA ReturnsIInv ==
  ASSUME IInv, NEW s \in Sigs, NEW e \in {"other", "ECHILD"}, Returns(s, e),
         nest[s] > 0, handler[s].at # "deletejob", table' = table,
         pending' \subseteq Sigs, exit' = exit, events' = events,
         proc' \in [Pids -> PState], Children' = Children,
         collected' = collected, refused' = refused
  PROVE  IInv'
<1> USE DEF IInv, Returns, table
<1>1. IdleFrame \in Frame /\ IdleFrame.at = "idle"
  BY DEF IdleFrame, Frame
<1>2. /\ handler' \in [Sigs -> Frame]
      /\ \A t \in Sigs : t # s => handler'[t] = handler[t]
      /\ handler'[s].at = "idle"
  BY <1>1 DEF TypeOK
<1>3. /\ nest' \in [Sigs -> Nat]
      /\ \A t \in Sigs : nest'[t] = IF t = s THEN 0 ELSE nest[t]
  BY DEF TypeOK
<1>4. TypeOK'
  BY <1>2, <1>3 DEF TypeOK
<1>5. FramesMatchNest'
  BY <1>2, <1>3 DEF FramesMatchNest, KeyLabels
<1>6. KeyTargets'
  BY <1>2 DEF KeyTargets, KeySigs, Sigs, KeyLabels
<1>7. Uncollected' = Uncollected
  BY DEF Uncollected
<1>8. BlockedWindow' /\ RecordsAreChildren'
  BY <1>3, <1>7 DEF BlockedWindow, RecordsAreChildren, Sigs
<1>9. PidInOneSlot' /\ ForegroundIsAwaited'
  BY DEF PidInOneSlot, ForegroundIsAwaited
<1>10. TableMatchesKernel'
  <2>1. Deleting' = Deleting
    BY <1>2 DEF Deleting, Sigs
  <2>2. Adding' = Adding
    BY DEF Adding
  <2> QED BY <1>7, <2>1, <2>2 DEF TableMatchesKernel
<1> QED BY <1>4, <1>5, <1>6, <1>8, <1>9, <1>10

----------------------------------------------------------------------------
(* sigchld_handler.                                                        *)

(* It runs only outside eval's blocked window.                             *)
LEMMA SigchldOutsideWindow ==
  ASSUME IInv, Runs("CHLD")
  PROVE  pc \notin {"fork", "add", "unblock"} /\ Adding = {}
BY DEF IInv, Runs, BlockedWindow, Adding, TypeOK, Sigs

LEMMA WaitpidChildIInv ==
  ASSUME IInv, NEW p \in Pids, WaitpidChild(p)
  PROVE  IInv'
<1> USE DEF IInv, table, main
<1>1. /\ Runs("CHLD") /\ handler["CHLD"].at = "waitpid"
      /\ proc[p] \in {"zombie", "stopping"}
      /\ proc' = [proc EXCEPT ![p] = IF @ = "zombie" THEN "none" ELSE "stopped"]
      /\ collected' = IF proc[p] = "zombie" THEN collected \ {p}
                      ELSE collected \cup {p}
      /\ refused' = refused \ {p}
      /\ handler' = [handler EXCEPT !["CHLD"] = [@ EXCEPT !.at = "deletejob",
                                                          !.pid = p]]
      /\ UNCHANGED <<table, errno, main, nest, pending, exit, events>>
  BY DEF WaitpidChild, At, Waitable
<1>2. "CHLD" \in Sigs /\ "CHLD" \notin KeySigs
  BY DEF Sigs, KeySigs
<1>3. /\ handler' \in [Sigs -> Frame]
      /\ \A s \in Sigs : s # "CHLD" => handler'[s] = handler[s]
      /\ handler'["CHLD"].at = "deletejob" /\ handler'["CHLD"].pid = p
  BY <1>1, <1>2 DEF TypeOK, Frame
<1>4. TypeOK'
  <2>1. proc' \in [Pids -> PState]
    BY <1>1 DEF TypeOK, PState
  <2>2. collected' \subseteq Pids /\ refused' \subseteq Pids
    BY <1>1 DEF TypeOK
  <2> QED BY <1>1, <1>3, <2>1, <2>2 DEF TypeOK
<1>5. FramesMatchNest'
  BY <1>1, <1>2, <1>3 DEF FramesMatchNest, KeyLabels
<1>6. KeyTargets'
  BY <1>1, <1>2, <1>3 DEF KeyTargets, KeySigs, Sigs
<1>7. pc \notin {"fork", "add", "unblock"} /\ Adding = {} /\ Adding' = {}
  BY <1>1, SigchldOutsideWindow DEF Adding
<1>8. Children' = IF proc[p] = "zombie" THEN Children \ {p} ELSE Children
  BY <1>1 DEF Children, TypeOK
<1>9. Uncollected' = Uncollected \ {p}
  BY <1>1, <1>8 DEF Uncollected
<1>10. BlockedWindow' /\ RecordsAreChildren'
  <2>1. p \in Children
    BY <1>1 DEF Children
  <2> QED BY <1>1, <1>7, <1>8, <2>1 DEF BlockedWindow, RecordsAreChildren
<1>11. PidInOneSlot' /\ ForegroundIsAwaited'
  BY <1>1 DEF PidInOneSlot, ForegroundIsAwaited
<1>12. TableMatchesKernel'
  <2>1. Deleting = {} /\ Deleting' = {p}
    BY <1>1, <1>3 DEF Deleting
  <2> QED BY <1>1, <1>7, <1>9, <2>1 DEF TableMatchesKernel
<1> QED BY <1>4, <1>5, <1>6, <1>10, <1>11, <1>12

LEMMA DeleteChildIInv ==
  ASSUME IInv, DeleteChild
  PROVE  IInv'
<1> USE DEF IInv, main, kernel
<1> DEFINE p == handler["CHLD"].pid
<1>1. /\ Runs("CHLD") /\ handler["CHLD"].at = "deletejob"
      /\ jobs' = deletejob(jobs, p)
      /\ nextjid' = nextjidAfterDelete(jobs, nextjid, p)
      /\ handler' = [handler EXCEPT !["CHLD"].at = "waitpid"] /\ nest' = nest
      /\ UNCHANGED <<errno, main, pending, kernel, exit, events>>
  BY DEF DeleteChild, At, Goto
<1>2. "CHLD" \in Sigs /\ "CHLD" \notin KeySigs
  BY DEF Sigs, KeySigs
<1>3. p \in Pids /\ jobs \in Table /\ nextjid \in Nat \ {0}
  BY <1>1, <1>2 DEF FramesMatchNest, TypeOK, Table
<1>4. /\ handler' \in [Sigs -> Frame]
      /\ \A s \in Sigs : s # "CHLD" => handler'[s] = handler[s]
      /\ handler'["CHLD"].at = "waitpid"
  BY <1>1, <1>2 DEF TypeOK, Frame
<1> HIDE DEF p
<1>5. TypeOK'
  <2>1. jobs' \in [Slots -> Job] /\ nextjid' \in Nat \ {0}
    BY <1>1, <1>3, DeleteType DEF Table
  <2> QED BY <1>1, <1>4, <2>1 DEF TypeOK
<1>6. FramesMatchNest'
  BY <1>1, <1>2, <1>4 DEF FramesMatchNest, KeyLabels
<1>7. pc \notin {"fork", "add", "unblock"} /\ Adding = {} /\ Adding' = {}
  BY <1>1, SigchldOutsideWindow DEF Adding
<1>8. BlockedWindow' /\ RecordsAreChildren'
  BY <1>1, <1>7 DEF BlockedWindow, RecordsAreChildren, Children
<1>9. \A i \in Slots : \/ jobs'[i] = jobs[i]
                       \/ jobs'[i] = clearjob /\ jobs[i].pid = p
  <2>1. CASE p \in Listed(jobs)
    BY <1>1, <1>3, <2>1, DeleteClearsSlot DEF Table
  <2>2. CASE p \notin Listed(jobs)
    BY <1>1, <2>2 DEF deletejob
  <2> QED BY <2>1, <2>2
<1>10. PidInOneSlot'
  BY <1>9 DEF PidInOneSlot, clearjob
<1>11. NoPid \notin Pids
  BY JobsAssumption
<1>12. ForegroundIsAwaited'
  <2>1. /\ pc' \in {"waitfg", "sleep"} => ~ bg'
        /\ pc' \in {"add", "unblock", "print", "waitfg", "sleep"} => pid' \in Pids
    BY <1>1 DEF ForegroundIsAwaited
  <2>2. ASSUME NEW i \in Slots
        PROVE  jobs'[i].state = "FG" <=>
                 /\ pc' \in {"unblock", "waitfg", "sleep"} /\ ~ bg'
                 /\ jobs'[i].pid = pid'
    <3>1. CASE jobs'[i] = jobs[i]
      BY <1>1, <3>1 DEF ForegroundIsAwaited
    <3>2. CASE jobs'[i] = clearjob
      BY <1>1, <1>11, <3>2 DEF ForegroundIsAwaited, clearjob
    <3> QED BY <1>9, <3>1, <3>2
  <2> QED BY <2>1, <2>2 DEF ForegroundIsAwaited
<1>13. KeyTargets'
  <2> SUFFICES ASSUME NEW s \in KeySigs, handler'[s].at \in KeyLabels,
                      NEW i \in Slots, jobs'[i].pid = handler'[s].pid
               PROVE  jobs'[i].state # "BG"
    BY DEF KeyTargets
  <2>1. handler'[s] = handler[s]
    BY <1>2, <1>4 DEF KeySigs, Sigs
  <2> QED BY <1>9, <2>1 DEF KeyTargets, clearjob
<1>14. TableMatchesKernel'
  <2>1. Deleting = {p} /\ Deleting' = {}
    BY <1>1, <1>4 DEF Deleting, p
  <2>2. Listed(jobs') = Listed(jobs) \ {p}
    BY <1>1, <1>3, ListedAfterDelete DEF PidInOneSlot
  <2> QED BY <1>1, <1>7, <2>1, <2>2
          DEF TableMatchesKernel, Uncollected, Children
<1> QED BY <1>5, <1>6, <1>8, <1>10, <1>12, <1>13, <1>14

LEMMA WaitpidDoneIInv ==
  ASSUME IInv, WaitpidDone
  PROVE  IInv'
<1>1. /\ Returns("CHLD", "ECHILD") /\ nest["CHLD"] > 0
      /\ handler["CHLD"].at # "deletejob"
      /\ UNCHANGED <<table, pending, kernel, exit, events>>
  BY DEF WaitpidDone, At, Runs
<1>2. Children' = Children
  BY <1>1 DEF Children, kernel
<1>3. "CHLD" \in Sigs
  BY DEF Sigs
<1>4. pending' \subseteq Sigs /\ proc' \in [Pids -> PState]
  BY <1>1 DEF IInv, TypeOK, kernel
<1> QED BY <1>1, <1>2, <1>3, <1>4, ReturnsIInv DEF kernel

----------------------------------------------------------------------------
(* sigint_handler and sigtstp_handler.                                     *)

(* A key handler moving on to its next step, its group flag free.          *)
LEMMA KeyMovesIInv ==
  ASSUME IInv, NEW s \in KeySigs, Runs(s), NEW l \in KeyLabels,
         NEW f \in Frame, f.at = l, f.pid \in Pids,
         \A i \in Slots : jobs[i].pid = f.pid => jobs[i].state # "BG",
         handler' = [handler EXCEPT ![s] = f],
         UNCHANGED <<table, errno, main, nest, pending, kernel, exit, events>>
  PROVE  IInv'
<1> USE DEF IInv, table, main, kernel
<1>1. s \in Sigs /\ s # "CHLD"
  BY DEF Sigs, KeySigs
<1>2. /\ handler' \in [Sigs -> Frame]
      /\ \A t \in Sigs : t # s => handler'[t] = handler[t]
      /\ handler'[s] = f
  BY <1>1 DEF TypeOK
<1>3. nest[s] # 0
  BY <1>1 DEF Runs, TypeOK
<1>4. TypeOK'
  BY <1>2 DEF TypeOK
<1>5. FramesMatchNest'
  BY <1>1, <1>2, <1>3 DEF FramesMatchNest, KeyLabels
<1>6. KeyTargets'
  BY <1>2 DEF KeyTargets, KeySigs, Sigs
<1>7. BlockedWindow' /\ RecordsAreChildren'
  BY DEF BlockedWindow, RecordsAreChildren, Uncollected, Children
<1>8. PidInOneSlot' /\ ForegroundIsAwaited'
  BY DEF PidInOneSlot, ForegroundIsAwaited
<1>9. TableMatchesKernel'
  <2>1. Deleting' = Deleting
    BY <1>1, <1>2 DEF Deleting, Sigs
  <2> QED BY <2>1 DEF TableMatchesKernel, Adding, Uncollected, Children
<1> QED BY <1>4, <1>5, <1>6, <1>7, <1>8, <1>9

(* A key handler returning after a step that leaves children in being.     *)
LEMMA KeyReturnsIInv ==
  ASSUME IInv, NEW s \in KeySigs, Runs(s), Returns(s, errno), table' = table,
         pending' \subseteq Sigs, exit' = exit, events' = events,
         proc' \in [Pids -> PState], Children' = Children,
         collected' = collected, refused' = refused
  PROVE  IInv'
<1>1. s \in Sigs /\ s # "CHLD"
  BY DEF Sigs, KeySigs
<1>2. nest[s] > 0 /\ handler[s].at # "deletejob"
  BY <1>1 DEF Runs, IInv, FramesMatchNest, KeyLabels
<1>3. errno \in {"other", "ECHILD"}
  BY DEF IInv, TypeOK
<1> QED BY <1>1, <1>2, <1>3, ReturnsIInv

LEMMA FindForegroundIInv ==
  ASSUME IInv, NEW s \in KeySigs, FindForeground(s)
  PROVE  IInv'
<1>1. Runs(s) /\ UNCHANGED <<table, pending, kernel, exit, events>>
  BY DEF FindForeground, At
<1>2. CASE fgpid(jobs) = NoPid
  <2>1. Returns(s, errno)
    BY <1>2 DEF FindForeground
  <2>2. Children' = Children /\ pending' \subseteq Sigs /\ proc' \in [Pids -> PState]
    BY <1>1 DEF Children, kernel, IInv, TypeOK
  <2> QED BY <1>1, <2>1, <2>2, KeyReturnsIInv DEF kernel
<1>3. CASE fgpid(jobs) # NoPid
  <2> DEFINE f == [handler[s] EXCEPT !.at = "getpgid", !.pid = fgpid(jobs)]
  <2>1. handler' = [handler EXCEPT ![s] = f] /\ UNCHANGED <<errno, main, nest>>
    BY <1>3 DEF FindForeground, IInv, TypeOK, KeySigs, Sigs
  <2>2. jobs \in Table
    BY DEF IInv, TypeOK, Table
  <2>3. PICK k \in Slots : jobs[k].state = "FG" /\ fgpid(jobs) = jobs[k].pid
    BY <1>3, <2>2, FgpidFinds
  <2>4. fgpid(jobs) \in Pids
    BY <1>3, <2>2, <2>3 DEF Table, Job
  <2>5. \A i \in Slots : jobs[i].pid = fgpid(jobs) => jobs[i].state # "BG"
    BY <1>3, <2>3 DEF IInv, PidInOneSlot
  <2>6. /\ f \in Frame /\ f.at = "getpgid" /\ f.pid = fgpid(jobs)
        /\ "getpgid" \in KeyLabels
    BY <2>4 DEF IInv, TypeOK, Frame, KeyLabels, KeySigs, Sigs
  <2> HIDE DEF f
  <2> QED BY <1>1, <2>1, <2>4, <2>5, <2>6, KeyMovesIInv
<1> QED BY <1>2, <1>3

LEMMA FindGroupIInv ==
  ASSUME IInv, NEW s \in KeySigs, FindGroup(s)
  PROVE  IInv'
<1>1. Runs(s) /\ handler[s].at = "getpgid"
  BY DEF FindGroup, At
<1>2. CASE proc[handler[s].pid] = "none"
  BY <1>2, ExitsIInv DEF FindGroup, EXITS
<1>3. CASE proc[handler[s].pid] # "none"
  <2> DEFINE f == [handler[s] EXCEPT !.at = "pid2jid",
                                     !.own = proc[handler[s].pid] # "forked"]
  <2>1. /\ handler' = [handler EXCEPT ![s] = f]
        /\ UNCHANGED <<table, errno, main, nest, pending, kernel, exit, events>>
    BY <1>3 DEF FindGroup, IInv, TypeOK, KeySigs, Sigs
  <2>2. s \in Sigs /\ handler[s] \in Frame
    BY DEF IInv, TypeOK, KeySigs, Sigs
  <2>3. handler[s].pid \in Pids
    BY <1>1, <2>2 DEF IInv, FramesMatchNest, KeyLabels
  <2>4. \A i \in Slots : jobs[i].pid = handler[s].pid => jobs[i].state # "BG"
    BY <1>1 DEF IInv, KeyTargets, KeyLabels
  <2>5. f \in Frame /\ f.at = "pid2jid" /\ f.pid = handler[s].pid
    <3>1. (proc[handler[s].pid] # "forked") \in BOOLEAN
      OBVIOUS
    <3> QED BY <2>2, <3>1 DEF Frame
  <2>6. "pid2jid" \in KeyLabels
    BY DEF KeyLabels
  <2> HIDE DEF f
  <2> QED BY <1>1, <2>1, <2>3, <2>4, <2>5, <2>6, KeyMovesIInv
<1> QED BY <1>2, <1>3

LEMMA FindJidIInv ==
  ASSUME IInv, NEW s \in KeySigs, FindJid(s)
  PROVE  IInv'
<1>1. /\ Runs(s) /\ handler[s].at = "pid2jid"
      /\ UNCHANGED <<table, pending, kernel, exit, events>>
  BY DEF FindJid, At
<1>2. CASE pid2jid(jobs, handler[s].pid) = 0
  <2>1. Returns(s, errno)
    BY <1>2 DEF FindJid
  <2>2. Children' = Children /\ pending' \subseteq Sigs /\ proc' \in [Pids -> PState]
    BY <1>1 DEF Children, kernel, IInv, TypeOK
  <2> QED BY <1>1, <2>1, <2>2, KeyReturnsIInv DEF kernel
<1>3. CASE pid2jid(jobs, handler[s].pid) # 0
  <2> DEFINE f == [handler[s] EXCEPT !.at = "kill"]
  <2>1. handler' = [handler EXCEPT ![s] = f] /\ UNCHANGED <<errno, main, nest>>
    BY <1>3 DEF FindJid, Goto, IInv, TypeOK, KeySigs, Sigs
  <2>2. s \in Sigs /\ handler[s] \in Frame
    BY DEF IInv, TypeOK, KeySigs, Sigs
  <2>3. handler[s].pid \in Pids
    BY <1>1, <2>2 DEF IInv, FramesMatchNest, KeyLabels
  <2>4. \A i \in Slots : jobs[i].pid = handler[s].pid => jobs[i].state # "BG"
    BY <1>1 DEF IInv, KeyTargets, KeyLabels
  <2>5. f \in Frame /\ f.at = "kill" /\ f.pid = handler[s].pid /\ "kill" \in KeyLabels
    BY <2>2 DEF Frame, KeyLabels
  <2> HIDE DEF f
  <2> QED BY <1>1, <2>1, <2>3, <2>4, <2>5, KeyMovesIInv
<1> QED BY <1>2, <1>3

LEMMA KillGroupIInv ==
  ASSUME IInv, NEW s \in KeySigs, KillGroup(s)
  PROVE  IInv'
<1> DEFINE p == handler[s].pid
<1>1. Runs(s) /\ handler[s].at = "kill"
  BY DEF KillGroup, At
<1>2. CASE /\ ~ handler[s].own
           /\ pending' = pending \cup {s}
           /\ Returns(s, errno)
           /\ UNCHANGED <<table, kernel, exit, events>>
  <2>1. Children' = Children /\ pending' \subseteq Sigs /\ proc' \in [Pids -> PState]
    BY <1>2 DEF Children, kernel, IInv, TypeOK, KeySigs, Sigs
  <2> QED BY <1>1, <1>2, <2>1, KeyReturnsIInv DEF kernel
<1>3. CASE Exits("Kill error.")
  BY <1>3, ExitsIInv DEF EXITS
<1>4. CASE /\ proc[p] # "none"
           /\ \E st \in IF proc[p] = "running" THEN Effect(s) ELSE {proc[p]} :
                /\ proc' = [proc EXCEPT ![p] = st]
                /\ pending' = IF st = proc[p] THEN pending
                              ELSE pending \cup {"CHLD"}
           /\ Returns(s, errno)
           /\ UNCHANGED <<table, collected, refused, exit, events>>
  <2>1. PICK st \in IF proc[p] = "running" THEN Effect(s) ELSE {proc[p]} :
          /\ proc' = [proc EXCEPT ![p] = st]
          /\ pending' = IF st = proc[p] THEN pending ELSE pending \cup {"CHLD"}
    BY <1>4
  <2>2. s \in Sigs /\ p \in Pids
    BY <1>1 DEF IInv, FramesMatchNest, KeyLabels, KeySigs, Sigs
  <2>3. st \in {"zombie", "stopping", "running", proc[p]}
    BY <2>1 DEF Effect
  <2>4. st \in PState /\ st # "none"
    BY <1>4, <2>2, <2>3 DEF IInv, TypeOK, PState
  <2>5. proc' \in [Pids -> PState] /\ Children' = Children
    BY <1>4, <2>1, <2>2, <2>4 DEF IInv, TypeOK, Children
  <2>6. pending' \subseteq Sigs
    BY <2>1 DEF IInv, TypeOK, Sigs
  <2> QED BY <1>1, <1>4, <2>5, <2>6, KeyReturnsIInv
<1> QED BY <1>2, <1>3, <1>4 DEF KillGroup

----------------------------------------------------------------------------
(* The environment.                                                        *)

LEMMA PressKeyIInv ==
  ASSUME IInv, NEW s \in KeySigs, PressKey(s)
  PROVE  IInv'
<1> USE DEF IInv, PressKey, table, main, frames, kernel
<1>1. TypeOK'
  BY TshAssumption DEF TypeOK, KeySigs, Sigs
<1>2. FramesMatchNest' /\ KeyTargets'
  BY DEF FramesMatchNest, KeyTargets
<1>3. BlockedWindow' /\ RecordsAreChildren'
  BY DEF BlockedWindow, RecordsAreChildren, Uncollected, Children
<1>4. PidInOneSlot' /\ ForegroundIsAwaited'
  BY DEF PidInOneSlot, ForegroundIsAwaited
<1>5. TableMatchesKernel'
  BY DEF TableMatchesKernel, Deleting, Adding, Uncollected, Children
<1> QED BY <1>1, <1>2, <1>3, <1>4, <1>5

(* A child changes state without appearing or being reaped.                *)
LEMMA ChildGoesIInv ==
  ASSUME IInv, NEW p \in Pids, NEW from \in SUBSET (PState \ {"none"}),
         NEW to \in PState \ {"none"}, ChildGoes(p, from, to),
         pending' \subseteq Sigs, events' \in Nat
  PROVE  IInv'
<1> USE DEF IInv, ChildGoes, table, main, frames
<1>1. proc' \in [Pids -> PState] /\ Children' = Children
  BY DEF TypeOK, Children
<1>2. Uncollected' = Uncollected
  BY <1>1 DEF Uncollected
<1>3. TypeOK'
  BY <1>1 DEF TypeOK
<1>4. FramesMatchNest' /\ KeyTargets'
  BY DEF FramesMatchNest, KeyTargets
<1>5. BlockedWindow' /\ RecordsAreChildren'
  BY <1>1, <1>2 DEF BlockedWindow, RecordsAreChildren
<1>6. PidInOneSlot' /\ ForegroundIsAwaited'
  BY DEF PidInOneSlot, ForegroundIsAwaited
<1>7. TableMatchesKernel'
  BY <1>2 DEF TableMatchesKernel, Deleting, Adding
<1> QED BY <1>3, <1>4, <1>5, <1>6, <1>7

LEMMA EnvironmentIInv ==
  ASSUME IInv, Environment
  PROVE  IInv'
<1>1. ASSUME NEW s \in KeySigs, PressKey(s) PROVE IInv'
  BY <1>1, PressKeyIInv
<1>2. CASE Sigquit
  BY <1>2, ExitsIInv DEF Sigquit, EXITS
<1>3. /\ pending \subseteq Sigs /\ pending \cup {"CHLD"} \subseteq Sigs
      /\ events \in Nat /\ events + 1 \in Nat
  BY DEF IInv, TypeOK, Sigs
<1>4. /\ {"forked"} \in SUBSET (PState \ {"none"})
      /\ {"grouped"} \in SUBSET (PState \ {"none"})
      /\ {"running"} \in SUBSET (PState \ {"none"})
      /\ {"grouped", "running", "stopping", "stopped"} \in SUBSET (PState \ {"none"})
      /\ {"stopping", "stopped"} \in SUBSET (PState \ {"none"})
      /\ {"grouped", "running", "zombie", "stopping"} \subseteq PState \ {"none"}
  BY DEF PState
<1>5. ASSUME NEW p \in Pids, ChildStep(p) PROVE IInv'
  BY <1>3, <1>4, <1>5, ChildGoesIInv DEF ChildStep, ChildSetpgid, ChildExec
<1>6. ASSUME NEW p \in Pids, ChildEnds(p) PROVE IInv'
  BY <1>3, <1>4, <1>6, ChildGoesIInv DEF ChildEnds
<1>7. ASSUME NEW p \in Pids, ChildStops(p) PROVE IInv'
  BY <1>3, <1>4, <1>7, ChildGoesIInv DEF ChildStops
<1>8. ASSUME NEW p \in Pids, ChildContinues(p) PROVE IInv'
  BY <1>3, <1>4, <1>8, ChildGoesIInv DEF ChildContinues
<1> QED BY <1>1, <1>2, <1>5, <1>6, <1>7, <1>8 DEF Environment

----------------------------------------------------------------------------
(* The theorems.                                                           *)

LEMMA NextIInv == IInv /\ [Next]_vars => IInv'
<1> SUFFICES ASSUME IInv, [Next]_vars PROVE IInv'
  OBVIOUS
<1>1. CASE ReadCommand
  BY <1>1, ReadCommandIInv
<1>2. CASE MainStep
  <2>1. ASSUME NEW p \in Pids, ForkChild(p) PROVE IInv'
    BY <2>1, ForkChildIInv
  <2>2. CASE ForkFails
    BY <2>2, ExitsIInv DEF ForkFails, EXITS
  <2>3. CASE ListChild
    BY <2>3, ListChildIInv
  <2>4. CASE UnblockSigchld
    BY <2>4, UnblockIInv
  <2>5. CASE PrintJob
    BY <2>5, PrintJobIInv
  <2>6. CASE WaitFg
    BY <2>6, WaitFgIInv
  <2>7. CASE SleepEnds
    BY <2>7, SleepEndsIInv
  <2> QED BY <1>2, <2>1, <2>2, <2>3, <2>4, <2>5, <2>6, <2>7 DEF MainStep
<1>3. ASSUME NEW s \in Sigs, Deliver(s) PROVE IInv'
  BY <1>3, DeliverIInv
<1>4. CASE SigchldStep
  <2>1. ASSUME NEW p \in Pids, WaitpidChild(p) PROVE IInv'
    BY <2>1, WaitpidChildIInv
  <2>2. CASE DeleteChild
    BY <2>2, DeleteChildIInv
  <2>3. CASE WaitpidDone
    BY <2>3, WaitpidDoneIInv
  <2>4. CASE WaitpidExits
    BY <2>4, ExitsIInv DEF WaitpidExits, EXITS
  <2> QED BY <1>4, <2>1, <2>2, <2>3, <2>4 DEF SigchldStep
<1>5. ASSUME NEW s \in KeySigs, KeyStep(s) PROVE IInv'
  BY <1>5, FindForegroundIInv, FindGroupIInv, FindJidIInv, KillGroupIInv
     DEF KeyStep
<1>6. CASE Environment
  BY <1>6, EnvironmentIInv
<1>7. CASE UNCHANGED vars
  <2> USE <1>7 DEF vars, table, main, frames, kernel, IInv
  <2>1. TypeOK'
    BY DEF TypeOK
  <2>2. FramesMatchNest' /\ KeyTargets'
    BY DEF FramesMatchNest, KeyTargets
  <2>3. BlockedWindow' /\ RecordsAreChildren'
    BY DEF BlockedWindow, RecordsAreChildren, Uncollected, Children
  <2>4. PidInOneSlot' /\ ForegroundIsAwaited'
    BY DEF PidInOneSlot, ForegroundIsAwaited
  <2>5. TableMatchesKernel'
    BY DEF TableMatchesKernel, Deleting, Adding, Uncollected, Children
  <2> QED BY <2>1, <2>2, <2>3, <2>4, <2>5
<1> QED BY <1>1, <1>2, <1>3, <1>4, <1>5, <1>6, <1>7 DEF Next, Exited

THEOREM Invariance == Spec => []IInv
BY InitIInv, NextIInv, PTL DEF Spec

(* Every variable of the shell and of its environment keeps its type.      *)
THEOREM TypeCorrect == Spec => []TypeOK
<1>1. IInv => TypeOK
  BY DEF IInv
<1> QED BY <1>1, Invariance, PTL

(* The job list is the set of uncollected children: whatever the           *)
(* interleaving of eval, handlers and children, sigchld_handler never      *)
(* deletes a job before eval adds it, and no job outlives its process.     *)
THEOREM TableMatches == Spec => []TableMatchesKernel
<1>1. IInv => TableMatchesKernel
  BY DEF IInv
<1> QED BY <1>1, Invariance, PTL

(* "At most 1 job can be in the FG state" (tsh.c:43), and no pid is in two *)
(* slots.                                                                  *)
THEOREM AtMostOneForeground == Spec => []OneForeground
<1>1. IInv => OneForeground
  <2> SUFFICES ASSUME IInv PROVE OneForeground
    OBVIOUS
  <2>1. ASSUME NEW p \in Pids, NEW i \in SlotsOf(jobs, p), NEW j \in SlotsOf(jobs, p)
        PROVE  i = j
    BY JobsAssumption DEF IInv, PidInOneSlot, SlotsOf
  <2>2. ASSUME NEW i \in SlotsIn(jobs, "FG"), NEW j \in SlotsIn(jobs, "FG")
        PROVE  i = j
    <3>1. jobs[i].pid = pid /\ jobs[j].pid = pid /\ pid \in Pids
      BY DEF IInv, ForegroundIsAwaited, SlotsIn
    <3> QED BY <3>1, JobsAssumption DEF IInv, PidInOneSlot, SlotsIn
  <2> QED BY <2>1, <2>2 DEF OneForeground
<1> QED BY <1>1, Invariance, PTL

(* Back at the prompt, no job is in the foreground.                        *)
THEOREM PromptFree == Spec => []PromptIsFree
<1>1. IInv => PromptIsFree
  <2> SUFFICES ASSUME IInv, pc \in {"read", "fork", "add", "print"}
               PROVE  fgpid(jobs) = NoPid
    BY DEF PromptIsFree
  <2>1. \A i \in Slots : jobs[i].state # "FG"
    BY DEF IInv, ForegroundIsAwaited
  <2> QED BY <2>1, FgpidFinds DEF IInv, TypeOK, Table
<1> QED BY <1>1, Invariance, PTL

(* waitfg returns only once waitpid has reported its child, or if the full *)
(* table never listed it.                                                  *)
THEOREM WaitfgWaitsForChild == Spec => WaitfgWaits
<1>1. IInv /\ [Next]_vars =>
        [pc = "waitfg" /\ pc' = "read" => pid \notin Uncollected \ refused]_vars
  <2> SUFFICES ASSUME IInv, [Next]_vars, pc = "waitfg", pc' = "read",
                      pid \in Uncollected \ refused
               PROVE  FALSE
    OBVIOUS
  <2>1. WaitFg
    BY DEF Next, vars, main, table, frames, kernel, ReadCommand, MainStep, ForkChild,
           ForkFails, ListChild, UnblockSigchld, PrintJob, SleepEnds, Deliver,
           SigchldStep, WaitpidChild, DeleteChild, WaitpidDone, WaitpidExits, Returns,
           KeyStep, FindForeground, FindGroup, FindJid, KillGroup, Exits,
           Environment, PressKey, Sigquit, ChildStep, ChildSetpgid, ChildExec,
           ChildEnds, ChildStops, ChildContinues, ChildGoes, Exited
  <2>2. fgpid(jobs) # pid
    BY <2>1 DEF WaitFg
  <2>3. pid \in Listed(jobs)
    BY <2>1, MainAlone DEF WaitFg, IInv, TableMatchesKernel, Adding
  <2>4. PICK i \in Slots : jobs[i].pid = pid
    BY <2>3 DEF Listed
  <2>5. jobs[i].state = "FG"
    BY <2>4 DEF IInv, ForegroundIsAwaited
  <2>6. PICK j \in Slots : jobs[j].state = "FG" /\ fgpid(jobs) = jobs[j].pid
    BY <2>5, FgpidFinds DEF IInv, TypeOK, Table
  <2>7. jobs[j].pid = pid
    BY <2>6 DEF IInv, ForegroundIsAwaited
  <2> QED BY <2>2, <2>6, <2>7
<1> QED BY <1>1, Invariance, PTL DEF Spec, WaitfgWaits

(* A key handler's kill changes no process that is listed as a background  *)
(* job: the pid it found through fgpid cannot have become one since,       *)
(* because the main flow does not run under a handler.                     *)
THEOREM BackgroundIsSafe == Spec => BackgroundSafe
<1> DEFINE Safe(s) == \A p \in Pids : proc'[p] # proc[p] =>
                        \A i \in SlotsOf(jobs, p) : jobs[i].state # "BG"
<1>1. ASSUME IInv, [Next]_vars, NEW s \in KeySigs, Killed(s) PROVE Safe(s)
  <2>1. s \in Sigs /\ s # "CHLD" /\ Runs(s) /\ nest[s] # 0
        /\ handler[s].at = "kill" /\ handler'[s].at = "idle"
    BY <1>1 DEF Killed, At, Runs, KeySigs, Sigs, IInv, TypeOK
  <2>2. handler'[s] # handler[s]
    BY <2>1
  <2>3. CASE KillGroup(s)
    <3>1. \A p \in Pids : proc'[p] # proc[p] => p = handler[s].pid
      BY <2>3, <1>1 DEF KillGroup, kernel, Exits, IInv, TypeOK
    <3> QED BY <1>1, <2>1, <3>1 DEF IInv, KeyTargets, KeyLabels, SlotsOf
  <2>4. ASSUME NEW t \in Sigs, Deliver(t) PROVE FALSE
    BY <1>1, <2>1, <2>2, <2>4 DEF Deliver, IInv, TypeOK
  <2>5. ASSUME SigchldStep PROVE FALSE
    BY <1>1, <2>1, <2>2, <2>5 DEF SigchldStep, WaitpidChild, DeleteChild, Goto,
       WaitpidDone, WaitpidExits, Returns, Exits, frames, IInv, TypeOK, Sigs
  <2>6. ASSUME NEW t \in KeySigs, KeyStep(t), ~ KillGroup(s) PROVE FALSE
    <3>1. t # s
      BY <2>1, <2>2, <2>6 DEF KeyStep, FindForeground, FindGroup, FindJid, At
    <3>2. handler'[s] = handler[s]
      BY <1>1, <2>6, <3>1 DEF KeyStep, FindForeground, FindGroup, FindJid,
         KillGroup, Goto, Returns, Exits, frames, IInv, TypeOK, KeySigs, Sigs
    <3> QED BY <2>2, <3>2
  <2>7. ASSUME ReadCommand \/ MainStep PROVE FALSE
    BY <2>2, <2>7 DEF ReadCommand, MainStep, ForkChild, ForkFails, ListChild,
       UnblockSigchld, PrintJob, WaitFg, SleepEnds, Exits, frames
  <2>8. ASSUME Environment \/ Exited \/ UNCHANGED vars PROVE FALSE
    BY <2>2, <2>8 DEF Environment, PressKey, Sigquit, ChildStep, ChildSetpgid,
       ChildExec, ChildEnds, ChildStops, ChildContinues, ChildGoes, Exits,
       Exited, frames, vars
  <2> HIDE DEF Safe
  <2> QED BY <1>1, <2>3, <2>4, <2>5, <2>6, <2>7, <2>8 DEF Next
<1>2. IInv /\ [Next]_vars => [\A s \in KeySigs : Killed(s) => Safe(s)]_vars
  BY <1>1
<1> QED BY <1>2, Invariance, PTL DEF Spec, BackgroundSafe

\* A deletion leaves nextjid above the ID of every job that is listed
\* (deletejob, line 499).
THEOREM DeletionFreshens == Spec => DeleteFreshens
<1>1. ASSUME IInv, [Next]_vars, At("CHLD", "deletejob"), jobs' # jobs
      PROVE  \A i \in Slots : jobs'[i].jid < nextjid'
  <2>1. nest["CHLD"] > 0 /\ ~ MainRuns /\ handler["CHLD"].at = "deletejob"
    BY <1>1 DEF At, Runs, MainRuns, Sigs, IInv, TypeOK
  <2>2. CASE DeleteChild
    <3> DEFINE p == handler["CHLD"].pid
    <3>1. jobs' = deletejob(jobs, p) /\ nextjid' = nextjidAfterDelete(jobs, nextjid, p)
      BY <2>2 DEF DeleteChild
    <3>2. p \in Listed(jobs)
      BY <1>1, <3>1 DEF deletejob
    <3>3. deletejob(jobs, p) \in Table
      <4>1. p \in Pids /\ jobs \in Table /\ nextjid \in Nat \ {0}
        BY <1>1, <3>2 DEF IInv, TypeOK, Table, Listed, Job
      <4> QED BY <4>1, DeleteType
    <3> HIDE DEF p
    <3>4. nextjid' = maxjid(jobs') + 1 /\ jobs' \in Table
      BY <3>1, <3>2, <3>3 DEF nextjidAfterDelete
    <3>5. \A i \in Slots : jobs'[i].jid <= maxjid(jobs') /\ jobs'[i].jid \in Nat
      BY <3>4, MaxjidBounds DEF Table, Job
    <3>6. maxjid(jobs') \in Nat
      BY <3>4, MaxjidBounds
    <3> QED BY <3>4, <3>5, <3>6
  <2>3. ASSUME NEW t \in Sigs, Deliver(t) PROVE FALSE
    BY <1>1, <2>3 DEF Deliver, table
  <2>4. ASSUME SigchldStep, ~ DeleteChild PROVE FALSE
    BY <1>1, <2>4 DEF SigchldStep, WaitpidChild, WaitpidDone, WaitpidExits, Exits, table
  <2>5. ASSUME NEW t \in KeySigs, KeyStep(t) PROVE FALSE
    BY <1>1, <2>5 DEF KeyStep, FindForeground, FindGroup, FindJid, KillGroup, Exits, table
  <2>6. ASSUME ReadCommand \/ MainStep PROVE FALSE
    BY <2>1, <2>6 DEF ReadCommand, MainStep, ForkChild, ForkFails, ListChild,
       UnblockSigchld, PrintJob, WaitFg, SleepEnds
  <2>7. ASSUME Environment \/ Exited \/ UNCHANGED vars PROVE FALSE
    BY <1>1, <2>7 DEF Environment, PressKey, Sigquit, ChildStep, ChildSetpgid,
       ChildExec, ChildEnds, ChildStops, ChildContinues, ChildGoes, Exits,
       Exited, table, vars
  <2> QED BY <1>1, <2>2, <2>3, <2>4, <2>5, <2>6, <2>7 DEF Next
<1> DEFINE Fresh == At("CHLD", "deletejob") /\ jobs' # jobs
                      => \A i \in Slots : jobs'[i].jid < nextjid'
<1>2. IInv /\ [Next]_vars => [Fresh]_vars
  BY <1>1
<1> QED BY <1>2, Invariance, PTL DEF Spec, DeleteFreshens

----------------------------------------------------------------------------
(* The shell implements job control.  Four steps of it are steps of        *)
(* JobControl, all others are silent there.                                *)

Silent == jobs' = jobs /\ Uncollected' = Uncollected /\ Deleting' \subseteq Deleting

\* Whoever is listed runs in the foreground or the background, and whom the
\* handler is about to delete has been collected.
JobsAreJobs ==
  /\ \A i \in Slots : jobs[i].pid # NoPid => jobs[i].state \in {"FG", "BG"}
  /\ Deleting \cap Uncollected = {}

LEMMA ReturnsSilently ==
  ASSUME IInv, NEW s \in Sigs, NEW e, Returns(s, e)
  PROVE  Deleting' \subseteq Deleting
<1>1. handler' = [handler EXCEPT ![s] = IdleFrame] /\ handler \in [Sigs -> Frame]
  BY DEF Returns, IInv, TypeOK
<1>2. "CHLD" \in Sigs
  BY DEF Sigs
<1>3. handler'["CHLD"] = handler["CHLD"] \/ handler'["CHLD"] = IdleFrame
  BY <1>1, <1>2
<1> QED BY <1>3 DEF Deleting, IdleFrame

LEMMA SilentSteps ==
  ASSUME IInv, [Next]_vars, \A p \in Pids : ~ ForkChild(p) /\ ~ WaitpidChild(p),
         ~ ListChild, ~ DeleteChild
  PROVE  Silent
<1>1. ASSUME UNCHANGED <<jobs, proc, collected, handler>> PROVE Silent
  BY <1>1 DEF Silent, Uncollected, Children, Deleting
<1>2. ASSUME NEW why, Exits(why) PROVE Silent
  BY <1>1, <1>2 DEF Exits, table, frames, kernel
<1>3. ASSUME UNCHANGED <<jobs, proc, collected>>, Deleting' \subseteq Deleting PROVE Silent
  BY <1>3 DEF Silent, Uncollected, Children
<1>4. CASE ReadCommand \/ MainStep
  BY <1>1, <1>2, <1>4 DEF ReadCommand, MainStep, ForkFails, UnblockSigchld, PrintJob, WaitFg,
     SleepEnds, table, frames, kernel
<1>5. ASSUME NEW s \in Sigs, Deliver(s) PROVE Silent
  <2>1. /\ handler' = [handler EXCEPT ![s] = [IdleFrame EXCEPT !.at = FirstStep(s)]]
        /\ UNCHANGED <<jobs, proc, collected>>
    BY <1>5 DEF Deliver, table, kernel
  <2>2. handler'["CHLD"] = handler["CHLD"] \/ handler'["CHLD"].at = "waitpid"
    BY <2>1 DEF IInv, TypeOK, Sigs, FirstStep, IdleFrame
  <2> QED BY <1>3, <2>1, <2>2 DEF Deleting
<1>6. CASE SigchldStep
  <2>1. CASE WaitpidDone
    <3>1. Returns("CHLD", "ECHILD") /\ UNCHANGED <<jobs, proc, collected>> /\ "CHLD" \in Sigs
      BY <2>1 DEF WaitpidDone, table, kernel, Sigs
    <3> QED BY <1>3, <3>1, ReturnsSilently
  <2>2. CASE WaitpidExits
    BY <1>2, <2>2 DEF WaitpidExits
  <2> QED BY <1>6, <2>1, <2>2 DEF SigchldStep
<1>7. ASSUME NEW s \in KeySigs, KeyStep(s) PROVE Silent
  <2>1. s \in Sigs /\ s # "CHLD" /\ "CHLD" \in Sigs /\ handler \in [Sigs -> Frame]
    BY DEF KeySigs, Sigs, IInv, TypeOK
  <2>2. ASSUME NEW f, handler' = [handler EXCEPT ![s] = f], UNCHANGED <<jobs, proc, collected>>
        PROVE  Silent
    <3>1. handler'["CHLD"] = handler["CHLD"]
      BY <2>1, <2>2
    <3> QED BY <1>3, <2>2, <3>1 DEF Deleting
  <2>3. ASSUME NEW e, Returns(s, e), UNCHANGED <<jobs, proc, collected>> PROVE Silent
    BY <1>3, <2>1, <2>3, ReturnsSilently
  <2>4. CASE FindForeground(s)
    BY <2>2, <2>3, <2>4 DEF FindForeground, table, kernel
  <2>5. CASE FindGroup(s)
    BY <1>2, <2>2, <2>5 DEF FindGroup, table, kernel
  <2>6. CASE FindJid(s)
    <3>1. UNCHANGED <<jobs, proc, collected>>
      BY <2>6 DEF FindJid, table, kernel
    <3>2. CASE Returns(s, errno)
      BY <2>3, <3>1, <3>2
    <3>3. CASE Goto(s, "kill")
      <4>1. handler' = [handler EXCEPT ![s].at = "kill"]
        BY <3>3 DEF Goto
      <4>2. handler'["CHLD"] = handler["CHLD"]
        BY <2>1, <4>1
      <4> QED BY <1>3, <3>1, <4>2 DEF Deleting
    <3> QED BY <2>6, <3>2, <3>3 DEF FindJid
  <2>7. CASE KillGroup(s)
    <3> DEFINE p == handler[s].pid
    <3>1. handler[s].at = "kill"
      BY <2>7 DEF KillGroup, At
    <3>2. p \in Pids
      BY <2>1, <3>1 DEF IInv, FramesMatchNest, KeyLabels
    <3>3. CASE UNCHANGED kernel /\ Returns(s, errno) /\ UNCHANGED table
      BY <2>3, <3>3 DEF kernel, table
    <3>4. CASE Exits("Kill error.")
      BY <1>2, <3>4
    <3>5. CASE /\ proc[p] # "none"
               /\ \E st \in IF proc[p] = "running" THEN Effect(s) ELSE {proc[p]} :
                    proc' = [proc EXCEPT ![p] = st]
               /\ Returns(s, errno) /\ UNCHANGED <<jobs, collected>>
      <4>1. PICK st \in IF proc[p] = "running" THEN Effect(s) ELSE {proc[p]} :
              proc' = [proc EXCEPT ![p] = st]
        BY <3>5
      <4>2. st \in {"running", "zombie", "stopping", proc[p]}
        BY <4>1 DEF Effect
      <4>3. st # "none"
        BY <3>5, <4>2
      <4> HIDE DEF p
      <4>4. Children' = Children
        BY <3>2, <4>1, <4>3, <3>5 DEF Children, IInv, TypeOK
      <4>5. Uncollected' = Uncollected
        BY <3>5, <4>4 DEF Uncollected
      <4> QED BY <2>1, <3>5, <4>5, ReturnsSilently DEF Silent
    <3> QED BY <2>7, <3>3, <3>4, <3>5 DEF KillGroup, table
  <2> QED BY <1>7, <2>4, <2>5, <2>6, <2>7 DEF KeyStep
<1>8. CASE Environment
  <2>1. CASE \E s \in KeySigs : PressKey(s)
    BY <1>1, <2>1 DEF PressKey, table, frames, kernel
  <2>2. CASE Sigquit
    BY <1>2, <2>2 DEF Sigquit
  <2>3. ASSUME NEW p \in Pids, NEW from, NEW to, ChildGoes(p, from, to),
               "none" \notin from, to # "none"
        PROVE  Silent
    <3>1. /\ proc[p] # "none" /\ proc' = [proc EXCEPT ![p] = to]
          /\ UNCHANGED <<jobs, collected, handler>>
      BY <2>3 DEF ChildGoes, table, frames
    <3>2. Children' = Children
      BY <2>3, <3>1 DEF Children, IInv, TypeOK
    <3> QED BY <3>1, <3>2 DEF Silent, Uncollected, Deleting
  <2>4. ASSUME NEW p \in Pids,
               ChildStep(p) \/ ChildEnds(p) \/ ChildStops(p) \/ ChildContinues(p)
        PROVE  Silent
    BY <2>3, <2>4 DEF ChildStep, ChildSetpgid, ChildExec, ChildEnds, ChildStops, ChildContinues
  <2> QED BY <1>8, <2>1, <2>2, <2>4 DEF Environment
<1>9. CASE UNCHANGED vars
  BY <1>1, <1>9 DEF vars, table, frames, kernel
<1> QED BY <1>4, <1>5, <1>6, <1>7, <1>8, <1>9 DEF Next, Exited

\* What the four other steps do to the table and to the children.
LEMMA ForkChildStep ==
  ASSUME IInv, NEW p \in Pids, ForkChild(p)
  PROVE  /\ UNCHANGED jobs /\ Uncollected' = Uncollected \cup {p}
         /\ p \notin Uncollected /\ p \notin Listed(jobs)
         /\ Deleting = {} /\ Deleting' = {}
         /\ \A i \in Slots : jobs[i].state # "FG"
<1> USE DEF IInv, ForkChild, table, frames
<1>1. Deleting = {} /\ Deleting' = {} /\ Adding = {}
  BY MainAlone DEF Deleting, Adding
<1>2. /\ Uncollected' = Uncollected \cup {p} /\ p \notin Uncollected /\ UNCHANGED jobs
  BY DEF TypeOK, Children, Uncollected, RecordsAreChildren
<1>3. p \notin Listed(jobs)
  BY <1>1, <1>2 DEF TableMatchesKernel
<1>4. \A i \in Slots : jobs[i].state # "FG"
  BY DEF ForegroundIsAwaited
<1> QED BY <1>1, <1>2, <1>3, <1>4

LEMMA ListChildStep ==
  ASSUME IInv, ListChild
  PROVE  /\ pid \in Pids /\ pid \in Uncollected /\ pid \notin Listed(jobs)
         /\ Uncollected' = Uncollected /\ Deleting' = {}
         /\ \A i \in Slots : jobs[i].state # "FG"
         /\ \/ jobs' = jobs
            \/ \E k \in Slots, st \in {"FG", "BG"} :
                 /\ jobs[k].pid = NoPid
                 /\ jobs' = [jobs EXCEPT ![k] = [pid |-> pid, jid |-> nextjid, state |-> st]]
<1> USE DEF IInv, ListChild, frames
<1> DEFINE st == IF bg THEN "BG" ELSE "FG"
<1>1. /\ st \in JobState /\ st \in {"FG", "BG"}
      /\ jobs \in Table /\ nextjid \in Nat /\ pid \in Pids
  BY DEF JobState, TypeOK, Table, ForegroundIsAwaited
<1>2. Deleting = {} /\ Deleting' = {} /\ Adding = {pid}
  BY MainAlone DEF Deleting, Adding, Sigs
<1>3. pid \in Uncollected /\ pid \notin Listed(jobs) /\ Uncollected' = Uncollected
  BY <1>2 DEF BlockedWindow, TableMatchesKernel, Uncollected, Children
<1>4. \A i \in Slots : jobs[i].state # "FG"
  BY DEF ForegroundIsAwaited
<1>5. jobs' = addjob(jobs, nextjid, pid, st)
  OBVIOUS
<1> HIDE DEF st, ListChild, IInv
<1>6. CASE TableFull(jobs)
  BY <1>1, <1>2, <1>3, <1>4, <1>5, <1>6 DEF addjob
<1>7. CASE ~ TableFull(jobs)
  <2>1. \E k \in Slots :
          /\ jobs[k].pid = NoPid
          /\ jobs' = [jobs EXCEPT ![k] = [pid |-> pid, jid |-> nextjid, state |-> st]]
    BY <1>1, <1>5, <1>7, AddRewritesUnused
  <2> QED BY <1>1, <1>2, <1>3, <1>4, <2>1
<1> QED BY <1>6, <1>7

LEMMA WaitpidChildStep ==
  ASSUME IInv, NEW p \in Pids, WaitpidChild(p)
  PROVE  UNCHANGED jobs /\ Uncollected' = Uncollected \ {p} /\ Deleting' = {p}
<1> USE DEF IInv, table, main
<1>1. /\ proc[p] \in {"zombie", "stopping"}
      /\ proc' = [proc EXCEPT ![p] = IF @ = "zombie" THEN "none" ELSE "stopped"]
      /\ collected' = IF proc[p] = "zombie" THEN collected \ {p}
                      ELSE collected \cup {p}
      /\ handler' = [handler EXCEPT !["CHLD"] = [@ EXCEPT !.at = "deletejob",
                                                          !.pid = p]]
      /\ UNCHANGED jobs
  BY DEF WaitpidChild, At, Waitable
<1>2. handler'["CHLD"].at = "deletejob" /\ handler'["CHLD"].pid = p
  BY <1>1 DEF TypeOK, Frame, Sigs
<1>3. Children' = IF proc[p] = "zombie" THEN Children \ {p} ELSE Children
  BY <1>1 DEF Children, TypeOK
<1>4. Uncollected' = Uncollected \ {p}
  BY <1>1, <1>3 DEF Uncollected
<1> QED BY <1>1, <1>2, <1>4 DEF Deleting

LEMMA DeleteChildStep ==
  ASSUME IInv, DeleteChild
  PROVE  \E p \in Pids :
           /\ Deleting = {p} /\ Deleting' = {} /\ Uncollected' = Uncollected
           /\ \/ jobs' = jobs
              \/ \E k \in Slots : /\ jobs[k].pid = p
                                  /\ jobs' = [jobs EXCEPT ![k] = clearjob]
<1> DEFINE p == handler["CHLD"].pid
<1>1. /\ handler["CHLD"].at = "deletejob" /\ jobs' = deletejob(jobs, p)
      /\ handler' = [handler EXCEPT !["CHLD"].at = "waitpid"]
      /\ UNCHANGED <<proc, collected>>
  BY DEF DeleteChild, At, Goto, kernel
<1>2. p \in Pids /\ jobs \in Table /\ handler'["CHLD"].at = "waitpid"
  BY <1>1 DEF IInv, FramesMatchNest, TypeOK, Table, Sigs, Frame
<1>3. Deleting = {p} /\ Deleting' = {} /\ Uncollected' = Uncollected
  BY <1>1, <1>2 DEF Deleting, Uncollected, Children
<1> HIDE DEF p
<1>4. CASE p \in Listed(jobs)
  BY <1>1, <1>2, <1>3, <1>4, DeleteClearsSlot
<1>5. CASE p \notin Listed(jobs)
  BY <1>1, <1>2, <1>3, <1>5 DEF deletejob
<1> QED BY <1>4, <1>5

LEMMA JobsAreJobsStep ==
  ASSUME IInv, JobsAreJobs, [Next]_vars
  PROVE  JobsAreJobs'
<1>1. jobs \in Table
  BY DEF IInv, TypeOK, Table
<1>2. CASE Silent
  BY <1>2 DEF Silent, JobsAreJobs
<1>3. ASSUME NEW p \in Pids, ForkChild(p) PROVE JobsAreJobs'
  BY <1>3, ForkChildStep DEF JobsAreJobs
<1>4. CASE ListChild
  <2>1. CASE jobs' = jobs
    BY <1>4, <2>1, ListChildStep DEF JobsAreJobs
  <2>2. CASE jobs' # jobs
    <3>1. PICK k \in Slots, st \in {"FG", "BG"} :
            jobs' = [jobs EXCEPT ![k] = [pid |-> pid, jid |-> nextjid, state |-> st]]
      BY <1>4, <2>2, ListChildStep
    <3>2. \A i \in Slots : jobs'[i] = jobs[i] \/ jobs'[i].state \in {"FG", "BG"}
      BY <1>1, <3>1 DEF Table
    <3> QED BY <1>4, <3>2, ListChildStep DEF JobsAreJobs
  <2> QED BY <2>1, <2>2
<1>5. ASSUME NEW p \in Pids, WaitpidChild(p) PROVE JobsAreJobs'
  BY <1>5, WaitpidChildStep DEF JobsAreJobs
<1>6. CASE DeleteChild
  <2>1. PICK p \in Pids :
          /\ Deleting = {p} /\ Deleting' = {} /\ Uncollected' = Uncollected
          /\ \/ jobs' = jobs
             \/ \E k \in Slots : /\ jobs[k].pid = p
                                 /\ jobs' = [jobs EXCEPT ![k] = clearjob]
    BY <1>6, DeleteChildStep
  <2>2. \A i \in Slots : jobs'[i] = jobs[i] \/ jobs'[i].pid = NoPid
    BY <1>1, <2>1 DEF Table, clearjob
  <2> QED BY <2>1, <2>2 DEF JobsAreJobs
<1> QED BY <1>2, <1>3, <1>4, <1>5, <1>6, SilentSteps

\* The job of a process, read from a table.
StateOf(t, p) == IF SlotsOf(t, p) = {} THEN "UNDEF"
                 ELSE t[FirstSlot(SlotsOf(t, p))].state

LEMMA StateOfSlot ==
  ASSUME NEW t, NEW p \in Pids,
         \A i, j \in Slots : t[i].pid = t[j].pid /\ t[i].pid # NoPid => i = j
  PROVE  /\ \A i \in Slots : t[i].pid = p => StateOf(t, p) = t[i].state
         /\ (\A i \in Slots : t[i].pid # p) => StateOf(t, p) = "UNDEF"
<1>1. p # NoPid
  BY JobsAssumption
<1>2. ASSUME NEW i \in Slots, t[i].pid = p PROVE StateOf(t, p) = t[i].state
  <2>1. SlotsOf(t, p) \in SUBSET Slots /\ SlotsOf(t, p) # {}
    BY <1>2 DEF SlotsOf
  <2>2. FirstSlot(SlotsOf(t, p)) \in SlotsOf(t, p)
    BY <2>1, FirstSlotMatches
  <2>3. FirstSlot(SlotsOf(t, p)) = i
    BY <1>1, <1>2, <2>2 DEF SlotsOf
  <2> QED BY <2>1, <2>3 DEF StateOf
<1>3. (\A i \in Slots : t[i].pid # p) => StateOf(t, p) = "UNDEF"
  BY DEF StateOf, SlotsOf
<1> QED BY <1>2, <1>3

\* A step that rewrites one slot changes the job of no other process.
LEMMA OtherJobs ==
  ASSUME NEW t, NEW u, NEW k \in Slots, NEW p \in Pids,
         \A i, j \in Slots : t[i].pid = t[j].pid /\ t[i].pid # NoPid => i = j,
         \A i, j \in Slots : u[i].pid = u[j].pid /\ u[i].pid # NoPid => i = j,
         \A i \in Slots \ {k} : u[i] = t[i],
         t[k].pid # p, u[k].pid # p
  PROVE  StateOf(u, p) = StateOf(t, p)
<1>1. CASE \E i \in Slots : t[i].pid = p
  <2>1. PICK i \in Slots : t[i].pid = p
    BY <1>1
  <2>2. i # k /\ u[i] = t[i]
    BY <2>1
  <2>3. StateOf(t, p) = t[i].state
    BY <2>1, StateOfSlot
  <2>4. StateOf(u, p) = u[i].state
    BY <2>1, <2>2, StateOfSlot
  <2> QED BY <2>2, <2>3, <2>4
<1>2. CASE \A i \in Slots : t[i].pid # p
  <2>1. \A i \in Slots : u[i].pid # p
    BY <1>2
  <2>2. StateOf(t, p) = "UNDEF"
    BY <1>2, StateOfSlot
  <2>3. StateOf(u, p) = "UNDEF"
    BY <2>1, StateOfSlot
  <2> QED BY <2>2, <2>3
<1> QED BY <1>1, <1>2

LEMMA SilentRefines ==
  ASSUME Silent
  PROVE  UNCHANGED JC!vars
BY DEF Silent, JC!vars, jobOf

LEMMA ForkChildRefines ==
  ASSUME IInv, NEW p \in Pids, ForkChild(p)
  PROVE  JC!Start(p)
<1>1. /\ UNCHANGED jobs /\ Uncollected' = Uncollected \cup {p}
      /\ p \notin Uncollected /\ p \notin Listed(jobs)
      /\ \A i \in Slots : jobs[i].state # "FG"
  BY ForkChildStep
<1>2. PidInOneSlot
  BY DEF IInv
<1>3. jobOf' = jobOf
  BY <1>1 DEF jobOf
<1>4. ASSUME NEW q \in Pids PROVE jobOf[q] # "FG" /\ jobOf[q] = StateOf(jobs, q)
  <2>1. jobOf[q] = StateOf(jobs, q)
    BY DEF jobOf, StateOf
  <2>2. \/ \E i \in Slots : StateOf(jobs, q) = jobs[i].state
        \/ StateOf(jobs, q) = "UNDEF"
    BY <1>2, StateOfSlot DEF PidInOneSlot
  <2> QED BY <1>1, <2>1, <2>2
<1>5. jobOf[p] = "UNDEF"
  <2>1. \A i \in Slots : jobs[i].pid # p
    BY <1>1, JobsAssumption DEF Listed
  <2> QED BY <1>2, <1>4, <2>1, StateOfSlot DEF PidInOneSlot
<1> QED BY <1>1, <1>3, <1>4, <1>5 DEF JC!Start, JC!NoForeground

LEMMA ListChildRefines ==
  ASSUME IInv, IInv', ListChild
  PROVE  [JC!Next]_(JC!vars)
<1>1. /\ pid \in Pids /\ pid \in Uncollected /\ pid \notin Listed(jobs)
      /\ Uncollected' = Uncollected
      /\ \A i \in Slots : jobs[i].state # "FG"
  BY ListChildStep
<1>2. PidInOneSlot /\ PidInOneSlot' /\ jobs \in Table /\ nextjid \in Nat /\ NoPid \notin Pids
  BY JobsAssumption DEF IInv, TypeOK, Table
<1>3. CASE jobs' = jobs
  BY <1>1, <1>3 DEF JC!vars, jobOf
<1>4. CASE jobs' # jobs
  <2>1. PICK k \in Slots, st \in {"FG", "BG"} :
          /\ jobs[k].pid = NoPid
          /\ jobs' = [jobs EXCEPT ![k] = [pid |-> pid, jid |-> nextjid, state |-> st]]
    BY <1>4, ListChildStep
  <2>2. ASSUME NEW q \in Pids PROVE jobOf[q] # "FG" /\ jobOf[q] = StateOf(jobs, q)
    <3>1. jobOf[q] = StateOf(jobs, q)
      BY DEF jobOf, StateOf
    <3>2. \/ \E i \in Slots : StateOf(jobs, q) = jobs[i].state
          \/ StateOf(jobs, q) = "UNDEF"
      BY <1>2, StateOfSlot DEF PidInOneSlot
    <3> QED BY <1>1, <3>1, <3>2
  <2>3. jobOf[pid] = "UNDEF"
    <3>1. \A i \in Slots : jobs[i].pid # pid
      BY <1>1, <1>2 DEF Listed
    <3> QED BY <1>1, <1>2, <2>2, <3>1, StateOfSlot DEF PidInOneSlot
  <2>4. StateOf(jobs', pid) = st
    <3>1. jobs'[k].pid = pid /\ jobs'[k].state = st
      BY <1>2, <2>1 DEF Table
    <3>2. \A i, j \in Slots : jobs'[i].pid = jobs'[j].pid /\ jobs'[i].pid # NoPid => i = j
      BY <1>2 DEF PidInOneSlot
    <3> DEFINE u == jobs'
    <3> HIDE DEF u
    <3>3. StateOf(u, pid) = st
      BY <1>1, <3>1, <3>2, StateOfSlot DEF u
    <3> QED BY <3>3 DEF u
  <2>5. ASSUME NEW q \in Pids, q # pid PROVE StateOf(jobs', q) = StateOf(jobs, q)
    <3> DEFINE u == jobs'
    <3>1. jobs[k].pid # q /\ u[k].pid # q /\ \A i \in Slots \ {k} : u[i] = jobs[i]
      BY <1>1, <1>2, <2>1, <2>5 DEF Table
    <3>2. \A i, j \in Slots : u[i].pid = u[j].pid /\ u[i].pid # NoPid => i = j
      BY <1>2 DEF PidInOneSlot
    <3> HIDE DEF u
    <3>3. StateOf(u, q) = StateOf(jobs, q)
      BY <1>2, <3>1, <3>2, OtherJobs DEF PidInOneSlot
    <3> QED BY <3>3 DEF u
  <2>6. jobOf' = [jobOf EXCEPT ![pid] = st]
    <3>1. jobOf' = [q \in Pids |-> StateOf(jobs', q)]
      BY DEF jobOf, StateOf
    <3>2. jobOf = [q \in Pids |-> StateOf(jobs, q)]
      BY DEF jobOf, StateOf
    <3> QED BY <1>1, <2>4, <2>5, <3>1, <3>2
  <2>7. JC!List(pid, st)
    BY <1>1, <2>2, <2>3, <2>6 DEF JC!List, JC!NoForeground
  <2> QED BY <1>1, <2>7 DEF JC!Next
<1> QED BY <1>3, <1>4

LEMMA WaitpidChildRefines ==
  ASSUME IInv, NEW p \in Pids, WaitpidChild(p)
  PROVE  [JC!Next]_(JC!vars)
<1>1. UNCHANGED jobs /\ Uncollected' = Uncollected \ {p}
  BY WaitpidChildStep
<1>2. jobOf' = jobOf
  BY <1>1 DEF jobOf
<1>3. CASE p \in Uncollected
  BY <1>1, <1>2, <1>3 DEF JC!Next, JC!Collect
<1>4. CASE p \notin Uncollected
  BY <1>1, <1>2, <1>4 DEF JC!vars
<1> QED BY <1>3, <1>4

LEMMA DeleteChildRefines ==
  ASSUME IInv, IInv', JobsAreJobs, DeleteChild
  PROVE  [JC!Next]_(JC!vars)
<1>1. PICK p \in Pids :
        /\ Deleting = {p} /\ Uncollected' = Uncollected
        /\ \/ jobs' = jobs
           \/ \E k \in Slots : /\ jobs[k].pid = p
                               /\ jobs' = [jobs EXCEPT ![k] = clearjob]
  BY DeleteChildStep
<1>2. /\ PidInOneSlot /\ PidInOneSlot' /\ jobs \in Table
      /\ NoPid \notin Pids /\ clearjob \in Job
  BY JobsAssumption, ClearJobType DEF IInv, TypeOK, Table
<1>3. CASE jobs' = jobs
  BY <1>1, <1>3 DEF JC!vars, jobOf
<1>4. CASE jobs' # jobs
  <2>1. PICK k \in Slots : jobs[k].pid = p /\ jobs' = [jobs EXCEPT ![k] = clearjob]
    BY <1>1, <1>4
  <2>2. StateOf(jobs, p) = jobs[k].state
    BY <1>2, <2>1, StateOfSlot DEF PidInOneSlot
  <2>3. jobOf[p] # "UNDEF" /\ p \notin Uncollected
    <3>1. jobs[k].state \in {"FG", "BG"} /\ p \notin Uncollected
      BY <1>1, <1>2, <2>1 DEF JobsAreJobs
    <3>2. jobOf[p] = StateOf(jobs, p)
      BY DEF jobOf, StateOf
    <3> QED BY <2>2, <3>1, <3>2
  <2>4. StateOf(jobs', p) = "UNDEF"
    <3> DEFINE u == jobs'
    <3>1. \A i \in Slots : u[i] = IF i = k THEN clearjob ELSE jobs[i]
      BY <1>2, <2>1 DEF Table
    <3>2. \A i, j \in Slots : u[i].pid = u[j].pid /\ u[i].pid # NoPid => i = j
      BY <1>2 DEF PidInOneSlot
    <3> HIDE DEF u
    <3>3. \A i \in Slots : u[i].pid # p
      BY <1>2, <2>1, <3>1 DEF PidInOneSlot, clearjob
    <3>4. StateOf(u, p) = "UNDEF"
      BY <3>2, <3>3, StateOfSlot
    <3> QED BY <3>4 DEF u
  <2>5. ASSUME NEW q \in Pids, q # p PROVE StateOf(jobs', q) = StateOf(jobs, q)
    <3> DEFINE u == jobs'
    <3>1. jobs[k].pid # q /\ u[k].pid # q /\ \A i \in Slots \ {k} : u[i] = jobs[i]
      BY <1>2, <2>1, <2>5 DEF Table, clearjob
    <3>2. \A i, j \in Slots : u[i].pid = u[j].pid /\ u[i].pid # NoPid => i = j
      BY <1>2 DEF PidInOneSlot
    <3> HIDE DEF u
    <3>3. StateOf(u, q) = StateOf(jobs, q)
      BY <1>2, <3>1, <3>2, OtherJobs DEF PidInOneSlot
    <3> QED BY <3>3 DEF u
  <2>6. jobOf' = [jobOf EXCEPT ![p] = "UNDEF"]
    <3>1. jobOf' = [q \in Pids |-> StateOf(jobs', q)]
      BY DEF jobOf, StateOf
    <3>2. jobOf = [q \in Pids |-> StateOf(jobs, q)]
      BY DEF jobOf, StateOf
    <3> QED BY <2>4, <2>5, <3>1, <3>2
  <2>7. JC!Unlist(p)
    BY <1>1, <2>3, <2>6 DEF JC!Unlist
  <2> QED BY <2>7 DEF JC!Next
<1> QED BY <1>3, <1>4

(* The shell is an implementation of job control: whatever the             *)
(* interleaving of eval (line 165), the handlers (line 341 on) and the     *)
(* children, a process starts and is listed only with nothing in the       *)
(* foreground, and its job is dropped only after it has been collected.    *)
THEOREM RefinesJobControl == Spec => ImplementsJobControl
<1>1. Init => JC!Init /\ JobsAreJobs
  <2> SUFFICES ASSUME Init PROVE JC!Init /\ JobsAreJobs
    OBVIOUS
  <2>1. \A i \in Slots : jobs[i].pid = NoPid
    BY DEF Init, initjobs, clearjob
  <2>2. Uncollected = {} /\ Deleting = {}
    BY DEF Init, Uncollected, Children, Deleting, IdleFrame, Sigs
  <2>3. \A p \in Pids : SlotsOf(jobs, p) = {}
    BY <2>1, JobsAssumption DEF SlotsOf
  <2> QED BY <2>1, <2>2, <2>3 DEF JC!Init, jobOf, JobsAreJobs
<1>2. IInv /\ JobsAreJobs /\ [Next]_vars => JobsAreJobs'
  BY JobsAreJobsStep
<1>3. IInv /\ IInv' /\ JobsAreJobs /\ [Next]_vars => [JC!Next]_(JC!vars)
  <2> SUFFICES ASSUME IInv, IInv', JobsAreJobs, [Next]_vars PROVE [JC!Next]_(JC!vars)
    OBVIOUS
  <2>1. CASE Silent
    BY <2>1, SilentRefines
  <2>2. ASSUME NEW p \in Pids, ForkChild(p) PROVE [JC!Next]_(JC!vars)
    BY <2>2, ForkChildRefines DEF JC!Next
  <2>3. ASSUME NEW p \in Pids, WaitpidChild(p) PROVE [JC!Next]_(JC!vars)
    BY <2>3, WaitpidChildRefines
  <2>4. CASE ListChild
    BY <2>4, ListChildRefines
  <2>5. CASE DeleteChild
    BY <2>5, DeleteChildRefines
  <2> QED BY <2>1, <2>2, <2>3, <2>4, <2>5, SilentSteps
<1> QED BY <1>1, <1>2, <1>3, Invariance, PTL DEF Spec, ImplementsJobControl, JC!Spec
============================================================================
