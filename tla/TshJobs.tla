------------------------------ MODULE TshJobs ------------------------------
(***************************************************************************)
(* The job list of src/shlab/tsh.c: the array jobs[MAXJOBS] and the helper *)
(* routines that read and rewrite it (lines 434-579).  The module has no   *)
(* state of its own: each routine is an operator on a table, and Tsh, which*)
(* has the array, applies it.  A slot keeps the pid, the job ID and the    *)
(* state; cmdline is only printed.                                         *)
(***************************************************************************)
EXTENDS Integers, FiniteSetsExt

CONSTANTS MAXJOBS,      \* slots of the array (16 in the code)
          Pids,         \* the process IDs fork may return
          NoPid         \* pid 0: the mark of an unused slot

ASSUME JobsAssumption == MAXJOBS \in Nat \ {0} /\ NoPid \notin Pids

Slots == 1 .. MAXJOBS

JobState == {"UNDEF", "FG", "BG", "ST"}

Job == [pid : Pids \cup {NoPid}, jid : Nat, state : JobState]

clearjob == [pid |-> NoPid, jid |-> 0, state |-> "UNDEF"]

initjobs == [i \in Slots |-> clearjob]

----------------------------------------------------------------------------
(* Searches: each loop of the code returns at the first slot that matches. *)

FirstSlot(S) == CHOOSE i \in S : \A j \in S : i <= j

SlotsOf(jobs, p) == {i \in Slots : jobs[i].pid = p}

SlotsIn(jobs, st) == {i \in Slots : jobs[i].state = st}

maxjid(jobs) == Max({0} \cup {jobs[i].jid : i \in Slots})

TableEmpty(jobs) == SlotsOf(jobs, NoPid) = Slots

\* Mutant: any listed job will do.
fgpidAny(jobs) == IF TableEmpty(jobs) THEN NoPid
                  ELSE jobs[FirstSlot({i \in Slots : jobs[i].pid # NoPid})].pid

fgpid(jobs) == IF SlotsIn(jobs, "FG") = {} THEN NoPid
               ELSE jobs[FirstSlot(SlotsIn(jobs, "FG"))].pid

pid2jid(jobs, p) == IF p = NoPid \/ SlotsOf(jobs, p) = {} THEN 0
                    ELSE jobs[FirstSlot(SlotsOf(jobs, p))].jid

\* The pids of the jobs in the list.
Listed(jobs) == {jobs[i].pid : i \in Slots} \ {NoPid}

TableFull(jobs) == SlotsOf(jobs, NoPid) = {}

----------------------------------------------------------------------------
(* Updates.  Both return the new table; the new value of nextjid is a      *)
(* second operator.  A full table makes addjob, and an unlisted pid makes  *)
(* deletejob, leave everything as it is.                                   *)

addjob(jobs, nextjid, p, st) ==
  IF TableFull(jobs) THEN jobs
  ELSE [jobs EXCEPT ![FirstSlot(SlotsOf(jobs, NoPid))] =
                      [pid |-> p, jid |-> nextjid, state |-> st]]

nextjidAfterAdd(jobs, nextjid) ==
  IF TableFull(jobs) THEN nextjid
  ELSE IF nextjid + 1 > MAXJOBS THEN 1 ELSE nextjid + 1

\* Mutant: clears the first used slot, whoever is in it.
deletejobFirst(jobs, p) ==
  IF TableEmpty(jobs) THEN jobs
  ELSE [jobs EXCEPT ![FirstSlot({i \in Slots : jobs[i].pid # NoPid})] = clearjob]

deletejob(jobs, p) ==
  IF p \notin Listed(jobs) THEN jobs
  ELSE [jobs EXCEPT ![FirstSlot(SlotsOf(jobs, p))] = clearjob]

\* Mutants: nextjid is the largest ID in use; nextjid is not set again.
nextjidAfterDeleteSame(jobs, nextjid, p) ==
  IF p \notin Listed(jobs) THEN nextjid ELSE maxjid(deletejob(jobs, p))

nextjidAfterDeleteKept(jobs, nextjid, p) == nextjid

nextjidAfterDelete(jobs, nextjid, p) ==
  IF p \notin Listed(jobs) THEN nextjid ELSE maxjid(deletejob(jobs, p)) + 1
============================================================================
