-------------------------------- MODULE Tsh --------------------------------
(***************************************************************************)
(* The tiny shell of src/shlab/tsh.c with its job list, its three job      *)
(* control signal handlers and the child processes it forks.               *)
(*                                                                         *)
(* The shell is one thread.  Its main flow (main, eval, waitfg) can be     *)
(* interrupted between any two steps by a pending signal that is not       *)
(* blocked; a handler can be interrupted in the same way by a signal of    *)
(* another kind (Signal, line 622, installs handlers with an empty mask).  *)
(* nest[s] is the depth at which the handler of s runs, 0 when it does     *)
(* not: the deepest one has the processor, main has it when there is none. *)
(*                                                                         *)
(* Calls that a signal cannot split observably are one step: addjob runs   *)
(* with SIGCHLD blocked and the other handlers only read the table, and a  *)
(* half-written or half-cleared slot makes them return as an unused one    *)
(* does (pid 0, or jid 0).                                                 *)
(***************************************************************************)
EXTENDS TshJobs

CONSTANTS JidBound,     \* bound of the model: no new command above it
          EventBound    \* bound of the model: key presses and SIGCONTs

ASSUME TshAssumption == JidBound \in Nat /\ EventBound \in Nat

Sigs == {"CHLD", "INT", "TSTP"}

KeySigs == {"INT", "TSTP"}      \* ctrl-c and ctrl-z

VARIABLES
  jobs, nextjid,    \* the globals of the program
  errno,            \* "ECHILD" or anything else
  pc, pid, bg,      \* the main flow: program point and locals of eval
  saved,            \* errno as sleep() found it, restored when it completes
  sigchldBlocked,   \* eval has blocked SIGCHLD
  handler, nest,    \* frame and depth of each signal handler
  pending,          \* signals sent to the shell and not delivered
  proc,             \* the kernel's state of each process ID
  collected,        \* children that waitpid has reported once (stopped)
  refused,          \* children that addjob did not list: the table was full
  exit,             \* why the shell has exited, "no" while it runs
  events            \* external events so far

kernel == <<proc, collected, refused>>
main == <<pc, pid, bg, saved, sigchldBlocked>>
table == <<jobs, nextjid>>
frames == <<handler, nest>>
vars == <<table, errno, main, frames, pending, kernel, exit, events>>

(* A child: forked, in its own group (setpgid), running the program,       *)
(* stopped and not yet reported by waitpid, stopped and reported, zombie.  *)
PState == {"none", "forked", "grouped", "running", "stopping", "stopped",
           "zombie"}

Frame == [at : {"idle", "waitpid", "deletejob", "fgpid", "getpgid", "pid2jid",
                "kill"},
          pid : Pids \cup {NoPid},
          own : BOOLEAN]    \* the group found is the job's own, not the shell's

IdleFrame == [at |-> "idle", pid |-> NoPid, own |-> FALSE]

EXITS == {"no", "quit", "SIGSEGV", "SIGQUIT", "Fork error.", "waitpid error",
          "Getpgid error.", "Kill error."}

TypeOK ==
  /\ jobs \in [Slots -> Job] /\ nextjid \in Nat \ {0}
  /\ errno \in {"other", "ECHILD"} /\ saved \in {"other", "ECHILD"}
  /\ pc \in {"read", "fork", "add", "unblock", "print", "waitfg", "sleep"}
  /\ pid \in Pids \cup {NoPid} /\ bg \in BOOLEAN /\ sigchldBlocked \in BOOLEAN
  /\ handler \in [Sigs -> Frame] /\ nest \in [Sigs -> Nat]
  /\ pending \subseteq Sigs
  /\ proc \in [Pids -> PState]
  /\ collected \subseteq Pids /\ refused \subseteq Pids
  /\ exit \in EXITS /\ events \in Nat

Init ==
  /\ jobs = initjobs /\ nextjid = 1
  /\ errno = "other" /\ saved = "other"
  /\ pc = "read" /\ pid = NoPid /\ bg = FALSE /\ sigchldBlocked = FALSE
  /\ handler = [s \in Sigs |-> IdleFrame] /\ nest = [s \in Sigs |-> 0]
  /\ pending = {}
  /\ proc = [p \in Pids |-> "none"] /\ collected = {} /\ refused = {}
  /\ exit = "no" /\ events = 0

Alive == exit = "no"

MainRuns == Alive /\ \A s \in Sigs : nest[s] = 0

Runs(s) == Alive /\ nest[s] > 0 /\ \A t \in Sigs : nest[t] <= nest[s]

\* exit(): nothing of the shell runs afterwards.
Exits(why) ==
  exit' = why /\ UNCHANGED <<table, errno, main, frames, pending, kernel, events>>

----------------------------------------------------------------------------
(* The main flow.                                                          *)

\* Mutant: SIGCHLD is not blocked.
ReadCommandUnblocked ==
  /\ MainRuns /\ pc = "read" /\ nextjid <= JidBound
  /\ bg' \in BOOLEAN
  /\ sigchldBlocked' = FALSE
  /\ pc' = "fork"
  /\ UNCHANGED <<table, errno, pid, saved, frames, pending, kernel, exit, events>>

(* End of file or quit ends the shell.  A blank line leaves argv[0] NULL,  *)
(* and builtin_cmd passes it to strcmp.  jobs only prints, fg and bg do    *)
(* nothing.  For any other command eval blocks SIGCHLD.                    *)
ReadCommand ==
  /\ MainRuns /\ pc = "read"
  /\ \/ Exits("quit")
     \/ Exits("SIGSEGV")
     \/ /\ nextjid <= JidBound
        /\ bg' \in BOOLEAN
        /\ sigchldBlocked' = TRUE
        /\ pc' = "fork"
        /\ UNCHANGED <<table, errno, pid, saved, frames, pending, kernel, exit,
                       events>>

ForkChild(p) ==
  /\ MainRuns /\ pc = "fork"
  /\ proc[p] = "none"
  /\ proc' = [proc EXCEPT ![p] = "forked"]
  /\ pid' = p
  /\ pc' = "add"
  /\ UNCHANGED <<table, errno, bg, saved, sigchldBlocked, frames, pending,
                 collected, refused, exit, events>>

ForkFails == MainRuns /\ pc = "fork" /\ Exits("Fork error.")

\* Mutant: the state does not depend on the command.
ListChildForeground ==
  /\ MainRuns /\ pc = "add"
  /\ jobs' = addjob(jobs, nextjid, pid, "FG")
  /\ nextjid' = nextjidAfterAdd(jobs, nextjid)
  /\ refused' = IF TableFull(jobs) THEN refused \cup {pid} ELSE refused
  /\ pc' = "unblock"
  /\ UNCHANGED <<errno, pid, bg, saved, sigchldBlocked, frames, pending, proc,
                 collected, exit, events>>

ListChild ==
  /\ MainRuns /\ pc = "add"
  /\ jobs' = addjob(jobs, nextjid, pid, IF bg THEN "BG" ELSE "FG")
  /\ nextjid' = nextjidAfterAdd(jobs, nextjid)
  /\ refused' = IF TableFull(jobs) THEN refused \cup {pid} ELSE refused
  /\ pc' = "unblock"
  /\ UNCHANGED <<errno, pid, bg, saved, sigchldBlocked, frames, pending, proc,
                 collected, exit, events>>

UnblockSigchld ==
  /\ MainRuns /\ pc = "unblock"
  /\ sigchldBlocked' = FALSE
  /\ pc' = IF bg THEN "print" ELSE "waitfg"
  /\ UNCHANGED <<table, errno, pid, bg, saved, frames, pending, kernel, exit,
                 events>>

(* "[jobid] (pid) cmdline", with jobid = pid2jid(pid) looked up now.       *)
PrintJob ==
  /\ MainRuns /\ pc = "print"
  /\ pc' = "read" /\ pid' = NoPid
  /\ UNCHANGED <<table, errno, bg, saved, sigchldBlocked, frames, pending,
                 kernel, exit, events>>

(* waitfg tests and, unless the job is gone, calls sleep(2).               *)
WaitFg ==
  /\ MainRuns /\ pc = "waitfg"
  /\ IF fgpid(jobs) = pid
     THEN pc' = "sleep" /\ saved' = errno /\ pid' = pid
     ELSE pc' = "read" /\ saved' = "other" /\ pid' = NoPid
  /\ UNCHANGED <<table, errno, bg, sigchldBlocked, frames, pending, kernel,
                 exit, events>>

\* Mutants: waitfg tests once ("if" for "while"); pause() for sleep().
SleepEndsOnce ==
  /\ MainRuns /\ pc = "sleep"
  /\ pc' = "read" /\ pid' = NoPid /\ errno' = saved /\ saved' = "other"
  /\ UNCHANGED <<table, bg, sigchldBlocked, frames, pending, kernel, exit, events>>

SleepEndsNever == FALSE /\ UNCHANGED vars

(* The two seconds are over: sleep() restores errno and returns 0.         *)
SleepEnds ==
  /\ MainRuns /\ pc = "sleep"
  /\ pc' = "waitfg" /\ errno' = saved
  /\ UNCHANGED <<table, pid, bg, saved, sigchldBlocked, frames, pending, kernel,
                 exit, events>>

----------------------------------------------------------------------------
(* Signal delivery and return.                                             *)

FirstStep(s) == IF s = "CHLD" THEN "waitpid" ELSE "fgpid"

Active == {s \in Sigs : nest[s] > 0}

Deliver(s) ==
  /\ Alive /\ s \in pending /\ nest[s] = 0
  /\ ~ (s = "CHLD" /\ sigchldBlocked)
  /\ pending' = pending \ {s}
  /\ nest' = [nest EXCEPT ![s] = 1 + Max({nest[t] : t \in Sigs})]
  /\ handler' = [handler EXCEPT ![s] = [IdleFrame EXCEPT !.at = FirstStep(s)]]
  /\ UNCHANGED <<table, errno, main, kernel, exit, events>>

(* A handler returns with errno e.  When it interrupted the sleep system   *)
(* call itself, sleep() returns at once with errno EINTR; when it ran just *)
(* before the call, sleep() goes on.                                       *)
Returns(s, e) ==
  /\ nest' = [nest EXCEPT ![s] = 0]
  /\ handler' = [handler EXCEPT ![s] = IdleFrame]
  /\ \/ pc' = pc /\ errno' = e
     \/ pc = "sleep" /\ Active = {s} /\ pc' = "waitfg" /\ errno' = "other"
  /\ UNCHANGED <<pid, bg, saved, sigchldBlocked>>

At(s, label) == Runs(s) /\ handler[s].at = label

Goto(s, label) == handler' = [handler EXCEPT ![s].at = label] /\ nest' = nest

----------------------------------------------------------------------------
(* sigchld_handler: waitpid(-1, WUNTRACED|WNOHANG) until it returns no     *)
(* child, and deletejob for each one, whether it ended or only stopped.    *)

Waitable == {p \in Pids : proc[p] \in {"zombie", "stopping"}}

Children == {p \in Pids : proc[p] # "none"}

WaitpidChild(p) ==
  /\ At("CHLD", "waitpid") /\ p \in Waitable
  /\ proc' = [proc EXCEPT ![p] = IF @ = "zombie" THEN "none" ELSE "stopped"]
  /\ collected' = IF proc[p] = "zombie" THEN collected \ {p}
                  ELSE collected \cup {p}
  /\ refused' = refused \ {p}
  /\ handler' = [handler EXCEPT !["CHLD"] = [@ EXCEPT !.at = "deletejob",
                                                      !.pid = p]]
  /\ UNCHANGED <<table, errno, main, nest, pending, exit, events>>

\* Mutant: "if" for "while", one child for each SIGCHLD.
DeleteChildOnce ==
  /\ At("CHLD", "deletejob")
  /\ jobs' = deletejob(jobs, handler["CHLD"].pid)
  /\ nextjid' = nextjidAfterDelete(jobs, nextjid, handler["CHLD"].pid)
  /\ Returns("CHLD", errno)
  /\ UNCHANGED <<pending, kernel, exit, events>>

DeleteChild ==
  /\ At("CHLD", "deletejob")
  /\ jobs' = deletejob(jobs, handler["CHLD"].pid)
  /\ nextjid' = nextjidAfterDelete(jobs, nextjid, handler["CHLD"].pid)
  /\ Goto("CHLD", "waitpid")
  /\ UNCHANGED <<errno, main, pending, kernel, exit, events>>

(* waitpid returns -1 with ECHILD when there is no child at all, and 0,    *)
(* leaving errno as it was, when the remaining children have nothing to    *)
(* report; the test after the loop (line 361) exits the shell unless errno *)
(* is ECHILD.                                                              *)
ErrnoAfterLoop == IF Children = {} THEN "ECHILD" ELSE errno

WaitpidDone ==
  /\ At("CHLD", "waitpid") /\ Waitable = {}
  /\ ErrnoAfterLoop = "ECHILD"
  /\ Returns("CHLD", "ECHILD")
  /\ UNCHANGED <<table, pending, kernel, exit, events>>

WaitpidExits ==
  /\ At("CHLD", "waitpid") /\ Waitable = {}
  /\ ErrnoAfterLoop # "ECHILD"
  /\ Exits("waitpid error")

----------------------------------------------------------------------------
(* sigint_handler and sigtstp_handler, alike but for the signal they send. *)

FindForeground(s) ==
  /\ At(s, "fgpid") /\ s \in KeySigs
  /\ IF fgpid(jobs) = NoPid
     THEN Returns(s, errno)
     ELSE /\ handler' = [handler EXCEPT ![s] = [@ EXCEPT !.at = "getpgid",
                                                         !.pid = fgpid(jobs)]]
          /\ UNCHANGED <<errno, main, nest>>
  /\ UNCHANGED <<table, pending, kernel, exit, events>>

FindGroup(s) ==
  /\ At(s, "getpgid")
  /\ LET p == handler[s].pid IN
     IF proc[p] = "none" THEN Exits("Getpgid error.")
     ELSE /\ handler' = [handler EXCEPT ![s] =
                           [@ EXCEPT !.at = "pid2jid", !.own = proc[p] # "forked"]]
          /\ UNCHANGED <<table, errno, main, nest, pending, kernel, exit, events>>

FindJid(s) ==
  /\ At(s, "pid2jid")
  /\ IF pid2jid(jobs, handler[s].pid) = 0 THEN Returns(s, errno)
     ELSE Goto(s, "kill") /\ UNCHANGED <<errno, main>>
  /\ UNCHANGED <<table, pending, kernel, exit, events>>

\* What the signal does to a program: it may also catch it.
Effect(s) == {"running", IF s = "INT" THEN "zombie" ELSE "stopping"}

(* kill(-pgid).  A child that has not called setpgid is in the shell's     *)
(* group: the signal comes back to the shell.  A child that has not called *)
(* execve still has the shell's handlers and a job list without foreground *)
(* job, so it drops the signal.  Then the handler prints that the job was  *)
(* terminated or stopped, and returns.                                     *)
KillGroup(s) ==
  /\ At(s, "kill")
  /\ LET p == handler[s].pid IN
     \/ /\ ~ handler[s].own
        /\ pending' = pending \cup {s}
        /\ Returns(s, errno)
        /\ UNCHANGED <<table, kernel, exit, events>>
     \/ /\ handler[s].own /\ proc[p] = "none"
        /\ Exits("Kill error.")
     \/ /\ handler[s].own /\ proc[p] # "none"
        /\ \E st \in IF proc[p] = "running" THEN Effect(s) ELSE {proc[p]} :
             /\ proc' = [proc EXCEPT ![p] = st]
             /\ pending' = IF st = proc[p] THEN pending
                           ELSE pending \cup {"CHLD"}
        /\ Returns(s, errno)
        /\ UNCHANGED <<table, collected, refused, exit, events>>

----------------------------------------------------------------------------
(* The keyboard, other users of kill, and the children.                    *)

\* The kernel signals the terminal's foreground group, the shell's.
PressKey(s) ==
  /\ Alive /\ events < EventBound
  /\ events' = events + 1
  /\ pending' = pending \cup {s}
  /\ UNCHANGED <<table, errno, main, frames, kernel, exit>>

\* sigquit_handler calls exit at once, whatever it interrupts.
Sigquit == Alive /\ Exits("SIGQUIT")

ChildGoes(p, from, to) ==
  /\ Alive /\ proc[p] \in from
  /\ proc' = [proc EXCEPT ![p] = to]
  /\ UNCHANGED <<table, errno, main, frames, collected, refused, exit>>

ChildSetpgid(p) ==
  ChildGoes(p, {"forked"}, "grouped") /\ UNCHANGED <<pending, events>>

ChildExec(p) ==
  ChildGoes(p, {"grouped"}, "running") /\ UNCHANGED <<pending, events>>

\* The program ends or is killed, or execve failed and the child exits.
ChildEnds(p) ==
  /\ ChildGoes(p, {"grouped", "running", "stopping", "stopped"}, "zombie")
  /\ pending' = pending \cup {"CHLD"} /\ UNCHANGED events

ChildStops(p) ==
  /\ ChildGoes(p, {"running"}, "stopping")
  /\ pending' = pending \cup {"CHLD"} /\ UNCHANGED events

\* Continued from outside; without SA_NOCLDSTOP that too sends SIGCHLD.
ChildContinues(p) ==
  /\ events < EventBound /\ events' = events + 1
  /\ ChildGoes(p, {"stopping", "stopped"}, "running")
  /\ pending' = pending \cup {"CHLD"}

----------------------------------------------------------------------------
(* The step of the main flow that needs no user.                           *)
MainStep == \/ \E p \in Pids : ForkChild(p)
            \/ ForkFails \/ ListChild \/ UnblockSigchld \/ PrintJob
            \/ WaitFg \/ SleepEnds

SigchldStep == \/ \E p \in Pids : WaitpidChild(p)
               \/ DeleteChild \/ WaitpidDone \/ WaitpidExits

KeyStep(s) == FindForeground(s) \/ FindGroup(s) \/ FindJid(s) \/ KillGroup(s)

ChildStep(p) == ChildSetpgid(p) \/ ChildExec(p)

Environment == \/ \E s \in KeySigs : PressKey(s)
               \/ Sigquit
               \/ \E p \in Pids : \/ ChildStep(p) \/ ChildEnds(p)
                                  \/ ChildStops(p) \/ ChildContinues(p)

Exited == ~ Alive /\ UNCHANGED vars

Next == \/ ReadCommand \/ MainStep
        \/ \E s \in Sigs : Deliver(s)
        \/ SigchldStep
        \/ \E s \in KeySigs : KeyStep(s)
        \/ Environment
        \/ Exited

Spec == Init /\ [][Next]_vars

(* The processor runs whichever of main and handlers has it, a pending     *)
(* signal is delivered, and a forked child gets to its program.  Nothing   *)
(* makes a user type, a program end or a key be pressed.                   *)
Fairness == /\ WF_vars(MainStep)
            /\ WF_vars(SigchldStep)
            /\ \A s \in Sigs : WF_vars(Deliver(s))
            /\ \A s \in KeySigs : WF_vars(KeyStep(s))
            /\ \A p \in Pids : WF_vars(ChildStep(p))

FairSpec == Spec /\ Fairness

----------------------------------------------------------------------------
(* Safety.                                                                 *)

(* Children that were forked and whose end or stop was not yet reported.   *)
Uncollected == Children \ collected

\* The child that sigchld_handler has been told of and is about to delete.
Deleting == IF handler["CHLD"].at = "deletejob" THEN {handler["CHLD"].pid} ELSE {}

\* The child that eval has forked and is about to list.
Adding == IF pc = "add" THEN {pid} ELSE {}

(* The table is exactly the set of uncollected children, but for the one   *)
(* in eval's or the handler's hands and those a full table refused: no     *)
(* job outlives its process and no process goes untracked, because SIGCHLD *)
(* is blocked from before Fork until after addjob (lines 193-217).         *)
TableMatchesKernel ==
  Listed(jobs) \ Deleting = (Uncollected \ refused) \ Adding

(* "At most 1 job can be in the FG state" (line 43), and each pid is in    *)
(* one slot, so that deletejob removes the whole job.                      *)
OneForeground ==
  /\ \A i, j \in SlotsIn(jobs, "FG") : i = j
  /\ \A p \in Pids : \A i, j \in SlotsOf(jobs, p) : i = j

(* When eval is back at the prompt, or forks, no job is in the foreground: *)
(* waitfg has not returned early.                                          *)
PromptIsFree == pc \in {"read", "fork", "add", "print"} => fgpid(jobs) = NoPid

(* waitfg returns only when the child it waits for has been reported by    *)
(* waitpid, unless the full table kept it from being listed.               *)
WaitfgWaits ==
  [][pc = "waitfg" /\ pc' = "read" => pid \notin Uncollected \ refused]_vars

\* The step in which the handler of s sends its signal and returns.
Killed(s) == At(s, "kill") /\ handler'[s].at = "idle"

(* A key press never changes a background job: eval gives each child its   *)
(* own group for that (lines 176-179), and the handlers use fgpid.         *)
BackgroundSafe ==
  [][\A s \in KeySigs : Killed(s) =>
       \A p \in Pids : proc'[p] # proc[p] =>
         \A i \in SlotsOf(jobs, p) : jobs[i].state # "BG"]_vars

(* nextjid is the "next job ID to allocate" (line 50): when a job is       *)
(* deleted it ends up above every ID in use, so that the wrap to 1 at line *)
(* 474 does not hand out an ID twice after a deletion.                     *)
DeleteFreshens ==
  [][At("CHLD", "deletejob") /\ jobs' # jobs
       => \A i \in Slots : jobs'[i].jid < nextjid']_vars

----------------------------------------------------------------------------
(* The inductive invariant behind the safety properties.  The table can    *)
(* only be related to the kernel if one knows which windows exclude which  *)
(* handler, that a pid is in one slot, and what eval's locals stand for.   *)

KeyLabels == {"getpgid", "pid2jid", "kill"}

FramesMatchNest ==
  \A s \in Sigs :
    /\ nest[s] = 0 <=> handler[s].at = "idle"
    /\ handler[s].at \in IF s = "CHLD" THEN {"idle", "waitpid", "deletejob"}
                         ELSE {"idle", "fgpid"} \cup KeyLabels
    /\ handler[s].at \in KeyLabels \cup {"deletejob"} => handler[s].pid \in Pids

(* SIGCHLD stays out from before fork until after addjob.                  *)
BlockedWindow ==
  /\ pc \in {"fork", "add", "unblock"} => sigchldBlocked /\ nest["CHLD"] = 0
  /\ pc = "add" => pid \in Uncollected \ refused

(* What waitpid and addjob have recorded is about children that exist.     *)
RecordsAreChildren == collected \subseteq Children /\ refused \subseteq Children

PidInOneSlot ==
  \A i, j \in Slots : jobs[i].pid = jobs[j].pid /\ jobs[i].pid # NoPid => i = j

(* While eval waits, its job is the foreground one if it is still listed;  *)
(* at any other time no slot is in the foreground.                         *)
ForegroundIsAwaited ==
  /\ pc \in {"waitfg", "sleep"} => ~ bg
  /\ pc \in {"add", "unblock", "print", "waitfg", "sleep"} => pid \in Pids
  /\ \A i \in Slots :
       jobs[i].state = "FG" <=> /\ pc \in {"unblock", "waitfg", "sleep"} /\ ~ bg
                                /\ jobs[i].pid = pid

(* What a key handler looked up as foreground is not a background job.     *)
KeyTargets ==
  \A s \in KeySigs : handler[s].at \in KeyLabels =>
    \A i \in Slots : jobs[i].pid = handler[s].pid => jobs[i].state # "BG"

(* SIGCHLD handling loses no job and keeps no dead one (TableMatchesKernel)*)
(* because of the facts above; together they are inductive.                *)
IInv == /\ TypeOK /\ FramesMatchNest /\ BlockedWindow /\ RecordsAreChildren
        /\ PidInOneSlot /\ ForegroundIsAwaited /\ KeyTargets
        /\ TableMatchesKernel

----------------------------------------------------------------------------
(* Liveness, under Fairness.                                               *)

(* "The handler reaps all available zombie children" (line 338), although  *)
(* several SIGCHLDs collapse into one.                                     *)
ZombiesReaped ==
  \A p \in Pids : proc[p] = "zombie" ~> (proc[p] # "zombie" \/ ~ Alive)

(* waitfg returns once its job is out of the foreground: the end of the    *)
(* job is never lost between the test of fgpid and the sleep.              *)
PromptReturns ==
  \A p \in Pids : (pc = "sleep" /\ pid = p /\ proc[p] = "zombie")
                     ~> (pc = "read" \/ ~ Alive)

----------------------------------------------------------------------------
(* What the comments say and the code does not do.                         *)

(* The handler "doesn't wait for any other currently running children"     *)
(* (lines 338-340): it goes on with its work when some child still runs.   *)
SigchldSurvives == exit # "waitpid error"
=============================================================================
