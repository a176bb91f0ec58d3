----------------------------- MODULE Kernellab ------------------------------
(***************************************************************************)
(* The kernel module of src/kernellab/kernellab/kernellab.c, the processes *)
(* that run request-pid.c, and what they share with the kernel: the list   *)
(* of tasks, the kernel's memory and the module's directory in sysfs.      *)
(*                                                                         *)
(* A task struct is known by its place in memory and holds the pid of its  *)
(* process; comm and state are abstracted to the pid of the process that   *)
(* they belong to.  A write to sysfs runs in the kernel beside everything  *)
(* else, so each access to something shared is a step.                     *)
(***************************************************************************)
EXTENDS Integers, Sequences, FiniteSets, SequencesExt

CONSTANTS Callers,      \* pids of the processes that run request-pid
          Pids,         \* all pids
          Asked,        \* what the callers ask for
          Structs       \* places for task structs

ASSUME KernellabAssumption ==
  /\ Pids \subseteq Nat \ {0} /\ Structs \subseteq Nat \ {0}
  /\ Asked \subseteq Pids \cup {-1}
  /\ Callers \subseteq Pids \cap Structs /\ IsFiniteSet(Callers)

NULL == 0

NONE == -1              \* test_pid, and what request-pid asks for without a number

NOPID == 0              \* stands for any number that is no pid

VARIABLES
  module,     \* "unloaded", "group" (in kernellab_init) or "loaded"
  kobj,       \* kernellab_kobj exists
  wide,       \* pointers are wider than an int
  list,       \* the task list, in its order
  pidOf,      \* the pid in each task struct; what is freed keeps it for a while
  call,       \* the callers, in request-pid or in the kernel
  memory,     \* allocated by the module: <<"mess" or "info", caller>>
  stale,      \* history: callers whose task_list was freed under the walk
  present     \* history: callers whose asked process has lived since the walk began

kernel == <<module, kobj>>
tasks == <<list, pidOf>>
history == <<stale, present>>
vars == <<kernel, wide, tasks, call, memory, history>>

Info == [{"pid", "comm", "state"} -> Pids \cup {NOPID}]

\* A pid_info before it is filled in.
Blank == [field \in {"pid", "comm", "state"} |-> NOPID]

InKernel == {"mess", "info", "copyIn", "walk", "pid", "comm", "state", "copyOut", "oops"}

InUser == {"openCurrent", "writeCurrent", "openPid", "writePid", "printed", "error"}

Messages == {"nothing", "sysfs_message allocation failed", "pid_info allocation failed",
             "did not copy", "Process not found"}

Call == [pc : InKernel \cup InUser, asked : Asked, current : Callers \cup {0},
         mess : Pids \cup {NONE}, task : Structs \cup {NULL},
         info : Info, answer : Info, said : Messages]

Init ==
  /\ module = "unloaded" /\ kobj = FALSE /\ wide \in BOOLEAN
  /\ list = SetToSeq(Callers)
  /\ pidOf = [s \in Structs |-> IF s \in Callers THEN s ELSE NOPID]
  /\ call \in [Callers -> [pc : {"openCurrent"}, asked : Asked,
                           current : {0}, mess : {NONE}, task : {NULL},
                           info : {Blank}, answer : {Blank}, said : {"nothing"}]]
  /\ memory = {} /\ stale = {} /\ present = {}

----------------------------------------------------------------------------
(* The processes of the system.  A task is added at the end of the list;   *)
(* one that ends is unlinked, and its struct is free for another.          *)

At(c, step) == call[c].pc = step

Linked == ToSet(list)

Living == {pidOf[s] : s \in Linked}

Fork(p, s) ==
  /\ p \in Pids \ (Living \cup Callers) /\ s \in Structs \ Linked
  /\ list' = Append(list, s) /\ pidOf' = [pidOf EXCEPT ![s] = p]
  /\ UNCHANGED <<kernel, wide, call, memory, history>>

Ends(p) == p \in Callers => call[p].pc \in {"printed", "error", "oops"}

TaskExit(k) ==
  /\ Ends(pidOf[list[k]]) /\ list' = RemoveAt(list, k)
  /\ stale' = stale \cup {c \in Callers : /\ call[c].pc \in {"walk", "pid", "comm", "state"}
                                        /\ call[c].task = list[k]}
  /\ present' = {c \in present : At(c, "walk") => call[c].mess # pidOf[list[k]]}
  /\ UNCHANGED <<kernel, wide, pidOf, call, memory>>

----------------------------------------------------------------------------
(* kernellab_init and kernellab_exit.                                      *)

CreateKobject ==
  /\ module = "unloaded" /\ ~ kobj
  /\ kobj' = TRUE /\ module' = "group"
  /\ UNCHANGED <<wide, tasks, call, memory, history>>

CreateGroup ==
  /\ module = "group" /\ module' = "loaded"
  /\ UNCHANGED <<kobj, wide, tasks, call, memory, history>>

\* Mutant: the kobject is kept when its group cannot be created.
GroupFailsKeeps ==
  /\ module = "group" /\ module' = "unloaded"
  /\ UNCHANGED <<kobj, wide, tasks, call, memory, history>>

GroupFails ==
  /\ module = "group" /\ module' = "unloaded" /\ kobj' = FALSE
  /\ UNCHANGED <<wide, tasks, call, memory, history>>

\* kobject_put removes the files when no write is running in them.
Unload ==
  /\ module = "loaded" /\ \A c \in Callers : call[c].pc \notin InKernel
  /\ module' = "unloaded" /\ kobj' = FALSE
  /\ UNCHANGED <<wide, tasks, call, memory, history>>

----------------------------------------------------------------------------
(* request-pid: run_current, then run_pid.                                 *)

Goes(c, step) == call' = [call EXCEPT ![c].pc = step]

OpenFile(c) ==
  /\ call[c].pc \in {"openCurrent", "openPid"}
  /\ Goes(c, IF module # "loaded" THEN "error"
             ELSE IF At(c, "openCurrent") THEN "writeCurrent" ELSE "writePid")
  /\ UNCHANGED <<kernel, wide, tasks, memory, history>>

\* The file was removed after it was opened.
NoDevice(c) ==
  /\ call[c].pc \in {"writeCurrent", "writePid"} /\ module # "loaded"
  /\ Goes(c, "error")
  /\ UNCHANGED <<kernel, wide, tasks, memory, history>>

(* kcurrent_write.  The address goes through an int: where pointers are    *)
(* wider the pid is written elsewhere, or nowhere.                         *)
KcurrentWrite(c) ==
  /\ At(c, "writeCurrent") /\ module = "loaded"
  /\ call' = [call EXCEPT ![c].pc = "openPid", ![c].current = IF wide THEN @ ELSE c]
  /\ UNCHANGED <<kernel, wide, tasks, memory, history>>

KcurrentFails(c) ==
  /\ At(c, "writeCurrent") /\ module = "loaded" /\ Goes(c, "error")
  /\ UNCHANGED <<kernel, wide, tasks, memory, history>>

EnterPidWrite(c) ==
  /\ At(c, "writePid") /\ module = "loaded" /\ Goes(c, "mess")
  /\ UNCHANGED <<kernel, wide, tasks, memory, history>>

----------------------------------------------------------------------------
(* pid_write.                                                              *)

Mess(c) == <<"mess", c>>

InfoOf(c) == <<"info", c>>

\* The call returns -EINVAL, write gives -1 and request-pid exits.
Fails(c, message) ==
  call' = [call EXCEPT ![c].pc = "error", ![c].said = message,
                       ![c].mess = NONE, ![c].task = NULL, ![c].info = Blank]

AllocMess(c) ==
  /\ At(c, "mess") /\ memory' = memory \cup {Mess(c)} /\ Goes(c, "info")
  /\ UNCHANGED <<kernel, wide, tasks, history>>

AllocMessFails(c) ==
  /\ At(c, "mess") /\ Fails(c, "sysfs_message allocation failed")
  /\ UNCHANGED <<kernel, wide, tasks, memory, history>>

AllocInfo(c) ==
  /\ At(c, "info") /\ memory' = memory \cup {InfoOf(c)} /\ Goes(c, "copyIn")
  /\ UNCHANGED <<kernel, wide, tasks, history>>

\* The message is not freed.
AllocInfoFails(c) ==
  /\ At(c, "info") /\ Fails(c, "pid_info allocation failed")
  /\ UNCHANGED <<kernel, wide, tasks, memory, history>>

\* The first task of the list; pid 1, which is before it, never ends.
FirstTask == IF list = <<>> THEN NULL ELSE list[1]

(* What is read from another address than the caller's message can be      *)
(* anything, the pid of a process too.  The walk begins.                   *)
CopyIn(c) ==
  /\ At(c, "copyIn")
  /\ \E pid \in IF wide THEN Pids \cup {NONE} ELSE {call[c].asked} :
       /\ call' = [call EXCEPT ![c].pc = "walk", ![c].mess = pid, ![c].task = FirstTask]
       /\ present' = IF pid \in Living THEN present \cup {c} ELSE present
  /\ UNCHANGED <<kernel, wide, tasks, memory, stale>>

\* Mutant: the message alone is freed.
FreedMess(c) == memory \ {Mess(c)}

Freed(c) == memory \ {Mess(c), InfoOf(c)}

CopyInFails(c) ==
  /\ At(c, "copyIn") /\ Fails(c, "did not copy") /\ memory' = Freed(c)
  /\ UNCHANGED <<kernel, wide, tasks, history>>

\* What a struct holds: once it has been freed, what was there or no pid.
Read(s) == IF s \in Linked THEN {pidOf[s]} ELSE {pidOf[s], NOPID}

\* The next task from s; anywhere from a struct that is no longer linked.
NextTask(s) ==
  IF s \in Linked
  THEN LET k == CHOOSE k \in DOMAIN list : list[k] = s
       IN  {IF k = Len(list) THEN NULL ELSE list[k + 1]}
  ELSE Linked \cup {NULL}

\* One turn of for_each_process: the task has the pid, or the walk goes on.
Walk(c) ==
  /\ At(c, "walk") /\ call[c].task # NULL
  /\ \E pid \in Read(call[c].task) :
       IF pid = call[c].mess THEN Goes(c, "pid")
       ELSE \E s \in NextTask(call[c].task) : call' = [call EXCEPT ![c].task = s]
  /\ UNCHANGED <<kernel, wide, tasks, memory, history>>

NotFound(c) ==
  /\ At(c, "walk") /\ call[c].task = NULL
  /\ Fails(c, "Process not found") /\ memory' = Freed(c)
  /\ UNCHANGED <<kernel, wide, tasks, history>>

(* The walk has followed a link of a freed struct into nothing: the kernel *)
(* kills the process inside the call.                                      *)
Oops(c) ==
  /\ At(c, "walk") /\ call[c].task \notin Linked \cup {NULL}
  /\ Goes(c, "oops")
  /\ UNCHANGED <<kernel, wide, tasks, memory, history>>

\* Mutant: info is shared by all calls.
FillsShared(c, field, value, next) ==
  call' = [d \in Callers |->
             IF d = c THEN [call[d] EXCEPT !.pc = next, !.info[field] = value]
             ELSE [call[d] EXCEPT !.info[field] = value]]

Fills(c, field, value, next) ==
  call' = [call EXCEPT ![c].pc = next, ![c].info[field] = value]

FillPid(c) ==
  /\ At(c, "pid") /\ \E p \in Read(call[c].task) : Fills(c, "pid", p, "comm")
  /\ UNCHANGED <<kernel, wide, tasks, memory, history>>

FillComm(c) ==
  /\ At(c, "comm") /\ \E p \in Read(call[c].task) : Fills(c, "comm", p, "state")
  /\ UNCHANGED <<kernel, wide, tasks, memory, history>>

FillState(c) ==
  /\ At(c, "state") /\ \E p \in Read(call[c].task) : Fills(c, "state", p, "copyOut")
  /\ UNCHANGED <<kernel, wide, tasks, memory, history>>

(* The address in the message is whole, but the message may be another     *)
(* one.                                                                    *)
CopyOut(c) ==
  /\ At(c, "copyOut")
  /\ \E written \in IF wide THEN BOOLEAN ELSE {TRUE} :
       call' = [call EXCEPT ![c].pc = "printed",
                            ![c].answer = IF written THEN call[c].info ELSE @,
                            ![c].mess = NONE, ![c].task = NULL, ![c].info = Blank]
  /\ memory' = Freed(c)
  /\ UNCHANGED <<kernel, wide, tasks, history>>

CopyOutFails(c) ==
  /\ At(c, "copyOut") /\ Fails(c, "did not copy") /\ memory' = Freed(c)
  /\ UNCHANGED <<kernel, wide, tasks, history>>

pid_write(c) ==
  \/ AllocMess(c) \/ AllocMessFails(c) \/ AllocInfo(c) \/ AllocInfoFails(c)
  \/ CopyIn(c) \/ CopyInFails(c) \/ Walk(c) \/ NotFound(c) \/ Oops(c)
  \/ FillPid(c) \/ FillComm(c) \/ FillState(c) \/ CopyOut(c) \/ CopyOutFails(c)

Next ==
  \/ CreateKobject \/ CreateGroup \/ GroupFails \/ Unload
  \/ \E p \in Pids, s \in Structs : Fork(p, s)
  \/ \E k \in DOMAIN list : TaskExit(k)
  \/ \E c \in Callers : \/ OpenFile(c) \/ NoDevice(c) \/ KcurrentWrite(c)
                        \/ KcurrentFails(c) \/ EnterPidWrite(c) \/ pid_write(c)

Spec == Init /\ [][Next]_vars

----------------------------------------------------------------------------
(* Properties.                                                             *)

TypeOK ==
  /\ module \in {"unloaded", "group", "loaded"} /\ kobj \in BOOLEAN /\ wide \in BOOLEAN
  /\ list \in Seq(Structs) /\ IsInjective(list)
  /\ pidOf \in [Structs -> Pids \cup {NOPID}]
  /\ call \in [Callers -> Call]
  /\ \A c \in Callers : /\ call[c].pc \in {"pid", "comm", "state"} => call[c].task # NULL
                        /\ call[c].said # "nothing" => At(c, "error")
  /\ memory \subseteq {"mess", "info"} \X Callers
  /\ stale \subseteq Callers /\ present \subseteq Callers

(* On every way out of pid_write both allocations are freed, but for the   *)
(* message of a call whose second allocation failed (line 71 returns       *)
(* without kfree), and those of a process killed inside the call.  The     *)
(* module's directory is there as long as it is loaded, and not after a    *)
(* failed or finished load.                                                *)
MemoryAccounted ==
  /\ \A c \in Callers :
       /\ Mess(c) \in memory <=>
            \/ call[c].pc \in InKernel \ {"mess"}
            \/ At(c, "error") /\ call[c].said = "pid_info allocation failed"
       /\ InfoOf(c) \in memory <=> call[c].pc \in InKernel \ {"mess", "info"}
  /\ kobj <=> module # "unloaded"

(* Whatever starts and ends beside the calls, request-pid prints its own   *)
(* pid, and pid, command and state of the process it asked for; it is told *)
(* that there is none only when that process was not there all the time.   *)
(* This is for pointers that fit in an int, and for walks that stood on no *)
(* task as it ended: the list is walked without its lock.                  *)
AnswersAreRight ==
  \A c \in Callers : ~ wide /\ c \notin stale =>
    /\ At(c, "printed") =>
         call[c].current = c /\ \A field \in DOMAIN Blank : call[c].answer[field] = call[c].asked
    /\ At(c, "error") /\ call[c].said = "Process not found" => c \notin present
=============================================================================
