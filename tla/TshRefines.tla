----------------------------- MODULE TshRefines -----------------------------
(* The shell implements job control: the job of a process is the state of  *)
(* the slot that holds its pid, the processes are the uncollected children.*)
EXTENDS Tsh

jobOf == [p \in Pids |-> IF SlotsOf(jobs, p) = {} THEN "UNDEF"
                         ELSE jobs[FirstSlot(SlotsOf(jobs, p))].state]

JC == INSTANCE JobControl WITH job <- jobOf, child <- Uncollected

(* Every behaviour of the shell, whatever the interleaving of eval, the    *)
(* handlers and the children, is one of job control: no job is listed      *)
(* after its process was collected, nothing starts under a foreground job. *)
ImplementsJobControl == JC!Spec
============================================================================
