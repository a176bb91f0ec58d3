----------------------------- MODULE JobControl -----------------------------
(***************************************************************************)
(* What a job control shell promises, without table, signals or handlers:  *)
(* it starts a process only while nothing is in the foreground, lists it   *)
(* while it is uncollected, and drops a job only once its process has been *)
(* collected.  Module Tsh implements it (module TshRefines).               *)
(***************************************************************************)
CONSTANT Pids

VARIABLES job,      \* [Pids -> {"UNDEF", "FG", "BG"}]: the job of each process
          child     \* processes started and not yet collected

vars == <<job, child>>

TypeOK == job \in [Pids -> {"UNDEF", "FG", "BG"}] /\ child \subseteq Pids

Init == job = [p \in Pids |-> "UNDEF"] /\ child = {}

NoForeground == \A p \in Pids : job[p] # "FG"

Start(p) ==
  /\ NoForeground /\ job[p] = "UNDEF" /\ p \notin child
  /\ child' = child \cup {p}
  /\ UNCHANGED job

List(p, st) ==
  /\ NoForeground /\ job[p] = "UNDEF" /\ p \in child
  /\ job' = [job EXCEPT ![p] = st]
  /\ UNCHANGED child

Collect(p) == p \in child /\ child' = child \ {p} /\ UNCHANGED job

Unlist(p) ==
  /\ job[p] # "UNDEF" /\ p \notin child
  /\ job' = [job EXCEPT ![p] = "UNDEF"]
  /\ UNCHANGED child

Next == \E p \in Pids : \/ Start(p)
                        \/ \E st \in {"FG", "BG"} : List(p, st)
                        \/ Collect(p)
                        \/ Unlist(p)

Spec == Init /\ [][Next]_vars

(* At most one job is in the foreground.                                   *)
OneForeground == \A p, q \in Pids : job[p] = "FG" /\ job[q] = "FG" => p = q
============================================================================
