------------------------------- MODULE MCTsh -------------------------------
(* The shell with a few process IDs; symmetric in them for safety runs.    *)
EXTENDS TshRefines, TLC

PidSymmetry == Permutations(Pids)
============================================================================
