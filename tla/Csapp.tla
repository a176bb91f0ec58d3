------------------------------- MODULE Csapp --------------------------------
(***************************************************************************)
(* What the programs of src/proxylab share of csapp.h: the size of their   *)
(* line buffers.                                                           *)
(***************************************************************************)
EXTENDS Integers

CONSTANT MAXLINE        \* size of a line buffer (8192)

ASSUME LineAssumption == MAXLINE \in Nat /\ MAXLINE >= 2

NL == "\n"
=============================================================================
