------------------------------- MODULE MCWeb --------------------------------
(***************************************************************************)
(* The programs that speak HTTP through the robust I/O of csapp.c, one in  *)
(* each behaviour: the proxy, in a thread that reads a request (Request)   *)
(* or relays a response (Relay), and the server Tiny.                      *)
(***************************************************************************)
EXTENDS Relay, Request, Tiny

VARIABLE program

\* What does not run has only one beginning.
WebInit ==
  /\ program \in {"request", "relay", "tiny"}
  /\ \/ program = "relay"
     \/ program # "relay" /\ response = <<>> /\ filetype = "text"
  /\ \/ program = "tiny"
     \/ program # "tiny" /\ file = CHOOSE f \in [Paths -> Lengths] : TRUE
  /\ \/ program = "request"
     \/ program # "request" /\ method = "other" /\ uri = AnyUri /\ headers = <<>>
  /\ Init /\ TinyInit /\ RequestInit

WebNext ==
  /\ \/ program = "request" /\ RequestNext /\ UNCHANGED <<vars, tinyVars>>
     \/ program = "relay" /\ Next /\ UNCHANGED <<tinyVars, requestVars>>
     \/ program = "tiny" /\ TinyNext /\ UNCHANGED <<vars, requestVars>>
  /\ UNCHANGED program

(* As in Relay; the thread and Tiny are scheduled, and clients read, and   *)
(* send requests to their end, or close.                                   *)
WebSpec ==
  /\ WebInit /\ [][WebNext]_<<program, vars, tinyVars, requestVars>>
  /\ WF_vars(program = "relay" /\ Goes /\ UNCHANGED <<program, tinyVars, requestVars>>)
  /\ WF_tinyVars(program = "tiny" /\ Serves /\ UNCHANGED <<program, vars, requestVars>>)
  /\ WF_requestVars(program = "request" /\ Reads
                      /\ UNCHANGED <<program, vars, tinyVars>>)

----------------------------------------------------------------------------
TypesOK == TypeOK /\ TinyTypeOK

(* A thread of the proxy reads its request to the end and relays the       *)
(* response to the end, and Tiny serves each request to its end (see       *)
(* Request, Relay and Tiny).                                               *)
ServersGoOn ==
  /\ program = "request" => RequestEnds
  /\ program = "relay" => RelayEnds
  /\ TinyGoesOn
=============================================================================
