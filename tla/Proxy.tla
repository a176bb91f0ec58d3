------------------------------- MODULE Proxy --------------------------------
(***************************************************************************)
(* The web proxy of src/proxylab/proxy.c: the main thread accepts          *)
(* connections and passes each to a new thread through a ring of argument  *)
(* records; the threads share the descriptors of the process, the result   *)
(* of gethostbyname, the time of localtime and the log, with two mutexes.  *)
(*                                                                         *)
(* Connections are numbered as they are accepted, and worker c is the      *)
(* thread created for connection c, whose request names host c.  What is   *)
(* read from and written to the sockets is left out; so are the bytes of   *)
(* the request, but for the outcomes that the code tells apart.            *)
(***************************************************************************)
EXTENDS Integers, Sequences, FiniteSets

CONSTANTS MAXTHREADS,   \* length of the ring (300)
          CONNECTIONS,  \* bound of the model: connections that arrive
          DESCRIPTORS   \* descriptors the process may have open

ASSUME ProxyAssumption ==
  /\ MAXTHREADS \in Nat \ {0} /\ CONNECTIONS \in Nat /\ DESCRIPTORS \in Nat

Workers == 1 .. CONNECTIONS

Fds == 1 .. DESCRIPTORS

None == 0

VARIABLES
  main,       \* step of the main thread, its connfd
  accepted,   \* connections accepted, the last one is main's clientaddr
  t,          \* the ring: connfd and clientaddr of each record
  w,          \* locals of the workers
  fds,        \* open descriptors: what each is for
  ts_lock, log_lock,    \* the worker that holds the mutex, or None
  hostent,    \* host whose address gethostbyname has written last
  tm,         \* worker whose time localtime has written last
  log,        \* proxy.log
  up,         \* the process has not exited
  late        \* history: workers whose record main refilled before they read it

shared == <<fds, ts_lock, log_lock, hostent, tm, log>>
vars == <<main, accepted, t, w, shared, up, late>>

Steps == {"none", "created", "addr", "request", "socket", "lock", "lookup", "copy",
          "connect", "relay", "closeServer", "closeClient", "lockLog", "time",
          "open", "write", "unlockLog", "refused", "done"}

Client(c) == <<"client", c>>

Server(c) == <<"server", c>>

LogFile == <<"log", None>>

Descriptions == {Client(c) : c \in Workers} \cup {Server(c) : c \in Workers} \cup {LogFile}

Closed == <<"closed", None>>

Locals == [pc : Steps, connfd : Fds \cup {None}, clientaddr : Workers \cup {None},
           clientfd : Fds \cup {None, -1, -2}, server : Workers \cup {None},
           logfd : Fds \cup {None}, logstring : Workers \cup {None}]

Entries == [time : Workers \cup {None}, client : Workers \cup {None}, by : Workers]

\* The locals of a thread that has not started or has returned.
NoLocals(step) == [pc |-> step, connfd |-> None, clientaddr |-> None, clientfd |-> None,
                   server |-> None, logfd |-> None, logstring |-> None]

Init ==
  /\ main = [pc |-> "accept", connfd |-> None] /\ accepted = 0
  /\ t = [i \in 0 .. MAXTHREADS - 1 |-> [connfd |-> None, clientaddr |-> None]]
  /\ w = [c \in Workers |-> NoLocals("none")]
  /\ fds = [f \in Fds |-> Closed]
  /\ ts_lock = None /\ log_lock = None /\ hostent = None /\ tm = None
  /\ log = <<>> /\ up = TRUE /\ late = {}

----------------------------------------------------------------------------
(* Descriptors (the kernel's) and the ends of the process.                 *)

FreeFds == {f \in Fds : fds[f] = Closed}

\* The lowest free descriptor.
NextFd == CHOOSE f \in FreeFds : \A g \in FreeFds : f <= g

OpenFd(what) == fds' = [fds EXCEPT ![NextFd] = what]

(* The threads end with the process, and the kernel closes descriptors.    *)
Exit ==
  /\ up' = FALSE
  /\ w' = [c \in Workers |-> NoLocals("none")] /\ fds' = [f \in Fds |-> Closed]
  /\ UNCHANGED <<main, accepted, t, ts_lock, log_lock, hostent, tm, log, late>>

Go(c, step) == w' = [w EXCEPT ![c].pc = step]

Return(c, step) == w' = [w EXCEPT ![c] = NoLocals(step)]

\* Mutant: a close that fails is ignored, as the _w wrappers do.
CloseQuietly(c, f, step) ==
  /\ fds' = [g \in Fds |-> IF g = f THEN Closed ELSE fds[g]]
  /\ Go(c, step)
  /\ UNCHANGED <<main, accepted, t, ts_lock, log_lock, hostent, tm, log, up, late>>

\* Close exits when the descriptor is not open.
Close(c, f, step) ==
  IF f \in Fds /\ fds[f] # Closed
  THEN /\ fds' = [fds EXCEPT ![f] = Closed]
       /\ Go(c, step)
       /\ UNCHANGED <<main, accepted, t, ts_lock, log_lock, hostent, tm, log, up, late>>
  ELSE Exit

----------------------------------------------------------------------------
(* The main thread.  Its wrappers exit on every error.                     *)

\* Mutant: the ring is one record short.
SlotShort(n) == IF MAXTHREADS = 1 THEN 0 ELSE (n - 1) % (MAXTHREADS - 1)

\* thread_id for the nth connection.
Slot(n) == (n - 1) % MAXTHREADS

Accept ==
  /\ main.pc = "accept" /\ accepted < CONNECTIONS
  /\ IF FreeFds = {} THEN Exit
     ELSE /\ OpenFd(Client(accepted + 1))
          /\ main' = [pc |-> "connfd", connfd |-> NextFd]
          /\ accepted' = accepted + 1
          /\ UNCHANGED <<t, w, ts_lock, log_lock, hostent, tm, log, up, late>>

PassConnfd ==
  /\ main.pc = "connfd"
  /\ t' = [t EXCEPT ![Slot(accepted)].connfd = main.connfd]
  /\ main' = [main EXCEPT !.pc = "clientaddr"]
  /\ late' = late \cup {c \in Workers : /\ w[c].pc \in {"created", "addr"}
                                        /\ accepted - c >= MAXTHREADS}
  /\ UNCHANGED <<accepted, w, shared, up>>

PassClientaddr ==
  /\ main.pc = "clientaddr"
  /\ t' = [t EXCEPT ![Slot(accepted)].clientaddr = accepted]
  /\ main' = [main EXCEPT !.pc = "create"]
  /\ UNCHANGED <<accepted, w, shared, up, late>>

CreateThread ==
  /\ main.pc = "create"
  /\ w' = [w EXCEPT ![accepted].pc = "created"]
  /\ main' = [pc |-> "accept", connfd |-> None]
  /\ UNCHANGED <<accepted, t, shared, up, late>>

CreateFails == main.pc = "create" /\ Exit

----------------------------------------------------------------------------
(* doit, up to the request.                                                *)

ReadConnfd(c) ==
  /\ w[c].pc = "created"
  /\ w' = [w EXCEPT ![c].pc = "addr", ![c].connfd = t[Slot(c)].connfd]
  /\ UNCHANGED <<main, accepted, t, shared, up, late>>

ReadClientaddr(c) ==
  /\ w[c].pc = "addr"
  /\ w' = [w EXCEPT ![c].pc = "request", ![c].clientaddr = t[Slot(c)].clientaddr]
  /\ UNCHANGED <<main, accepted, t, shared, up, late>>

(* A GET request goes on; any other method is answered and the thread      *)
(* returns with connfd open.                                               *)
ReadRequest(c) ==
  /\ w[c].pc = "request"
  /\ Go(c, "socket") \/ Return(c, "refused")
  /\ UNCHANGED <<main, accepted, t, shared, up, late>>

(* Rio_readlineb exits on an error.  At the end of the file it leaves buf  *)
(* as it is: the loop appends it again until it has left client_message    *)
(* and the stack.                                                          *)
RequestBreaks(c) == w[c].pc = "request" /\ Exit

----------------------------------------------------------------------------
(* open_clientfd_ts.  Every result is used as a descriptor.                *)

Socket(c) ==
  /\ w[c].pc = "socket"
  /\ IF FreeFds = {}
     THEN w' = [w EXCEPT ![c].pc = "relay", ![c].clientfd = -1] /\ UNCHANGED fds
     ELSE w' = [w EXCEPT ![c].pc = "lock", ![c].clientfd = NextFd] /\ OpenFd(Server(c))
  /\ UNCHANGED <<main, accepted, t, ts_lock, log_lock, hostent, tm, log, up, late>>

LockTs(c) ==
  /\ w[c].pc = "lock" /\ ts_lock = None
  /\ ts_lock' = c /\ Go(c, "lookup")
  /\ UNCHANGED <<main, accepted, t, fds, log_lock, hostent, tm, log, up, late>>

Lookup(c) ==
  /\ w[c].pc = "lookup"
  /\ hostent' = c /\ Go(c, "copy")
  /\ UNCHANGED <<main, accepted, t, fds, ts_lock, log_lock, tm, log, up, late>>

\* The function returns with the mutex locked and the socket open.
LookupFails(c) ==
  /\ w[c].pc = "lookup"
  /\ w' = [w EXCEPT ![c].pc = "relay", ![c].clientfd = -2]
  /\ UNCHANGED <<main, accepted, t, shared, up, late>>

\* The copy has the pointers of the shared struct.
CopyAndUnlock(c) ==
  /\ w[c].pc = "copy"
  /\ ts_lock' = None /\ Go(c, "connect")
  /\ UNCHANGED <<main, accepted, t, fds, log_lock, hostent, tm, log, up, late>>

\* The address is read through them.
Connect(c) ==
  /\ w[c].pc = "connect"
  /\ w' = [w EXCEPT ![c].pc = "relay", ![c].server = hostent]
  /\ UNCHANGED <<main, accepted, t, shared, up, late>>

ConnectFails(c) ==
  /\ w[c].pc = "connect"
  /\ w' = [w EXCEPT ![c].pc = "relay", ![c].clientfd = -1]
  /\ UNCHANGED <<main, accepted, t, shared, up, late>>

----------------------------------------------------------------------------
(* The response, the end of the connections, and the log.                  *)

\* Reads and writes that fail count as the end of the response.
Relay(c) ==
  /\ w[c].pc = "relay" /\ Go(c, "closeServer")
  /\ UNCHANGED <<main, accepted, t, shared, up, late>>

\* Mutant: the connection to the server is not closed.
CloseServerNever(c) ==
  /\ w[c].pc = "closeServer" /\ Go(c, "closeClient")
  /\ UNCHANGED <<main, accepted, t, shared, up, late>>

CloseServer(c) == w[c].pc = "closeServer" /\ Close(c, w[c].clientfd, "closeClient")

CloseClient(c) == w[c].pc = "closeClient" /\ Close(c, w[c].connfd, "lockLog")

\* Mutant: the log is not locked.
LockLogNever(c) ==
  /\ w[c].pc = "lockLog"
  /\ log_lock' = c /\ Go(c, "time")
  /\ UNCHANGED <<main, accepted, t, fds, ts_lock, hostent, tm, log, up, late>>

LockLog(c) ==
  /\ w[c].pc = "lockLog" /\ log_lock = None
  /\ log_lock' = c /\ Go(c, "time")
  /\ UNCHANGED <<main, accepted, t, fds, ts_lock, hostent, tm, log, up, late>>

\* format_log_entry: localtime writes a static struct, strftime reads it.
Localtime(c) ==
  /\ w[c].pc = "time"
  /\ tm' = c /\ Go(c, "open")
  /\ UNCHANGED <<main, accepted, t, fds, ts_lock, log_lock, hostent, log, up, late>>

OpenLog(c) ==
  /\ w[c].pc = "open"
  /\ IF FreeFds = {} THEN Exit
     ELSE /\ w' = [w EXCEPT ![c].pc = "write", ![c].logfd = NextFd, ![c].logstring = tm]
          /\ OpenFd(LogFile)
          /\ UNCHANGED <<main, accepted, t, ts_lock, log_lock, hostent, tm, log, up, late>>

OpenLogFails(c) == w[c].pc = "open" /\ Exit

\* Fwrite and Fclose.
WriteLog(c) ==
  /\ w[c].pc = "write"
  /\ log' = Append(log, [time |-> w[c].logstring, client |-> w[c].clientaddr, by |-> c])
  /\ fds' = [fds EXCEPT ![w[c].logfd] = Closed]
  /\ Go(c, "unlockLog")
  /\ UNCHANGED <<main, accepted, t, ts_lock, log_lock, hostent, tm, up, late>>

UnlockLog(c) ==
  /\ w[c].pc = "unlockLog"
  /\ log_lock' = None /\ Return(c, "done")
  /\ UNCHANGED <<main, accepted, t, fds, ts_lock, hostent, tm, log, up, late>>

Main == up /\ (Accept \/ PassConnfd \/ PassClientaddr \/ CreateThread \/ CreateFails)

doit(c) ==
  /\ up
  /\ \/ ReadConnfd(c) \/ ReadClientaddr(c) \/ ReadRequest(c) \/ RequestBreaks(c)
     \/ Socket(c) \/ LockTs(c) \/ Lookup(c) \/ LookupFails(c) \/ CopyAndUnlock(c)
     \/ Connect(c) \/ ConnectFails(c) \/ Relay(c) \/ CloseServer(c) \/ CloseClient(c)
     \/ LockLog(c) \/ Localtime(c) \/ OpenLog(c) \/ OpenLogFails(c) \/ WriteLog(c)
     \/ UnlockLog(c)

Returned(c) == w[c].pc \in {"refused", "done"}

Next == Main \/ \E c \in Workers : doit(c)

Spec == Init /\ [][Next]_vars

(* The scheduler runs every thread; clients send requests or close, and    *)
(* origin servers end their responses.                                     *)
FairSpec == Spec /\ \A c \in Workers : WF_vars(doit(c))

----------------------------------------------------------------------------
(* Properties.  They speak of schedules in which every thread has read its *)
(* arguments before main has gone once round the ring; no other schedule   *)
(* is prevented, and then two threads serve one connection and another one *)
(* is lost.                                                                *)

TypeOK ==
  /\ main \in [pc : {"accept", "connfd", "clientaddr", "create"}, connfd : Fds \cup {None}]
  /\ accepted \in 0 .. CONNECTIONS
  /\ t \in [0 .. MAXTHREADS - 1 ->
              [connfd : Fds \cup {None}, clientaddr : Workers \cup {None}]]
  /\ w \in [Workers -> Locals]
  /\ fds \in [Fds -> Descriptions \cup {Closed}]
  /\ ts_lock \in Workers \cup {None} /\ log_lock \in Workers \cup {None}
  /\ hostent \in Workers \cup {None} /\ tm \in Workers \cup {None}
  /\ log \in Seq(Entries)
  /\ up \in BOOLEAN /\ late \subseteq Workers

Serving == {"request", "socket", "lock", "lookup", "copy", "connect", "relay",
            "closeServer", "closeClient"}

(* A thread works on the connection that it was created for, with its      *)
(* client's address, and its descriptors stay its own until it closes      *)
(* them, although their numbers are used again at once.                    *)
OwnDescriptors ==
  late = {} =>
    \A c \in Workers :
      /\ w[c].pc \in Serving => fds[w[c].connfd] = Client(c) /\ w[c].clientaddr = c
      /\ w[c].pc \in Serving \ {"closeClient"} /\ w[c].clientfd \in Fds
           => fds[w[c].clientfd] = Server(c)

(* What stays open when all threads have returned are the connections of   *)
(* requests other than GET (line 150 returns without Close).               *)
LeaksAreRefusals ==
  late = {} /\ up =>
    \A f \in Fds : \A c \in Workers :
      /\ fds[f] = Client(c) /\ Returned(c) => w[c].pc = "refused"
      /\ fds[f] = Server(c) => ~ Returned(c)

(* The log has one entry for every request served, with the time at which  *)
(* its own thread took it: localtime's static struct is not mixed up.      *)
LogIsComplete ==
  /\ \A i \in 1 .. Len(log) : log[i].time = log[i].by
  /\ late = {} => \A i \in 1 .. Len(log) : log[i].client = log[i].by
  /\ \A c \in Workers : w[c].pc \in {"unlockLog", "done"} =>
       Cardinality({i \in 1 .. Len(log) : log[i].by = c}) = 1

(* No thread waits for ever: the mutex that a failed lookup leaves locked  *)
(* (line 409) blocks the others only until the same thread closes          *)
(* descriptor -2, which ends the process.                                  *)
WorkersFinish == \A c \in Workers : w[c].pc = "created" ~> Returned(c) \/ ~ up

(* "thread safe version of open_clientfd, uses lock & copy": a thread      *)
(* connects to the host that its request names.                            *)
ConnectsToItsHost == \A c \in Workers : w[c].server \in {None, c}
=============================================================================
