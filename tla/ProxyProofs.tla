---------------------------- MODULE ProxyProofs -----------------------------
(***************************************************************************)
(* Proofs about the proxy (Proxy), for any number of connections, records  *)
(* of the ring and descriptors: its type invariant, and that threads keep  *)
(* to their own connections, that only refused requests leave one open,    *)
(* and that the log is complete.                                           *)
(***************************************************************************)
EXTENDS Proxy, NatLemmas, TLAPS

----------------------------------------------------------------------------
(* The inductive invariant, in four parts.                                 *)

\* The process ends with all of its threads, and a connection has no
\* thread before main has passed it on.
Threads ==
  /\ ~ up => \A c \in Workers : w[c].pc = "none"
  /\ main.pc # "accept" => accepted \in Workers /\ w[accepted].pc = "none"
  /\ main.pc # "accept" => main.connfd \in Fds
  /\ \A c \in Workers : c > accepted => w[c].pc = "none"
  /\ \A c \in Workers : w[c].pc = "none" => w[c] = NoLocals("none")

\* Steps at which a thread holds the mutex of the log.
Logging == {"time", "open", "write", "unlockLog"}

Logged == {"unlockLog", "done"}

\* The mutex of the log, and what has been written under it.
LogOf(c) ==
  /\ w[c].pc \in Logging => log_lock = c
  /\ w[c].pc = "open" => tm = c
  /\ w[c].pc = "write" => w[c].logstring = c
  /\ up /\ w[c].pc \notin Logged => \A i \in 1 .. Len(log) : log[i].by # c
  /\ w[c].pc \in Logged =>
       \E i \in 1 .. Len(log) : \A j \in 1 .. Len(log) : log[j].by = c <=> j = i

OwnEntries ==
  \A i \in 1 .. Len(log) :
    log[i].time = log[i].by /\ (late = {} => log[i].client = log[i].by)

LogInv == OwnEntries /\ \A c \in Workers : LogOf(c)

\* Steps at which a thread knows its connection, its client's address,
\* and has a socket for the server.
WithConnfd == Serving \cup {"addr"}

WithClientaddr == Serving \cup Logging \cup {"lockLog"}

WithServer == {"lock", "lookup", "copy", "connect", "relay", "closeServer"}

\* Main fills the record of the ring for the connection it has accepted;
\* every thread that has not read its own is less than a round behind.
Ring ==
  up /\ late = {} =>
    /\ main.pc # "accept" => fds[main.connfd] = Client(accepted)
    /\ main.pc \in {"clientaddr", "create"} =>
         /\ t[Slot(accepted)].connfd = main.connfd
         /\ \A c \in Workers : w[c].pc \in {"created", "addr"} => accepted - c < MAXTHREADS
    /\ main.pc = "create" => t[Slot(accepted)].clientaddr = accepted

\* The record of a thread that has not read it, and what a thread holds.
OwnOf(c) ==
  /\ w[c].pc = "created" =>
       t[Slot(c)].connfd \in Fds /\ fds[t[Slot(c)].connfd] = Client(c)
  /\ w[c].pc \in {"created", "addr"} => t[Slot(c)].clientaddr = c
  /\ w[c].pc \in WithConnfd => w[c].connfd \in Fds /\ fds[w[c].connfd] = Client(c)
  /\ w[c].pc \in WithClientaddr => w[c].clientaddr = c
  /\ w[c].pc \in {"created", "addr", "request", "socket"} => w[c].clientfd = None
  /\ w[c].pc \in WithServer /\ w[c].clientfd \in Fds => fds[w[c].clientfd] = Server(c)
  /\ w[c].pc = "write" => w[c].logfd \in Fds /\ fds[w[c].logfd] = LogFile

Own == late = {} => \A c \in Workers : OwnOf(c)

\* Who can close an open descriptor.
HeldBy(f, c) ==
  /\ fds[f] = Client(c) =>
       \/ main.pc # "accept" /\ c = accepted /\ f = main.connfd
       \/ w[c].pc = "created" /\ f = t[Slot(c)].connfd
       \/ w[c].pc \in WithConnfd /\ f = w[c].connfd
       \/ w[c].pc = "refused"
  /\ fds[f] = Server(c) =>
       w[c].pc \in WithServer /\ (f = w[c].clientfd \/ w[c].clientfd \notin Fds)

Held == late = {} => \A f \in Fds : \A c \in Workers : HeldBy(f, c)

IInv == TypeOK /\ Threads /\ LogInv /\ Ring /\ Own /\ Held

----------------------------------------------------------------------------
(* Descriptors and records.                                                *)

\* The lowest free descriptor exists if one is free.
LEMMA NextFdIsFree ==
  ASSUME FreeFds # {}
  PROVE  NextFd \in Fds /\ fds[NextFd] = Closed
<1>1. FreeFds \in SUBSET Nat
  BY ProxyAssumption DEF FreeFds, Fds
<1>2. \E f \in FreeFds : \A g \in FreeFds : f <= g
  BY <1>1, LeastNat
<1>3. NextFd \in FreeFds
  BY <1>2 DEF NextFd
<1> QED BY <1>3 DEF FreeFds

\* What a descriptor is for tells the kinds and the threads apart.
LEMMA DescriptionsDiffer ==
  /\ \A c, d : Client(c) = Client(d) => c = d
  /\ \A c, d : Server(c) = Server(d) => c = d
  /\ \A c, d : Client(c) # Server(d)
  /\ \A c : Client(c) \notin {LogFile, Closed} /\ Server(c) \notin {LogFile, Closed}
  /\ LogFile # Closed
  /\ \A c \in Workers : {Client(c), Server(c), LogFile, Closed} \subseteq Descriptions \cup {Closed}
BY DEF Client, Server, LogFile, Closed, Descriptions

\* A connection's place in the ring.
LEMMA SlotType ==
  ASSUME NEW n \in Nat \ {0}
  PROVE  Slot(n) \in 0 .. MAXTHREADS - 1
BY ProxyAssumption DEF Slot

\* Two connections less than a round apart have different records.
LEMMA SlotsDiffer ==
  ASSUME NEW n \in Nat \ {0}, NEW m \in Nat \ {0}, m < n, n - m < MAXTHREADS
  PROVE  Slot(m) # Slot(n)
<1> DEFINE a == (n - 1) \div MAXTHREADS
           b == (m - 1) \div MAXTHREADS
<1>1. MAXTHREADS \in Nat \ {0} /\ a \in Int /\ b \in Int
  BY ProxyAssumption
<1>2. /\ n - 1 = MAXTHREADS * a + Slot(n)
      /\ m - 1 = MAXTHREADS * b + Slot(m)
      /\ Slot(n) \in Int /\ Slot(m) \in Int
  BY <1>1 DEF Slot
<1> SUFFICES ASSUME Slot(m) = Slot(n) PROVE FALSE
  OBVIOUS
<1> HIDE DEF a, b
<1>3. n - m = MAXTHREADS * (a - b)
  <2>1. n - m = MAXTHREADS * a - MAXTHREADS * b
    BY <1>1, <1>2
  <2> QED BY <1>1, <2>1
<1>4. CASE a - b <= 0
  <2>1. MAXTHREADS * (a - b) <= 0
    BY <1>1, <1>4
  <2> QED BY <1>3, <2>1
<1>5. CASE a - b >= 1
  <2>1. MAXTHREADS * (a - b) >= MAXTHREADS
    BY <1>1, <1>5
  <2> QED BY <1>1, <1>3, <2>1
<1> QED BY <1>1, <1>4, <1>5

----------------------------------------------------------------------------
(* Types.                                                                  *)

USE DEF None

LEMMA InitTypes == Init => TypeOK
BY ProxyAssumption DEF Init, TypeOK, Workers, Fds, Locals, NoLocals, Steps, Entries

\* The types of the locals of a thread.
LEMMA NoLocalsType == \A s \in Steps : NoLocals(s) \in Locals
BY DEF NoLocals, Locals

LEMMA LocalsSteps == \A l \in Locals : \A s \in Steps : [l EXCEPT !.pc = s] \in Locals
BY DEF Locals

LEMMA ExitTypes == TypeOK /\ Exit => TypeOK'
BY NoLocalsType DEF TypeOK, Exit, Steps

LEMMA MainTypes == TypeOK /\ Threads /\ Main => TypeOK'
<1> SUFFICES ASSUME TypeOK, Threads, Main PROVE TypeOK'
  OBVIOUS
<1> USE ProxyAssumption DEF TypeOK, shared
<1>1. CASE Accept
  <2>1. CASE Exit
    BY <2>1, ExitTypes
  <2>2. CASE FreeFds # {}
    <3>1. accepted + 1 \in Workers
      BY <1>1 DEF Accept, Workers
    <3>2. NextFd \in Fds /\ Client(accepted + 1) \in Descriptions
      BY <2>2, <3>1, NextFdIsFree DEF Descriptions
    <3>3. fds' \in [Fds -> Descriptions \cup {Closed}]
      BY <1>1, <2>2, <3>2 DEF Accept, OpenFd
    <3>4. main' \in [pc : {"accept", "connfd", "clientaddr", "create"}, connfd : Fds \cup {0}]
      BY <1>1, <2>2, <3>2 DEF Accept
    <3>5. /\ accepted' \in 0 .. CONNECTIONS
          /\ UNCHANGED <<t, w, ts_lock, log_lock, hostent, tm, log, up, late>>
      BY <1>1, <2>2 DEF Accept
    <3> QED BY <3>3, <3>4, <3>5
  <2> QED BY <1>1, <2>1, <2>2 DEF Accept
<1>2. CASE PassConnfd
  BY <1>2 DEF PassConnfd
<1>3. CASE PassClientaddr
  <2>1. accepted \in Workers /\ UNCHANGED <<accepted, w, shared, up, late>>
    BY <1>3 DEF PassClientaddr, Threads
  <2>2. t' \in [0 .. MAXTHREADS - 1 -> [connfd : Fds \cup {0}, clientaddr : Workers \cup {0}]]
    <3>1. \A i \in 0 .. MAXTHREADS - 1 :
            [t[i] EXCEPT !.clientaddr = accepted]
              \in [connfd : Fds \cup {0}, clientaddr : Workers \cup {0}]
      BY <2>1
    <3> QED BY <1>3, <3>1 DEF PassClientaddr
  <2>3. main' \in [pc : {"accept", "connfd", "clientaddr", "create"}, connfd : Fds \cup {0}]
    BY <1>3 DEF PassClientaddr
  <2> QED BY <2>1, <2>2, <2>3
<1>4. CASE CreateThread
  <2>1. accepted \in Workers /\ UNCHANGED <<accepted, t, shared, up, late>>
    BY <1>4 DEF CreateThread, Threads
  <2>2. [w[accepted] EXCEPT !.pc = "created"] \in Locals
    BY <2>1, LocalsSteps DEF Steps
  <2>3. main' \in [pc : {"accept", "connfd", "clientaddr", "create"}, connfd : Fds \cup {0}]
    BY <1>4 DEF CreateThread
  <2> QED BY <1>4, <2>1, <2>2, <2>3 DEF CreateThread
<1>5. CASE CreateFails
  BY <1>5, ExitTypes DEF CreateFails
<1> QED BY <1>1, <1>2, <1>3, <1>4, <1>5 DEF Main

LEMMA WorkerTypes == ASSUME TypeOK, NEW c \in Workers, doit(c) PROVE TypeOK'
<1> USE ProxyAssumption DEF TypeOK, shared
<1>1. w[c] \in Locals /\ w \in [Workers -> Locals]
  OBVIOUS
\* Most steps change the step of their thread, and one variable or none.
<1> DEFINE Mutexes == /\ ts_lock' \in Workers \cup {0} /\ log_lock' \in Workers \cup {0}
                      /\ hostent' \in Workers \cup {0} /\ tm' \in Workers \cup {0}
           Rest == UNCHANGED <<main, accepted, t, up, late>>
<1>2. ASSUME NEW l \in Locals, w' = [w EXCEPT ![c] = l], Mutexes, Rest,
             log' \in Seq(Entries), fds' \in [Fds -> Descriptions \cup {Closed}]
      PROVE  TypeOK'
  BY <1>2
<1>3. ASSUME NEW s \in Steps, Go(c, s), Mutexes, Rest,
             log' \in Seq(Entries), fds' \in [Fds -> Descriptions \cup {Closed}]
      PROVE  TypeOK'
  <2>1. [w[c] EXCEPT !.pc = s] \in Locals
    BY <1>1, LocalsSteps
  <2> QED BY <1>3, <2>1 DEF Go
<1>4. ASSUME NEW s \in Steps, NEW f, Close(c, f, s)
      PROVE  TypeOK'
  <2>1. CASE Exit
    BY <2>1, ExitTypes
  <2>2. CASE ~ Exit
    <3>1. fds' \in [Fds -> Descriptions \cup {Closed}]
      BY <1>4, <2>2 DEF Close
    <3> QED BY <1>3, <1>4, <2>2, <3>1 DEF Close
  <2> QED BY <2>1, <2>2
<1>5. CASE ReadConnfd(c)
  <2>1. [w[c] EXCEPT !.pc = "addr", !.connfd = t[Slot(c)].connfd] \in Locals
    <3>1. t[Slot(c)].connfd \in Fds \cup {0}
      BY SlotType DEF Workers
    <3> QED BY <1>1, <3>1 DEF Locals, Steps
  <2> QED BY <1>5, <2>1 DEF ReadConnfd
<1>6. CASE ReadClientaddr(c)
  <2>1. [w[c] EXCEPT !.pc = "request", !.clientaddr = t[Slot(c)].clientaddr] \in Locals
    <3>1. t[Slot(c)].clientaddr \in Workers \cup {0}
      BY SlotType DEF Workers
    <3> QED BY <1>1, <3>1 DEF Locals, Steps
  <2> QED BY <1>6, <2>1 DEF ReadClientaddr
<1>7. CASE ReadRequest(c)
  <2>1. CASE Go(c, "socket")
    BY <1>3, <1>7, <2>1 DEF ReadRequest, Steps
  <2>2. CASE Return(c, "refused")
    BY <1>2, <1>7, <2>2, NoLocalsType DEF ReadRequest, Return, Steps
  <2> QED BY <1>7, <2>1, <2>2 DEF ReadRequest
<1>8. CASE RequestBreaks(c) \/ OpenLogFails(c)
  BY <1>8, ExitTypes DEF RequestBreaks, OpenLogFails
<1>9. CASE Socket(c)
  <2>1. CASE FreeFds = {}
    <3>1. [w[c] EXCEPT !.pc = "relay", !.clientfd = -1] \in Locals
      BY <1>1 DEF Locals, Steps
    <3> QED BY <1>9, <2>1, <3>1 DEF Socket
  <2>2. CASE FreeFds # {}
    <3>1. NextFd \in Fds /\ Server(c) \in Descriptions
      BY <2>2, NextFdIsFree DEF Descriptions
    <3>2. [w[c] EXCEPT !.pc = "lock", !.clientfd = NextFd] \in Locals
      BY <1>1, <3>1 DEF Locals, Steps
    <3>3. fds' \in [Fds -> Descriptions \cup {Closed}]
      BY <1>9, <2>2, <3>1 DEF Socket, OpenFd
    <3> QED BY <1>9, <2>2, <3>2, <3>3 DEF Socket
  <2> QED BY <2>1, <2>2
<1>10. CASE LockTs(c)
  BY <1>3, <1>10 DEF LockTs, Steps
<1>11. CASE Lookup(c)
  BY <1>3, <1>11 DEF Lookup, Steps
<1>12. CASE LookupFails(c)
  <2>1. [w[c] EXCEPT !.pc = "relay", !.clientfd = -2] \in Locals
    BY <1>1 DEF Locals, Steps
  <2> QED BY <1>12, <2>1 DEF LookupFails
<1>13. CASE CopyAndUnlock(c)
  BY <1>3, <1>13 DEF CopyAndUnlock, Steps
<1>14. CASE Connect(c)
  <2>1. [w[c] EXCEPT !.pc = "relay", !.server = hostent] \in Locals
    BY <1>1 DEF Locals, Steps
  <2> QED BY <1>14, <2>1 DEF Connect
<1>15. CASE ConnectFails(c)
  <2>1. [w[c] EXCEPT !.pc = "relay", !.clientfd = -1] \in Locals
    BY <1>1 DEF Locals, Steps
  <2> QED BY <1>15, <2>1 DEF ConnectFails
<1>16. CASE Relay(c)
  BY <1>3, <1>16 DEF Relay, Steps
<1>17. CASE CloseServer(c) \/ CloseClient(c)
  BY <1>4, <1>17 DEF CloseServer, CloseClient, Steps
<1>18. CASE LockLog(c)
  BY <1>3, <1>18 DEF LockLog, Steps
<1>19. CASE Localtime(c)
  BY <1>3, <1>19 DEF Localtime, Steps
<1>20. CASE OpenLog(c)
  <2>1. CASE FreeFds = {}
    BY <1>20, <2>1, ExitTypes DEF OpenLog
  <2>2. CASE FreeFds # {}
    <3>1. NextFd \in Fds /\ LogFile \in Descriptions
      BY <2>2, NextFdIsFree DEF Descriptions
    <3>2. [w[c] EXCEPT !.pc = "write", !.logfd = NextFd, !.logstring = tm] \in Locals
      BY <1>1, <3>1 DEF Locals, Steps
    <3>3. fds' \in [Fds -> Descriptions \cup {Closed}]
      BY <1>20, <2>2, <3>1 DEF OpenLog, OpenFd
    <3> QED BY <1>20, <2>2, <3>2, <3>3 DEF OpenLog
  <2> QED BY <2>1, <2>2
<1>21. CASE WriteLog(c)
  <2>1. [time |-> w[c].logstring, client |-> w[c].clientaddr, by |-> c] \in Entries
    BY <1>1 DEF Locals, Entries
  <2>2. log' \in Seq(Entries)
    BY <1>21, <2>1 DEF WriteLog
  <2>3. fds' \in [Fds -> Descriptions \cup {Closed}]
    BY <1>21 DEF WriteLog
  <2> QED BY <1>3, <1>21, <2>2, <2>3 DEF WriteLog, Steps
<1>22. CASE UnlockLog(c)
  BY <1>2, <1>22, NoLocalsType DEF UnlockLog, Return, Steps
<1> QED BY <1>5, <1>6, <1>7, <1>8, <1>9, <1>10, <1>11, <1>12, <1>13, <1>14, <1>15, <1>16,
           <1>17, <1>18, <1>19, <1>20, <1>21, <1>22 DEF doit

----------------------------------------------------------------------------
(* What a step leaves alone.                                               *)

\* A thread's step that does not end the process changes its own locals
\* and nothing of main.
LEMMA WorkerFrame ==
  ASSUME TypeOK, NEW c \in Workers, doit(c), ~ Exit
  PROVE  /\ UNCHANGED <<main, accepted, t, up, late>> /\ up
         /\ w[c].pc # "none" /\ w'[c].pc # "none"
         /\ w'[c].pc = "addr" => w[c].pc = "created"
         /\ w'[c].pc # "created"
         /\ \A d \in Workers \ {c} : w'[d] = w[d]
<1> USE DEF shared, Go, Return, NoLocals, Locals
<1>0. w \in [Workers -> Locals] /\ up
  BY DEF TypeOK, doit
<1>1. CASE ReadConnfd(c)
  BY <1>0, <1>1 DEF ReadConnfd
<1>2. CASE ReadClientaddr(c)
  BY <1>0, <1>2 DEF ReadClientaddr
<1>3. CASE ReadRequest(c)
  BY <1>0, <1>3 DEF ReadRequest
<1>4. CASE RequestBreaks(c) \/ OpenLogFails(c)
  BY <1>4 DEF RequestBreaks, OpenLogFails
<1>5. CASE Socket(c)
  BY <1>0, <1>5 DEF Socket
<1>6. CASE LockTs(c) \/ Lookup(c) \/ LookupFails(c)
  BY <1>0, <1>6 DEF LockTs, Lookup, LookupFails
<1>7. CASE CopyAndUnlock(c) \/ Connect(c) \/ ConnectFails(c) \/ Relay(c)
  BY <1>0, <1>7 DEF CopyAndUnlock, Connect, ConnectFails, Relay
<1>8. ASSUME NEW f, NEW s \in {"closeClient", "lockLog"},
             w[c].pc \in {"closeServer", "closeClient"}, Close(c, f, s)
      PROVE  /\ UNCHANGED <<main, accepted, t, up, late>>
             /\ w'[c].pc = s /\ \A d \in Workers \ {c} : w'[d] = w[d]
  <2>1. UNCHANGED <<main, accepted, t, up, late>> /\ w' = [w EXCEPT ![c].pc = s]
    BY <1>8 DEF Close
  <2> QED BY <1>0, <2>1
<1>9. CASE LockLog(c) \/ Localtime(c)
  BY <1>0, <1>9 DEF LockLog, Localtime
<1>10. CASE OpenLog(c)
  <2>1. UNCHANGED <<main, accepted, t, up, late>> /\ w[c].pc = "open"
    BY <1>10 DEF OpenLog
  <2>2. w' = [w EXCEPT ![c].pc = "write", ![c].logfd = NextFd, ![c].logstring = tm]
    BY <1>10 DEF OpenLog
  <2> QED BY <1>0, <2>1, <2>2
<1>11. CASE WriteLog(c) \/ UnlockLog(c)
  <2>1. UNCHANGED <<main, accepted, t, up, late>> /\ w[c].pc \in {"write", "unlockLog"}
    BY <1>11 DEF WriteLog, UnlockLog
  <2>2. w' = [w EXCEPT ![c].pc = "unlockLog"] \/ w' = [w EXCEPT ![c] = NoLocals("done")]
    BY <1>11 DEF WriteLog, UnlockLog
  <2> QED BY <1>0, <2>1, <2>2
<1>12. CASE CloseServer(c) \/ CloseClient(c)
  BY <1>0, <1>8, <1>12 DEF CloseServer, CloseClient
<1> QED BY <1>1, <1>2, <1>3, <1>4, <1>5, <1>6, <1>7, <1>9, <1>10, <1>11, <1>12 DEF doit

\* The end of the process.
LEMMA ExitStep == Threads /\ LogInv /\ Exit => (Threads /\ LogInv /\ Ring /\ Own /\ Held)'
<1> SUFFICES ASSUME Threads, LogInv, Exit PROVE (Threads /\ LogInv /\ Ring /\ Own /\ Held)'
  OBVIOUS
<1>1. /\ ~ up' /\ \A c \in Workers : w'[c] = NoLocals("none")
      /\ \A c \in Workers : w'[c].pc = "none"
      /\ \A f \in Fds : fds'[f] = Closed
      /\ UNCHANGED <<main, accepted, t, late, log>>
  BY DEF Exit, NoLocals
<1>2. Threads'
  BY <1>1 DEF Threads
<1>3. LogInv'
  BY <1>1 DEF LogInv, LogOf, OwnEntries, Logging, Logged
<1>4. Ring'
  BY <1>1 DEF Ring
<1>5. Own'
  BY <1>1 DEF Own, OwnOf, WithConnfd, WithClientaddr, WithServer, Serving, Logging
<1>6. Held'
  BY <1>1, DescriptionsDiffer DEF Held, HeldBy
<1> QED BY <1>2, <1>3, <1>4, <1>5, <1>6

LEMMA ThreadsStep == TypeOK /\ Threads /\ [Next]_vars => Threads'
<1> SUFFICES ASSUME TypeOK, Threads, [Next]_vars PROVE Threads'
  OBVIOUS
<1>0. CASE Exit
  BY <1>0 DEF Exit, Threads, NoLocals
<1> SUFFICES ASSUME ~ Exit PROVE Threads'
  BY <1>0
<1> USE DEF TypeOK, shared
<1>1. CASE up /\ Accept
  <2>1. /\ NextFd \in Fds /\ main' = [pc |-> "connfd", connfd |-> NextFd]
        /\ accepted' = accepted + 1 /\ w' = w /\ up' = up
    BY <1>1, NextFdIsFree DEF Accept
  <2>2. accepted + 1 \in Workers /\ accepted \in Nat
    BY <1>1, ProxyAssumption DEF Accept, Workers
  <2> QED BY <2>1, <2>2 DEF Threads, Workers
<1>2. CASE PassConnfd \/ PassClientaddr
  BY <1>2 DEF PassConnfd, PassClientaddr, Threads
<1>3. CASE up /\ CreateThread
  BY <1>3 DEF CreateThread, Threads, Workers
<1>4. CASE CreateFails
  BY <1>4 DEF CreateFails
<1>5. ASSUME NEW c \in Workers, doit(c) PROVE Threads'
  BY <1>5, WorkerFrame DEF Threads
<1>6. CASE UNCHANGED vars
  BY <1>6 DEF vars, Threads
<1> QED BY <1>1, <1>2, <1>3, <1>4, <1>5, <1>6 DEF Next, Main

----------------------------------------------------------------------------
(* The log.                                                                *)

\* The other threads keep their part of LogInv while one of them has the
\* mutex, or writes its entry.
LEMMA LogStep == IInv /\ [Next]_vars => LogInv'
<1> SUFFICES ASSUME IInv, [Next]_vars PROVE LogInv'
  OBVIOUS
<1>0. LogInv /\ TypeOK /\ Threads /\ Own
  BY DEF IInv
<1>1. CASE Exit
  BY <1>0, <1>1, ExitStep
<1> SUFFICES ASSUME ~ Exit PROVE LogInv'
  BY <1>1
<1> DEFINE Quiet == Steps \ (Logging \cup Logged)
<1>2. ASSUME UNCHANGED <<log, log_lock, tm, up>>, late \subseteq late',
             \A d \in Workers : w'[d] = w[d] \/ (w[d].pc \in Quiet /\ w'[d].pc \in Quiet)
      PROVE  LogInv'
  <2>1. OwnEntries'
    BY <1>0, <1>2 DEF LogInv, OwnEntries
  <2>2. ASSUME NEW d \in Workers PROVE LogOf(d)'
    <3>1. LogOf(d) /\ UNCHANGED <<log, log_lock, tm, up>>
      BY <1>0, <1>2 DEF LogInv
    <3>2. CASE w'[d] = w[d]
      BY <3>1, <3>2 DEF LogOf
    <3>3. CASE w[d].pc \in Quiet /\ w'[d].pc \in Quiet
      BY <3>1, <3>3 DEF LogOf, Logging, Logged
    <3> QED BY <1>2, <3>2, <3>3
  <2> QED BY <2>1, <2>2 DEF LogInv
<1>3. CASE Main
  <2>1. UNCHANGED <<log, log_lock, tm, up>> /\ late \subseteq late'
    BY <1>3 DEF Main, Accept, PassConnfd, PassClientaddr, CreateThread, CreateFails, shared
  <2>2. CASE main.pc # "create"
    <3>1. w' = w
      BY <1>3, <2>2 DEF Main, Accept, PassConnfd, PassClientaddr, CreateThread, CreateFails
    <3> QED BY <1>2, <2>1, <3>1
  <2>3. CASE main.pc = "create"
    <3>1. CreateThread /\ accepted \in Workers /\ w[accepted].pc = "none"
      BY <1>0, <1>3, <2>3
      DEF Main, Accept, PassConnfd, PassClientaddr, CreateThread, CreateFails, Threads
    <3>2. w' = [w EXCEPT ![accepted].pc = "created"]
      BY <3>1 DEF CreateThread
    <3>3. \A d \in Workers : w'[d] = w[d] \/ (w[d].pc \in Quiet /\ w'[d].pc \in Quiet)
      BY <1>0, <3>1, <3>2 DEF TypeOK, Locals, Steps, Logging, Logged
    <3> QED BY <1>2, <2>1, <3>3
  <2> QED BY <2>2, <2>3
<1>4. ASSUME NEW c \in Workers, doit(c)
      PROVE  LogInv'
  <2>1. /\ UNCHANGED <<main, accepted, t, up, late>> /\ up
        /\ \A d \in Workers \ {c} : w'[d] = w[d]
    BY <1>0, <1>4, WorkerFrame
  <2>2. w[c] \in Locals /\ w \in [Workers -> Locals] /\ log \in Seq(Entries)
    BY <1>0 DEF TypeOK
  <2>3. ASSUME UNCHANGED <<log, log_lock, tm>>, w[c].pc \in Quiet, w'[c].pc \in Quiet
        PROVE  LogInv'
    BY <1>2, <2>1, <2>3
  <2>s. OwnEntries /\ \A d \in Workers : LogOf(d)
    BY <1>0 DEF LogInv
  <2>o. ASSUME UNCHANGED log, \A d \in Workers \ {c} : w[d].pc \notin Logging, LogOf(c)'
        PROVE  LogInv'
    <3>1. OwnEntries'
      BY <2>1, <2>o, <2>s DEF OwnEntries
    <3>2. ASSUME NEW d \in Workers \ {c} PROVE LogOf(d)'
      BY <2>1, <2>o, <2>s DEF LogOf, Logging, Logged
    <3> QED BY <2>o, <3>1, <3>2 DEF LogInv
  <2>4. CASE ReadConnfd(c) \/ ReadClientaddr(c) \/ ReadRequest(c) \/ RequestBreaks(c)
    <3>1. UNCHANGED <<log, log_lock, tm>> /\ w[c].pc \in Quiet /\ w'[c].pc \in Quiet
      BY <2>2, <2>4 DEF ReadConnfd, ReadClientaddr, ReadRequest, RequestBreaks, shared, Go,
        Return, NoLocals, Locals, Steps, Logging, Logged
    <3> QED BY <2>3, <3>1
  <2>5. CASE Socket(c)
    <3>1. UNCHANGED <<log, log_lock, tm>> /\ w[c].pc \in Quiet /\ w'[c].pc \in Quiet
      BY <2>2, <2>5 DEF Socket, Locals, Steps, Logging, Logged
    <3> QED BY <2>3, <3>1
  <2>6. CASE LockTs(c) \/ Lookup(c) \/ LookupFails(c) \/ CopyAndUnlock(c)
    <3>1. UNCHANGED <<log, log_lock, tm>> /\ w[c].pc \in Quiet /\ w'[c].pc \in Quiet
      BY <2>2, <2>6 DEF LockTs, Lookup, LookupFails, CopyAndUnlock, shared, Go,
        Locals, Steps, Logging, Logged
    <3> QED BY <2>3, <3>1
  <2>7. CASE Connect(c) \/ ConnectFails(c) \/ Relay(c)
    <3>1. UNCHANGED <<log, log_lock, tm>> /\ w[c].pc \in Quiet /\ w'[c].pc \in Quiet
      BY <2>2, <2>7 DEF Connect, ConnectFails, Relay, shared, Go, Locals, Steps, Logging, Logged
    <3> QED BY <2>3, <3>1
  <2>8. CASE CloseServer(c) \/ CloseClient(c)
    <3>1. /\ UNCHANGED <<log, log_lock, tm>> /\ w[c].pc \in Quiet
          /\ Go(c, "closeClient") \/ Go(c, "lockLog")
      BY <2>8 DEF CloseServer, CloseClient, Close, Steps, Logging, Logged
    <3>2. w'[c].pc \in Quiet
      BY <2>2, <3>1 DEF Go, Locals, Steps, Logging, Logged
    <3> QED BY <2>3, <3>1, <3>2
  <2>9. CASE LockLog(c)
    <3>1. /\ log_lock = 0 /\ log_lock' = c /\ UNCHANGED <<log, tm>>
          /\ w[c].pc = "lockLog" /\ w'[c].pc = "time"
      BY <2>2, <2>9 DEF LockLog, Go, Locals
    <3>2. \A d \in Workers : w[d].pc \notin Logging
      BY <1>0, <3>1 DEF LogInv, LogOf, Workers
    <3>3. LogOf(c)'
      BY <2>1, <2>s, <3>1, <3>2 DEF LogOf, Logging, Logged
    <3> QED BY <2>o, <3>1, <3>2, <3>3
  <2>10. CASE Localtime(c)
    <3>1. /\ tm' = c /\ UNCHANGED <<log, log_lock>> /\ w[c].pc = "time" /\ w'[c].pc = "open"
      BY <2>2, <2>10 DEF Localtime, Go, Locals
    <3>2. \A d \in Workers \ {c} : w[d].pc \notin Logging
      BY <2>s, <3>1 DEF LogOf, Logging
    <3>3. LogOf(c)'
      BY <2>1, <2>s, <3>1, <3>2 DEF LogOf, Logging, Logged
    <3> QED BY <2>o, <3>1, <3>2, <3>3
  <2>11. CASE OpenLog(c)
    <3>1. /\ UNCHANGED <<log, log_lock, tm>> /\ w[c].pc = "open"
          /\ w' = [w EXCEPT ![c].pc = "write", ![c].logfd = NextFd, ![c].logstring = tm]
      BY <2>11 DEF OpenLog
    <3>2. \A d \in Workers \ {c} : w[d].pc \notin Logging
      BY <2>s, <3>1 DEF LogOf, Logging
    <3>4. w'[c].pc = "write" /\ w'[c].logstring = tm
      BY <2>2, <3>1 DEF Locals
    <3>3. LogOf(c)'
      BY <2>1, <2>s, <3>1, <3>4 DEF LogOf, Logging, Logged
    <3> QED BY <2>o, <3>1, <3>2, <3>3
  <2>12. CASE WriteLog(c)
    <3> DEFINE e == [time |-> w[c].logstring, client |-> w[c].clientaddr, by |-> c]
    <3>1. /\ log' = Append(log, e) /\ UNCHANGED <<log_lock, tm>>
          /\ w[c].pc = "write" /\ w'[c].pc = "unlockLog"
      BY <2>2, <2>12 DEF WriteLog, Go, Locals
    <3>2. e.time = c /\ e.by = c /\ (late = {} => e.client = c)
      BY <1>0, <2>s, <3>1 DEF LogOf, Own, OwnOf, WithClientaddr, Logging
    <3>3. e \in Entries
      BY <2>2 DEF Locals, Entries
    <3>4. /\ Len(log') = Len(log) + 1 /\ Len(log) \in Nat
          /\ log'[Len(log) + 1] = e /\ \A i \in 1 .. Len(log) : log'[i] = log[i]
      BY <2>2, <3>1, <3>3
    <3> HIDE DEF e
    <3>5. \A d \in Workers \ {c} : w[d].pc \notin Logging
      BY <2>s, <3>1 DEF LogOf, Logging
    <3>6. \A i \in 1 .. Len(log) : log[i].by # c
      BY <2>1, <2>s, <3>1 DEF LogOf, Logged
    <3>7. ASSUME NEW d \in Workers \ {c}
          PROVE  /\ w'[d].pc \notin Logging
                 /\ w'[d].pc \notin Logged => \A i \in 1 .. Len(log') : log'[i].by # d
                 /\ w'[d].pc \in Logged =>
                      \E i \in 1 .. Len(log') : \A j \in 1 .. Len(log') : log'[j].by = d <=> j = i
      <4>1. w'[d] = w[d] /\ w[d].pc \notin Logging
        BY <2>1, <3>5
      <4>2. CASE w[d].pc \notin Logged
        <5>1. \A i \in 1 .. Len(log) : log[i].by # d
          BY <2>1, <2>s, <4>2 DEF LogOf
        <5> QED BY <3>2, <3>4, <4>1, <4>2, <5>1
      <4>3. CASE w[d].pc \in Logged
        <5>1. PICK i \in 1 .. Len(log) : \A j \in 1 .. Len(log) : log[j].by = d <=> j = i
          BY <2>s, <4>3 DEF LogOf
        <5>2. \A j \in 1 .. Len(log') : log'[j].by = d <=> j = i
          BY <3>2, <3>4, <5>1
        <5>3. i \in 1 .. Len(log')
          BY <3>4
        <5> QED BY <4>1, <4>3, <5>2, <5>3
      <4> QED BY <4>2, <4>3
    <3>8. \E i \in 1 .. Len(log') : \A j \in 1 .. Len(log') : log'[j].by = c <=> j = i
      <4>1. \A j \in 1 .. Len(log') : log'[j].by = c <=> j = Len(log) + 1
        BY <3>2, <3>4, <3>6
      <4> QED BY <3>4, <4>1
    <3>9. \A i \in 1 .. Len(log') :
            log'[i].time = log'[i].by /\ (late' = {} => log'[i].client = log'[i].by)
      <4>1. \A i \in 1 .. Len(log) :
              log[i].time = log[i].by /\ (late = {} => log[i].client = log[i].by)
        BY <2>s DEF OwnEntries
      <4> QED BY <2>1, <3>2, <3>4, <4>1
    <3>10. w[c].pc \in Logging => log_lock = c
      BY <2>s DEF LogOf
    <3>11. LogOf(c)'
      BY <2>1, <3>1, <3>8, <3>10 DEF LogOf, Logging, Logged
    <3>12. ASSUME NEW d \in Workers \ {c} PROVE LogOf(d)'
      BY <3>7 DEF LogOf, Logging
    <3> QED BY <3>9, <3>11, <3>12 DEF LogInv, OwnEntries
  <2>13. CASE UnlockLog(c)
    <3>1. /\ UNCHANGED <<log, tm>> /\ log_lock' = 0
          /\ w[c].pc = "unlockLog" /\ w'[c].pc = "done"
      BY <2>2, <2>13 DEF UnlockLog, Return, NoLocals
    <3>2. \A d \in Workers \ {c} : w[d].pc \notin Logging
      BY <2>s, <3>1 DEF LogOf, Logging
    <3>3. LogOf(c)'
      BY <2>1, <2>s, <3>1, <3>2 DEF LogOf, Logging, Logged
    <3> QED BY <2>o, <3>1, <3>2, <3>3
  <2>14. CASE OpenLogFails(c)
    BY <2>14 DEF OpenLogFails
  <2> QED BY <1>4, <2>4, <2>5, <2>6, <2>7, <2>8, <2>9, <2>10, <2>11, <2>12, <2>13, <2>14 DEF doit
<1>5. CASE UNCHANGED vars
  <2>1. UNCHANGED <<log, log_lock, tm, up, late, w>>
    BY <1>5 DEF vars, shared
  <2> QED BY <1>2, <2>1
<1> QED BY <1>3, <1>4, <1>5 DEF Next

----------------------------------------------------------------------------
(* Descriptors.                                                            *)

\* What a thread's step does to a descriptor is its own affair: it opens a
\* free one for itself or closes one that it holds.
OthersKeep(c) ==
  \A d \in Workers \ {c} : \A f \in Fds :
    /\ fds[f] \in {Client(d), Server(d)} => fds'[f] = fds[f]
    /\ fds'[f] \in {Client(d), Server(d)} => fds'[f] = fds[f]
    /\ fds[f] = LogFile /\ w[d].pc = "write" => fds'[f] = fds[f]

LEMMA WorkerDescriptors ==
  ASSUME IInv, late = {}, NEW c \in Workers, doit(c), ~ Exit
  PROVE  OthersKeep(c) /\ OwnOf(c)' /\ \A f \in Fds : HeldBy(f, c)'
<1> USE DescriptionsDiffer DEF shared
<1>0. TypeOK /\ Threads /\ LogInv /\ OwnOf(c) /\ \A f \in Fds : HeldBy(f, c)
  BY DEF IInv, Own, Held
<1>1. UNCHANGED <<main, accepted, t, up, late>> /\ w[c].pc # "none" /\ w'[c].pc # "none"
  BY <1>0, WorkerFrame
<1>2. ~ (main.pc # "accept" /\ c = accepted)
  BY <1>0, <1>1 DEF Threads
<1>3. w[c] \in Locals /\ w \in [Workers -> Locals] /\ fds \in [Fds -> Descriptions \cup {Closed}]
  BY <1>0 DEF TypeOK
<1>4. 0 \notin Fds /\ -1 \notin Fds /\ -2 \notin Fds
  BY ProxyAssumption DEF Fds
<1>5. ASSUME UNCHANGED fds PROVE OthersKeep(c)
  BY <1>5 DEF OthersKeep
<1>6. ASSUME NEW f \in Fds, fds[f] = Closed, NEW what \in {Server(c), LogFile},
             fds' = [fds EXCEPT ![f] = what]
      PROVE  OthersKeep(c)
  BY <1>3, <1>6 DEF OthersKeep
<1>7. ASSUME NEW f \in Fds, fds[f] \in {Client(c), Server(c)},
             fds' = [fds EXCEPT ![f] = Closed]
      PROVE  OthersKeep(c)
  BY <1>3, <1>7 DEF OthersKeep
<1> USE DEF OwnOf, HeldBy, WithConnfd, WithClientaddr, WithServer, Serving, Logging
<1>8. CASE ReadConnfd(c)
  <2>1. /\ UNCHANGED fds /\ w[c].pc = "created"
        /\ w'[c] = [w[c] EXCEPT !.pc = "addr", !.connfd = t[Slot(c)].connfd]
    BY <1>3, <1>8 DEF ReadConnfd
  <2>2. /\ w'[c].pc = "addr" /\ w'[c].connfd = t[Slot(c)].connfd
        /\ w'[c].clientfd = w[c].clientfd
    BY <1>3, <2>1 DEF Locals
  <2>3. OwnOf(c)'
    BY <1>0, <1>1, <2>1, <2>2
  <2>4. ASSUME NEW f \in Fds PROVE HeldBy(f, c)'
    BY <1>0, <1>1, <1>2, <2>1, <2>2
  <2> QED BY <1>5, <2>1, <2>3, <2>4
<1>9. CASE ReadClientaddr(c)
  <2>1. /\ UNCHANGED fds /\ w[c].pc = "addr"
        /\ w'[c] = [w[c] EXCEPT !.pc = "request", !.clientaddr = t[Slot(c)].clientaddr]
    BY <1>3, <1>9 DEF ReadClientaddr
  <2>2. /\ w'[c].pc = "request" /\ w'[c].clientaddr = t[Slot(c)].clientaddr
        /\ w'[c].clientfd = w[c].clientfd /\ w'[c].connfd = w[c].connfd
    BY <1>3, <2>1 DEF Locals
  <2>3. OwnOf(c)'
    BY <1>0, <1>1, <2>1, <2>2
  <2>4. ASSUME NEW f \in Fds PROVE HeldBy(f, c)'
    BY <1>0, <1>1, <1>2, <2>1, <2>2
  <2> QED BY <1>5, <2>1, <2>3, <2>4
<1> DEFINE Kept == /\ w'[c].connfd = w[c].connfd /\ w'[c].clientaddr = w[c].clientaddr
                   /\ w'[c].clientfd = w[c].clientfd \/ w'[c].clientfd \notin Fds
           Moves == {<<"request", "socket">>, <<"lock", "lookup">>, <<"lookup", "copy">>,
                     <<"lookup", "relay">>, <<"copy", "connect">>, <<"connect", "relay">>,
                     <<"relay", "closeServer">>, <<"lockLog", "time">>, <<"time", "open">>}
\* Steps that open and close nothing; some give up clientfd.
<1>10. ASSUME UNCHANGED fds, <<w[c].pc, w'[c].pc>> \in Moves, Kept,
              w'[c].pc = "socket" => w'[c].clientfd = w[c].clientfd
       PROVE  OthersKeep(c) /\ OwnOf(c)' /\ \A f \in Fds : HeldBy(f, c)'
  <2>1. OwnOf(c)'
    BY <1>0, <1>1, <1>4, <1>10
  <2>2. ASSUME NEW f \in Fds PROVE HeldBy(f, c)'
    BY <1>0, <1>1, <1>2, <1>10
  <2> QED BY <1>5, <1>10, <2>1, <2>2
<1>11. ASSUME NEW s, w' = [w EXCEPT ![c].pc = s]
       PROVE  /\ w'[c].pc = s /\ Kept /\ w'[c].clientfd = w[c].clientfd
              /\ w'[c].logfd = w[c].logfd
  BY <1>3, <1>11 DEF Locals
<1>12. CASE ReadRequest(c)
  <2>1. CASE Go(c, "socket")
    BY <1>10, <1>11, <1>12, <2>1 DEF ReadRequest, Go
  <2>2. CASE Return(c, "refused")
    <3>1. UNCHANGED fds /\ w[c].pc = "request" /\ w'[c].pc = "refused"
      BY <1>3, <1>12, <2>2 DEF ReadRequest, Return, NoLocals
    <3>2. OwnOf(c)'
      BY <3>1
    <3>3. ASSUME NEW f \in Fds PROVE HeldBy(f, c)'
      BY <1>0, <3>1
    <3> QED BY <1>5, <3>1, <3>2, <3>3
  <2> QED BY <1>12, <2>1, <2>2 DEF ReadRequest
<1>13. CASE RequestBreaks(c) \/ OpenLogFails(c)
  BY <1>13 DEF RequestBreaks, OpenLogFails
<1>14. CASE Socket(c)
  <2>1. CASE FreeFds = {}
    <3>1. UNCHANGED fds /\ w[c].pc = "socket" /\ w' = [w EXCEPT ![c].pc = "relay", ![c].clientfd = -1]
      BY <1>14, <2>1 DEF Socket
    <3>2. w'[c].pc = "relay" /\ w'[c].clientfd = -1 /\ Kept
      BY <1>3, <1>4, <3>1 DEF Locals
    <3>3. OwnOf(c)'
      BY <1>0, <1>1, <1>4, <3>1, <3>2
    <3>4. ASSUME NEW f \in Fds PROVE HeldBy(f, c)'
      BY <1>0, <1>1, <1>2, <3>1, <3>2
    <3> QED BY <1>5, <3>1, <3>3, <3>4
  <2>2. CASE FreeFds # {}
    <3>1. NextFd \in Fds /\ fds[NextFd] = Closed
      BY <2>2, NextFdIsFree
    <3>2. /\ fds' = [fds EXCEPT ![NextFd] = Server(c)] /\ w[c].pc = "socket"
          /\ w' = [w EXCEPT ![c].pc = "lock", ![c].clientfd = NextFd]
      BY <1>14, <2>2 DEF Socket, OpenFd
    <3>3. /\ w'[c].pc = "lock" /\ w'[c].clientfd = NextFd /\ w'[c].connfd = w[c].connfd
          /\ w'[c].clientaddr = w[c].clientaddr
      BY <1>3, <3>2 DEF Locals
    <3>4. /\ fds'[NextFd] = Server(c) /\ \A f \in Fds \ {NextFd} : fds'[f] = fds[f]
      BY <1>3, <3>1, <3>2
    <3> HIDE DEF NextFd
    <3>5. OwnOf(c)'
      BY <1>0, <1>1, <3>1, <3>2, <3>3, <3>4
    <3>6. ASSUME NEW f \in Fds PROVE HeldBy(f, c)'
      BY <1>0, <1>1, <1>2, <3>1, <3>2, <3>3, <3>4
    <3> QED BY <1>6, <3>1, <3>2, <3>5, <3>6
  <2> QED BY <2>1, <2>2
<1>15. CASE LockTs(c) \/ Lookup(c) \/ CopyAndUnlock(c) \/ Relay(c) \/ LockLog(c) \/ Localtime(c)
  <2>1. /\ UNCHANGED fds
        /\ \E s \in Steps : Go(c, s) /\ <<w[c].pc, s>> \in Moves /\ s # "socket"
    BY <1>15 DEF LockTs, Lookup, CopyAndUnlock, Relay, LockLog, Localtime, Steps
  <2>2. PICK s \in Steps : Go(c, s) /\ <<w[c].pc, s>> \in Moves /\ s # "socket"
    BY <2>1
  <2>3. Kept /\ w'[c].pc = s
    BY <1>11, <2>2 DEF Go
  <2> QED BY <1>10, <2>1, <2>2, <2>3
<1>16. CASE LookupFails(c) \/ Connect(c) \/ ConnectFails(c)
  <2>1. /\ UNCHANGED fds /\ w[c].pc \in {"lookup", "connect"}
        /\ \/ w' = [w EXCEPT ![c].pc = "relay", ![c].clientfd = -2]
           \/ w' = [w EXCEPT ![c].pc = "relay", ![c].clientfd = -1]
           \/ w' = [w EXCEPT ![c].pc = "relay", ![c].server = hostent]
    BY <1>16 DEF LookupFails, Connect, ConnectFails
  <2>2. w'[c].pc = "relay" /\ Kept
    BY <1>3, <1>4, <2>1 DEF Locals
  <2> QED BY <1>10, <2>1, <2>2
<1>17. CASE CloseServer(c)
  <2>1. /\ w[c].pc = "closeServer" /\ w[c].clientfd \in Fds
        /\ fds' = [fds EXCEPT ![w[c].clientfd] = Closed] /\ Go(c, "closeClient")
    BY <1>17 DEF CloseServer, Close
  <2>2. w'[c].pc = "closeClient" /\ Kept
    BY <1>11, <2>1 DEF Go
  <2>3. fds[w[c].clientfd] = Server(c) /\ fds[w[c].connfd] = Client(c) /\ w[c].connfd \in Fds
    BY <1>0, <2>1
  <2>4. fds'[w[c].clientfd] = Closed /\ \A f \in Fds \ {w[c].clientfd} : fds'[f] = fds[f]
    BY <1>3, <2>1
  <2>5. OwnOf(c)'
    BY <1>0, <1>1, <2>1, <2>2, <2>3, <2>4
  <2>6. ASSUME NEW f \in Fds PROVE HeldBy(f, c)'
    BY <1>0, <1>1, <1>2, <2>1, <2>2, <2>3, <2>4
  <2> QED BY <1>7, <2>1, <2>3, <2>5, <2>6
<1>18. CASE CloseClient(c)
  <2>1. /\ w[c].pc = "closeClient" /\ w[c].connfd \in Fds /\ fds[w[c].connfd] = Client(c)
        /\ fds' = [fds EXCEPT ![w[c].connfd] = Closed] /\ Go(c, "lockLog")
    BY <1>0, <1>18 DEF CloseClient, Close
  <2>2. w'[c].pc = "lockLog" /\ Kept
    BY <1>11, <2>1 DEF Go
  <2>3. fds'[w[c].connfd] = Closed /\ \A f \in Fds \ {w[c].connfd} : fds'[f] = fds[f]
    BY <1>3, <2>1
  <2>4. OwnOf(c)'
    BY <1>0, <1>1, <2>1, <2>2, <2>3
  <2>5. ASSUME NEW f \in Fds PROVE HeldBy(f, c)'
    BY <1>0, <1>1, <1>2, <2>1, <2>2, <2>3
  <2> QED BY <1>7, <2>1, <2>4, <2>5
<1>19. CASE OpenLog(c)
  <2>1. FreeFds # {}
    BY <1>19 DEF OpenLog
  <2>2. NextFd \in Fds /\ fds[NextFd] = Closed
    BY <2>1, NextFdIsFree
  <2>3. /\ fds' = [fds EXCEPT ![NextFd] = LogFile] /\ w[c].pc = "open"
        /\ w' = [w EXCEPT ![c].pc = "write", ![c].logfd = NextFd, ![c].logstring = tm]
    BY <1>19, <2>1 DEF OpenLog, OpenFd
  <2>4. w'[c].pc = "write" /\ w'[c].logfd = NextFd /\ w'[c].clientaddr = w[c].clientaddr
    BY <1>3, <2>3 DEF Locals
  <2>5. fds'[NextFd] = LogFile /\ \A f \in Fds \ {NextFd} : fds'[f] = fds[f]
    BY <1>3, <2>2, <2>3
  <2>6. OwnOf(c)'
    BY <1>0, <1>1, <2>2, <2>3, <2>4, <2>5
  <2>7. ASSUME NEW f \in Fds PROVE HeldBy(f, c)'
    BY <1>0, <1>1, <1>2, <2>2, <2>3, <2>4, <2>5
  <2> QED BY <1>6, <2>2, <2>3, <2>6, <2>7
<1>20. CASE WriteLog(c)
  <2>1. /\ w[c].pc = "write" /\ w[c].logfd \in Fds /\ fds[w[c].logfd] = LogFile
        /\ fds' = [fds EXCEPT ![w[c].logfd] = Closed] /\ Go(c, "unlockLog")
    BY <1>0, <1>20 DEF WriteLog
  <2>2. w'[c].pc = "unlockLog" /\ Kept
    BY <1>11, <2>1 DEF Go
  <2>3. fds'[w[c].logfd] = Closed /\ \A f \in Fds \ {w[c].logfd} : fds'[f] = fds[f]
    BY <1>3, <2>1
  <2>4. \A d \in Workers \ {c} : w[d].pc # "write"
    BY <1>0, <2>1 DEF LogInv, LogOf, Logging
  <2>5. OthersKeep(c)
    BY <2>1, <2>3, <2>4 DEF OthersKeep
  <2>6. OwnOf(c)'
    BY <1>0, <1>1, <2>1, <2>2, <2>3
  <2>7. ASSUME NEW f \in Fds PROVE HeldBy(f, c)'
    BY <1>0, <1>1, <1>2, <2>1, <2>2, <2>3
  <2> QED BY <2>5, <2>6, <2>7
<1>21. CASE UnlockLog(c)
  <2>1. UNCHANGED fds /\ w[c].pc = "unlockLog" /\ w'[c].pc = "done"
    BY <1>3, <1>21 DEF UnlockLog, Return, NoLocals
  <2>2. OwnOf(c)'
    BY <2>1
  <2>3. ASSUME NEW f \in Fds PROVE HeldBy(f, c)'
    BY <1>0, <1>2, <2>1
  <2> QED BY <1>5, <2>1, <2>2, <2>3
<1> QED BY <1>8, <1>9, <1>12, <1>13, <1>14, <1>15, <1>16, <1>17, <1>18, <1>19, <1>20, <1>21 DEF doit

LEMMA WorkerOwnership ==
  ASSUME IInv, NEW c \in Workers, doit(c), ~ Exit
  PROVE  (Ring /\ Own /\ Held)'
<1>0. TypeOK /\ Threads /\ Ring /\ Own /\ Held
  BY DEF IInv
<1>1. /\ UNCHANGED <<main, accepted, t, up, late>> /\ up
      /\ w[c].pc # "none" /\ (w'[c].pc = "addr" => w[c].pc = "created") /\ w'[c].pc # "created"
      /\ \A d \in Workers \ {c} : w'[d] = w[d]
  BY <1>0, WorkerFrame
<1> SUFFICES ASSUME late = {} PROVE (Ring /\ Own /\ Held)'
  BY <1>1 DEF Ring, Own, Held
<1>2. OthersKeep(c) /\ OwnOf(c)' /\ \A f \in Fds : HeldBy(f, c)'
  BY WorkerDescriptors
<1>3. Ring'
  <2>1. ASSUME main.pc # "accept"
        PROVE  accepted \in Workers \ {c} /\ main.connfd \in Fds /\ fds[main.connfd] = Client(accepted)
    BY <1>0, <1>1, <2>1 DEF Threads, Ring
  <2>2. main.pc # "accept" => fds'[main.connfd] = Client(accepted)
    BY <1>2, <2>1 DEF OthersKeep
  <2>3. \A d \in Workers : w'[d].pc \in {"created", "addr"} => w[d].pc \in {"created", "addr"}
    BY <1>1
  <2> QED BY <1>0, <1>1, <2>2, <2>3 DEF Ring
<1>4. ASSUME NEW d \in Workers \ {c} PROVE OwnOf(d)' /\ \A f \in Fds : HeldBy(f, d)'
  <2>1. w'[d] = w[d] /\ OwnOf(d) /\ \A f \in Fds : HeldBy(f, d)
    BY <1>0, <1>1 DEF Own, Held
  <2>2. \A f \in Fds :
          /\ fds[f] \in {Client(d), Server(d)} => fds'[f] = fds[f]
          /\ fds'[f] \in {Client(d), Server(d)} => fds'[f] = fds[f]
          /\ fds[f] = LogFile /\ w[d].pc = "write" => fds'[f] = fds[f]
    BY <1>2 DEF OthersKeep
  <2>3. OwnOf(d)'
    BY <1>1, <2>1, <2>2 DEF OwnOf
  <2>4. ASSUME NEW f \in Fds PROVE HeldBy(f, d)'
    BY <1>1, <2>1, <2>2 DEF HeldBy
  <2> QED BY <2>3, <2>4
<1> QED BY <1>1, <1>2, <1>3, <1>4 DEF Own, Held

LEMMA MainOwnership == IInv /\ Main /\ ~ Exit => (Ring /\ Own /\ Held)'
<1> SUFFICES ASSUME IInv, Main, ~ Exit PROVE (Ring /\ Own /\ Held)'
  OBVIOUS
<1>0. TypeOK /\ Threads /\ Ring /\ Own /\ Held /\ up
  BY DEF IInv, Main
<1>1. late \subseteq late'
  BY DEF Main, Accept, PassConnfd, PassClientaddr, CreateThread, CreateFails
<1> SUFFICES ASSUME late' = {} PROVE (Ring /\ Own /\ Held)'
  BY DEF Ring, Own, Held
<1>2. /\ late = {} /\ \A d \in Workers : OwnOf(d)
      /\ \A f \in Fds : \A d \in Workers : HeldBy(f, d)
  BY <1>0, <1>1 DEF Own, Held
<1>3. CASE Accept
  <2>1. /\ main.pc = "accept" /\ NextFd \in Fds /\ fds[NextFd] = Closed
        /\ fds' = [fds EXCEPT ![NextFd] = Client(accepted + 1)]
        /\ main' = [pc |-> "connfd", connfd |-> NextFd]
        /\ accepted' = accepted + 1 /\ UNCHANGED <<t, w, up, late>>
    BY <1>3, NextFdIsFree DEF Accept, OpenFd
  <2>2. /\ accepted \in Nat /\ accepted + 1 \in Workers /\ w[accepted + 1].pc = "none"
        /\ \A d \in Workers : d > accepted => w[d].pc = "none"
    BY <1>0, <1>3, ProxyAssumption DEF Accept, Workers, TypeOK, Threads
  <2>3. /\ fds'[NextFd] = Client(accepted + 1)
        /\ \A f \in Fds \ {NextFd} : fds'[f] = fds[f]
    BY <1>0, <2>1 DEF TypeOK
  <2>4. /\ main'.pc = "connfd" /\ main'.connfd = NextFd
    BY <2>1
  <2> HIDE DEF NextFd
  <2>5. Ring'
    BY <2>1, <2>3, <2>4 DEF Ring
  <2>6. ASSUME NEW d \in Workers PROVE OwnOf(d)'
    BY <1>2, <2>1, <2>3, DescriptionsDiffer DEF OwnOf
  <2>7. ASSUME NEW d \in Workers, NEW f \in Fds PROVE HeldBy(f, d)'
    BY <1>2, <2>1, <2>2, <2>3, <2>4, DescriptionsDiffer DEF HeldBy
  <2> QED BY <2>5, <2>6, <2>7 DEF Own, Held
\* The record that main refills belongs to a thread that has read it.
<1>4. ASSUME main.pc \in {"connfd", "clientaddr"},
             \A c \in Workers : w[c].pc \in {"created", "addr"} => accepted - c < MAXTHREADS
      PROVE  /\ accepted \in Workers /\ Slot(accepted) \in 0 .. MAXTHREADS - 1
             /\ \A c \in Workers : w[c].pc \in {"created", "addr"} =>
                  Slot(c) # Slot(accepted) /\ Slot(c) \in 0 .. MAXTHREADS - 1
  <2>1. accepted \in Workers /\ w[accepted].pc = "none" /\ \A c \in Workers : c > accepted => w[c].pc = "none"
    BY <1>0, <1>4 DEF Threads
  <2>2. Workers \subseteq Nat \ {0}
    BY DEF Workers
  <2>3. ASSUME NEW c \in Workers, w[c].pc \in {"created", "addr"}
        PROVE  Slot(c) # Slot(accepted)
    <3>1. c < accepted
      BY <2>1, <2>2, <2>3
    <3> QED BY <1>4, <2>1, <2>2, <2>3, <3>1, SlotsDiffer
  <2> QED BY <2>1, <2>2, <2>3, SlotType
<1>5. CASE PassConnfd
  <2>1. /\ main.pc = "connfd" /\ t' = [t EXCEPT ![Slot(accepted)].connfd = main.connfd]
        /\ main' = [main EXCEPT !.pc = "clientaddr"]
        /\ UNCHANGED <<accepted, w, fds, up>>
        /\ \A c \in Workers : ~ (w[c].pc \in {"created", "addr"} /\ accepted - c >= MAXTHREADS)
    BY <1>5 DEF PassConnfd, shared
  <2>2. \A c \in Workers : w[c].pc \in {"created", "addr"} => accepted - c < MAXTHREADS
    BY <1>0, <2>1, ProxyAssumption DEF TypeOK, Workers
  <2>3. /\ main'.pc = "clientaddr" /\ main'.connfd = main.connfd /\ main.connfd \in Fds
        /\ fds[main.connfd] = Client(accepted)
    BY <1>0, <1>2, <2>1 DEF TypeOK, Threads, Ring
  <2>4. /\ t'[Slot(accepted)].connfd = main.connfd
        /\ \A c \in Workers : w[c].pc \in {"created", "addr"} => t'[Slot(c)] = t[Slot(c)]
    BY <1>0, <1>4, <2>1, <2>2 DEF TypeOK
  <2>5. Ring'
    BY <2>1, <2>2, <2>3, <2>4 DEF Ring
  <2>6. ASSUME NEW d \in Workers PROVE OwnOf(d)'
    BY <1>2, <2>1, <2>4 DEF OwnOf
  <2>7. ASSUME NEW d \in Workers, NEW f \in Fds PROVE HeldBy(f, d)'
    BY <1>2, <2>1, <2>3, <2>4 DEF HeldBy
  <2> QED BY <2>5, <2>6, <2>7 DEF Own, Held
<1>6. CASE PassClientaddr
  <2>1. /\ main.pc = "clientaddr" /\ t' = [t EXCEPT ![Slot(accepted)].clientaddr = accepted]
        /\ main' = [main EXCEPT !.pc = "create"]
        /\ UNCHANGED <<accepted, w, fds, up>>
    BY <1>6 DEF PassClientaddr, shared
  <2>2. /\ \A c \in Workers : w[c].pc \in {"created", "addr"} => accepted - c < MAXTHREADS
        /\ t[Slot(accepted)].connfd = main.connfd /\ fds[main.connfd] = Client(accepted)
    BY <1>0, <1>2, <2>1 DEF Ring
  <2>3. main'.pc = "create" /\ main'.connfd = main.connfd /\ main.connfd \in Fds
    BY <1>0, <2>1 DEF TypeOK, Threads
  <2>4. /\ t'[Slot(accepted)].connfd = main.connfd /\ t'[Slot(accepted)].clientaddr = accepted
        /\ \A c \in Workers : w[c].pc \in {"created", "addr"} => t'[Slot(c)] = t[Slot(c)]
    BY <1>0, <1>4, <2>1, <2>2 DEF TypeOK
  <2>5. Ring'
    BY <2>1, <2>2, <2>3, <2>4 DEF Ring
  <2>6. ASSUME NEW d \in Workers PROVE OwnOf(d)'
    BY <1>2, <2>1, <2>4 DEF OwnOf
  <2>7. ASSUME NEW d \in Workers, NEW f \in Fds PROVE HeldBy(f, d)'
    BY <1>2, <2>1, <2>3, <2>4 DEF HeldBy
  <2> QED BY <2>5, <2>6, <2>7 DEF Own, Held
<1>7. CASE CreateThread
  <2>1. /\ main.pc = "create" /\ w' = [w EXCEPT ![accepted].pc = "created"]
        /\ main' = [pc |-> "accept", connfd |-> 0] /\ UNCHANGED <<accepted, t, fds, up>>
    BY <1>7 DEF CreateThread, shared
  <2>2. /\ accepted \in Workers /\ w[accepted] = NoLocals("none") /\ main.connfd \in Fds
        /\ fds[main.connfd] = Client(accepted)
        /\ t[Slot(accepted)].connfd = main.connfd /\ t[Slot(accepted)].clientaddr = accepted
    BY <1>0, <1>2, <2>1 DEF Threads, Ring
  <2>3. /\ w'[accepted].pc = "created" /\ w'[accepted].clientfd = 0
        /\ \A d \in Workers \ {accepted} : w'[d] = w[d]
    BY <1>0, <2>1, <2>2 DEF TypeOK, NoLocals
  <2>4. main'.pc = "accept"
    BY <2>1
  <2>5. Ring'
    BY <2>4 DEF Ring
  <2>6. ASSUME NEW d \in Workers PROVE OwnOf(d)'
    <3>1. CASE d = accepted
      BY <2>1, <2>2, <2>3, <3>1
      DEF OwnOf, WithConnfd, WithClientaddr, WithServer, Serving, Logging
    <3>2. CASE d # accepted
      BY <1>2, <2>1, <2>3, <3>2 DEF OwnOf
    <3> QED BY <3>1, <3>2
  <2>7. ASSUME NEW d \in Workers, NEW f \in Fds PROVE HeldBy(f, d)'
    <3>1. CASE d = accepted
      BY <1>2, <2>1, <2>2, <2>3, <2>4, <3>1
      DEF HeldBy, NoLocals, WithConnfd, WithServer, Serving
    <3>2. CASE d # accepted
      BY <1>2, <2>1, <2>3, <2>4, <3>2 DEF HeldBy
    <3> QED BY <3>1, <3>2
  <2> QED BY <2>5, <2>6, <2>7 DEF Own, Held
<1> QED BY <1>3, <1>5, <1>6, <1>7 DEF Main, CreateFails

----------------------------------------------------------------------------
(* The theorems.                                                           *)

LEMMA InitInv == Init => IInv
<1> SUFFICES ASSUME Init PROVE IInv
  OBVIOUS
<1>1. TypeOK
  BY InitTypes
<1>2. /\ \A c \in Workers : w[c] = NoLocals("none") /\ w[c].pc = "none"
      /\ \A f \in Fds : fds[f] = Closed
      /\ main.pc = "accept" /\ log = <<>> /\ up
  BY DEF Init, NoLocals
<1>3. Threads
  BY <1>2 DEF Threads
<1>4. LogInv
  BY <1>2 DEF LogInv, LogOf, OwnEntries, Logging, Logged
<1>5. Ring
  BY <1>2 DEF Ring
<1>6. Own
  BY <1>2 DEF Own, OwnOf, WithConnfd, WithClientaddr, WithServer, Serving, Logging
<1>7. Held
  BY <1>2, DescriptionsDiffer DEF Held, HeldBy
<1> QED BY <1>1, <1>3, <1>4, <1>5, <1>6, <1>7 DEF IInv

LEMMA StepInv == IInv /\ [Next]_vars => IInv'
<1> SUFFICES ASSUME IInv, [Next]_vars PROVE IInv'
  OBVIOUS
<1>0. TypeOK /\ Threads /\ LogInv /\ Ring /\ Own /\ Held
  BY DEF IInv
<1>1. LogInv' /\ Threads'
  BY <1>0, LogStep, ThreadsStep
<1>2. CASE Exit
  BY <1>0, <1>1, <1>2, ExitStep, ExitTypes DEF IInv
<1>3. CASE Main /\ ~ Exit
  BY <1>0, <1>1, <1>3, MainTypes, MainOwnership DEF IInv
<1>4. ASSUME NEW c \in Workers, doit(c), ~ Exit PROVE IInv'
  BY <1>0, <1>1, <1>4, WorkerTypes, WorkerOwnership DEF IInv
<1>5. CASE UNCHANGED vars
  BY <1>0, <1>5 DEF IInv, vars, shared, TypeOK, Threads, LogInv, LogOf, OwnEntries, Ring, Own,
    OwnOf, Held, HeldBy
<1> QED BY <1>2, <1>3, <1>4, <1>5 DEF Next

\* Every variable keeps its type, and the inductive invariant holds:
\* whatever the threads do, each part of it tells who uses what.
THEOREM Invariance == Spec => []IInv
<1>1. Init => IInv
  BY InitInv
<1>2. IInv /\ [Next]_vars => IInv'
  BY StepInv
<1> QED BY <1>1, <1>2, PTL DEF Spec

\* Every variable keeps its type.
THEOREM TypesHold == Spec => []TypeOK
<1>1. IInv => TypeOK
  BY DEF IInv
<1> QED BY <1>1, Invariance, PTL

\* While no thread is a round of the ring late, each works on its own
\* connection with its client's address, and its descriptors stay its own
\* (main, lines 89-101, and doit).
THEOREM DescriptorsAreOwn == Spec => []OwnDescriptors
<1>1. IInv => OwnDescriptors
  BY DEF IInv, Own, OwnOf, OwnDescriptors, WithConnfd, WithClientaddr, WithServer, Serving, Fds
<1> QED BY <1>1, Invariance, PTL

\* Then a connection that is open when its thread has returned is one whose
\* request was refused (line 150), and no socket of a server is left open.
THEOREM OnlyRefusalsLeak == Spec => []LeaksAreRefusals
<1>1. IInv => LeaksAreRefusals
  BY DEF IInv, Threads, Held, HeldBy, LeaksAreRefusals, Returned, WithConnfd, WithServer, Serving
<1> QED BY <1>1, Invariance, PTL

\* Each request that is served has one entry in the log, with the time its
\* own thread took, although localtime's struct is shared (lines 204-211).
THEOREM LogHasAll == Spec => []LogIsComplete
<1>1. IInv => LogIsComplete
  <2> SUFFICES ASSUME IInv PROVE LogIsComplete
    OBVIOUS
  <2>1. OwnEntries /\ \A c \in Workers : LogOf(c)
    BY DEF IInv, LogInv
  <2>2. ASSUME NEW c \in Workers, w[c].pc \in {"unlockLog", "done"}
        PROVE  Cardinality({i \in 1 .. Len(log) : log[i].by = c}) = 1
    <3>1. PICK i \in 1 .. Len(log) : \A j \in 1 .. Len(log) : log[j].by = c <=> j = i
      BY <2>1, <2>2 DEF LogOf, Logged
    <3>2. {j \in 1 .. Len(log) : log[j].by = c} = {i}
      BY <3>1
    <3> QED BY <3>2, FS_Singleton
  <2> QED BY <2>1, <2>2 DEF OwnEntries, LogIsComplete
<1> QED BY <1>1, Invariance, PTL
=============================================================================
