-------------------------- MODULE KernellabProofs ---------------------------
(***************************************************************************)
(* Proofs about the kernel module (Kernellab), for every set of callers,   *)
(* pids and task structs: its type invariant, that the memory it allocates *)
(* is accounted for, and that its answers are right.                       *)
(***************************************************************************)
EXTENDS Kernellab, FiniteSetTheorems, SequenceTheorems, TLAPS

----------------------------------------------------------------------------
(* The task list.                                                          *)

\* The list of the first tasks: one for each caller.
LEMMA FirstList ==
  /\ SetToSeq(Callers) \in Seq(Structs) /\ IsInjective(SetToSeq(Callers))
<1> DEFINE n == Cardinality(Callers)
<1>1. n \in Nat /\ ExistsBijection(1 .. n, Callers)
  BY FS_CardinalityType, KernellabAssumption
<1>2. PICK f \in Bijection(1 .. n, Callers) : TRUE
  BY <1>1 DEF ExistsBijection
<1>3. f \in [1 .. n -> Callers] /\ IsInjective(f)
  BY <1>2 DEF Bijection, Injection, IsInjective
<1>4. SetToSeq(Callers) \in [1 .. n -> Callers] /\ IsInjective(SetToSeq(Callers))
  BY <1>3 DEF SetToSeq
<1>5. SetToSeq(Callers) \in [1 .. n -> Structs]
  BY <1>4, KernellabAssumption
<1> QED BY <1>1, <1>4, <1>5, SeqDef

\* A struct that is not in the list can be appended.
LEMMA AppendKeepsList ==
  ASSUME NEW l \in Seq(Structs), IsInjective(l), NEW s \in Structs, s \notin ToSet(l)
  PROVE  Append(l, s) \in Seq(Structs) /\ IsInjective(Append(l, s))
<1>1. \A k \in DOMAIN l : l[k] # s
  BY DEF ToSet
<1> QED BY <1>1 DEF IsInjective

\* Unlinking a task moves those behind it by one place.
LEMMA RemoveElements ==
  ASSUME NEW l \in Seq(Structs), NEW k \in DOMAIN l
  PROVE  /\ RemoveAt(l, k) \in Seq(Structs) /\ Len(RemoveAt(l, k)) = Len(l) - 1
         /\ \A i \in 1 .. Len(l) - 1 :
              RemoveAt(l, k)[i] = IF i < k THEN l[i] ELSE l[i + 1]
<1> DEFINE r == RemoveAt(l, k)
<1>1. k \in 1 .. Len(l) /\ Len(l) \in Nat
  OBVIOUS
<1> DEFINE before == SubSeq(l, 1, k - 1)
           after == SubSeq(l, k + 1, Len(l))
<1>2. /\ before \in Seq(Structs) /\ Len(before) = k - 1
      /\ \A i \in 1 .. k - 1 : before[i] = l[i]
  BY <1>1
<1>3. /\ after \in Seq(Structs) /\ Len(after) = Len(l) - k
      /\ \A i \in 1 .. Len(l) - k : after[i] = l[k + i]
  BY <1>1
<1>r. r = before \o after
  BY DEF RemoveAt
<1> HIDE DEF before, after, r
<1>4. /\ r \in Seq(Structs) /\ Len(r) = Len(l) - 1
      /\ \A i \in 1 .. Len(l) - 1 : r[i] = IF i < k THEN l[i] ELSE l[i + 1]
  <2>1. /\ r \in Seq(Structs) /\ Len(r) = Len(before) + Len(after)
        /\ \A i \in 1 .. Len(before) + Len(after) :
             r[i] = IF i <= Len(before) THEN before[i] ELSE after[i - Len(before)]
    BY <1>2, <1>3, <1>r, ConcatProperties
  <2>2. ASSUME NEW i \in 1 .. Len(l) - 1, i < k PROVE r[i] = l[i]
    BY <1>1, <1>2, <1>3, <2>1, <2>2
  <2>3. ASSUME NEW i \in 1 .. Len(l) - 1, ~ (i < k) PROVE r[i] = l[i + 1]
    <3>1. i - (k - 1) \in 1 .. Len(l) - k /\ k + (i - (k - 1)) = i + 1
      BY <1>1, <2>3
    <3>2. r[i] = after[i - (k - 1)]
      <4>1. /\ i \in 1 .. Len(before) + Len(after) /\ ~ (i <= Len(before))
            /\ i - Len(before) = i - (k - 1)
        BY <1>1, <1>2, <1>3, <2>3
      <4> QED BY <2>1, <4>1
    <3> QED BY <1>3, <3>1, <3>2
  <2> QED BY <1>1, <1>2, <1>3, <2>1, <2>2, <2>3
<1> QED BY <1>4 DEF r

LEMMA RemoveKeepsList ==
  ASSUME NEW l \in Seq(Structs), IsInjective(l), NEW k \in DOMAIN l
  PROVE  RemoveAt(l, k) \in Seq(Structs) /\ IsInjective(RemoveAt(l, k))
<1> DEFINE r == RemoveAt(l, k)
<1>1. k \in 1 .. Len(l) /\ Len(l) \in Nat
  OBVIOUS
<1>4. /\ r \in Seq(Structs) /\ Len(r) = Len(l) - 1
      /\ \A i \in 1 .. Len(l) - 1 : r[i] = IF i < k THEN l[i] ELSE l[i + 1]
  BY RemoveElements
<1> HIDE DEF r
<1>5. DOMAIN r = 1 .. Len(l) - 1 /\ DOMAIN l = 1 .. Len(l)
  BY <1>4
<1>6. ASSUME NEW a \in 1 .. Len(l) - 1, NEW b \in 1 .. Len(l) - 1, r[a] = r[b] PROVE a = b
  BY <1>1, <1>4, <1>5, <1>6 DEF IsInjective
<1>7. r \in Seq(Structs) /\ IsInjective(r)
  BY <1>4, <1>5, <1>6 DEF IsInjective
<1> QED BY <1>7 DEF r

----------------------------------------------------------------------------
(* The inductive invariant, with what it says of one caller apart.         *)

IInv == TypeOK /\ MemoryAccounted

Loading ==
  /\ module \in {"unloaded", "group", "loaded"} /\ kobj \in BOOLEAN /\ wide \in BOOLEAN
  /\ kobj <=> module # "unloaded"

Tasks ==
  /\ list \in Seq(Structs) /\ IsInjective(list)
  /\ pidOf \in [Structs -> Pids \cup {NOPID}]
  /\ memory \subseteq {"mess", "info"} \X Callers
  /\ stale \subseteq Callers /\ present \subseteq Callers

Shared == Loading /\ Tasks

Accounted(c) ==
  /\ call[c] \in Call
  /\ call[c].pc \in {"pid", "comm", "state"} => call[c].task # NULL
  /\ call[c].said # "nothing" => At(c, "error")
  /\ Mess(c) \in memory <=>
       \/ call[c].pc \in InKernel \ {"mess"}
       \/ At(c, "error") /\ call[c].said = "pid_info allocation failed"
  /\ InfoOf(c) \in memory <=> call[c].pc \in InKernel \ {"mess", "info"}

OneFunction == call = [c \in Callers |-> call[c]]

LEMMA IInvByCaller == IInv <=> Shared /\ OneFunction /\ \A c \in Callers : Accounted(c)
BY DEF IInv, TypeOK, MemoryAccounted, Shared, Loading, Tasks, OneFunction, Accounted

LEMMA InitAccounted == Init => IInv
<1> SUFFICES ASSUME Init PROVE Shared /\ OneFunction /\ \A c \in Callers : Accounted(c)
  BY IInvByCaller
<1>1. Shared
  BY FirstList, KernellabAssumption DEF Init, Shared, Loading, Tasks
<1>2. call \in [Callers -> [pc : {"openCurrent"}, asked : Asked,
                           current : {0}, mess : {NONE}, task : {NULL},
                           info : {Blank}, answer : {Blank}, said : {"nothing"}]]
  BY DEF Init
<1>3. Blank \in Info
  BY DEF Blank, Info
<1>4. ASSUME NEW c \in Callers PROVE Accounted(c)
  <2>1. call[c] \in Call /\ call[c].pc = "openCurrent" /\ call[c].said = "nothing"
    BY <1>2, <1>3 DEF Call, InUser, InKernel, Messages
  <2> QED BY <2>1 DEF Init, Accounted, At, InKernel
<1> QED BY <1>1, <1>2, <1>4 DEF OneFunction

(* A step of one caller: it is enough to look at this one.                 *)
LEMMA OneCaller ==
  ASSUME IInv, NEW c \in Callers,
         UNCHANGED <<kernel, wide, tasks>>, stale' \subseteq Callers, present' \subseteq Callers,
         NEW r \in Call, call' = [call EXCEPT ![c] = r],
         memory' \in SUBSET ({"mess", "info"} \X Callers),
         \A m \in {"mess", "info"} : \A d \in Callers \ {c} :
           <<m, d>> \in memory' <=> <<m, d>> \in memory,
         r.pc \in {"pid", "comm", "state"} => r.task # NULL,
         r.said # "nothing" => r.pc = "error",
         Mess(c) \in memory' <=>
           \/ r.pc \in InKernel \ {"mess"}
           \/ r.pc = "error" /\ r.said = "pid_info allocation failed",
         InfoOf(c) \in memory' <=> r.pc \in InKernel \ {"mess", "info"}
  PROVE  IInv'
<1>1. Shared /\ OneFunction /\ \A d \in Callers : Accounted(d)
  BY IInvByCaller
<1>2. Shared'
  BY <1>1 DEF Shared, Loading, Tasks, kernel, tasks
<1>3. call \in [Callers -> Call]
  BY <1>1 DEF OneFunction, Accounted
<1>4. OneFunction'
  BY <1>3 DEF OneFunction
<1>5. ASSUME NEW d \in Callers PROVE Accounted(d)'
  <2>1. CASE d = c
    <3>1. call'[d] = r
      BY <1>3, <2>1
    <3> QED BY <2>1, <3>1 DEF Accounted, At, Mess, InfoOf
  <2>2. CASE d # c
    <3>1. call'[d] = call[d]
      BY <1>3, <2>2
    <3> QED BY <1>1, <2>2, <3>1 DEF Accounted, At, Mess, InfoOf
  <2> QED BY <2>1, <2>2
<1>6. (IInv <=> Shared /\ OneFunction /\ \A d \in Callers : Accounted(d))'
  BY DEF IInv, TypeOK, MemoryAccounted, Shared, Loading, Tasks, OneFunction, Accounted
<1> QED BY <1>2, <1>4, <1>5, <1>6

----------------------------------------------------------------------------
(* What the actions do to the record of their caller.                      *)

LEMMA GoesRecord ==
  ASSUME NEW q \in Call, NEW step \in InKernel \cup InUser
  PROVE  /\ [q EXCEPT !.pc = step] \in Call
         /\ [q EXCEPT !.pc = step].pc = step
         /\ [q EXCEPT !.pc = step].task = q.task /\ [q EXCEPT !.pc = step].said = q.said
BY DEF Call

LEMMA FailsRecord ==
  ASSUME IInv, NEW c \in Callers, NEW message \in Messages, Fails(c, message)
  PROVE  \E r \in Call : /\ call' = [call EXCEPT ![c] = r]
                         /\ r.pc = "error" /\ r.said = message
<1> DEFINE r == [call[c] EXCEPT !.pc = "error", !.said = message,
                                !.mess = NONE, !.task = NULL, !.info = Blank]
<1>1. call[c] \in Call
  BY IInvByCaller DEF Accounted
<1>2. Blank \in Info
  BY DEF Blank, Info
<1>3. r \in Call /\ r.pc = "error" /\ r.said = message
  BY <1>1, <1>2 DEF Call, InUser
<1>4. call' = [call EXCEPT ![c] = r]
  BY DEF Fails
<1> QED BY <1>3, <1>4

LEMMA FillsRecord ==
  ASSUME IInv, NEW c \in Callers, NEW field \in {"pid", "comm", "state"},
         NEW value \in Pids \cup {NOPID}, NEW next \in InKernel, Fills(c, field, value, next)
  PROVE  \E r \in Call : /\ call' = [call EXCEPT ![c] = r] /\ r.pc = next
                         /\ r.task = call[c].task /\ r.said = call[c].said
<1> DEFINE i == [call[c].info EXCEPT ![field] = value]
           r == [call[c] EXCEPT !.pc = next, !.info = i]
<1>1. call[c] \in Call
  BY IInvByCaller DEF Accounted
<1>2. i \in Info
  BY <1>1 DEF Info, Call
<1>3. r \in Call /\ r.pc = next /\ r.task = call[c].task /\ r.said = call[c].said
  BY <1>1, <1>2 DEF Call
<1>4. call' = [call EXCEPT ![c] = r]
  BY DEF Fills
<1> QED BY <1>3, <1>4

----------------------------------------------------------------------------
(* request-pid, and the parts of pid_write.                                *)

\* A step that only moves the caller on, between two steps with the same memory.
LEMMA GoesKeeps ==
  ASSUME IInv, NEW c \in Callers, NEW step \in InKernel \cup InUser, Goes(c, step),
         UNCHANGED <<kernel, wide, tasks, memory, history>>,
         call[c].said = "nothing", step \in {"pid", "comm", "state"} => call[c].task # NULL,
         call[c].pc \in InKernel \ {"mess"} <=> step \in InKernel \ {"mess"},
         call[c].pc \in InKernel \ {"mess", "info"} <=> step \in InKernel \ {"mess", "info"}
  PROVE  IInv'
<1> DEFINE r == [call[c] EXCEPT !.pc = step]
<1>1. Shared /\ Accounted(c) /\ call[c] \in Call
  BY IInvByCaller DEF Accounted
<1>2. r \in Call /\ r.pc = step /\ r.task = call[c].task /\ r.said = call[c].said
  BY <1>1, GoesRecord
<1>3. call' = [call EXCEPT ![c] = r]
  BY DEF Goes
<1>4. /\ memory' \in SUBSET ({"mess", "info"} \X Callers)
      /\ stale' \subseteq Callers /\ present' \subseteq Callers
  BY <1>1 DEF Shared, Loading, Tasks, history
<1>5. /\ Mess(c) \in memory' <=> r.pc \in InKernel \ {"mess"}
      /\ InfoOf(c) \in memory' <=> r.pc \in InKernel \ {"mess", "info"}
  BY <1>1, <1>2 DEF Accounted
<1> HIDE DEF r
<1> QED BY <1>2, <1>3, <1>4, <1>5, OneCaller

\* A failure after which nothing of the caller is allocated.
LEMMA FailsKeeps ==
  ASSUME IInv, NEW c \in Callers, NEW message \in Messages, Fails(c, message),
         UNCHANGED <<kernel, wide, tasks, history>>,
         \/ message # "pid_info allocation failed" /\ memory' = Freed(c)
         \/ /\ message # "pid_info allocation failed" /\ call[c].pc = "mess"
            /\ memory' = memory
         \/ /\ message = "pid_info allocation failed" /\ call[c].pc = "info"
            /\ memory' = memory
  PROVE  IInv'
<1>1. PICK r \in Call : call' = [call EXCEPT ![c] = r] /\ r.pc = "error" /\ r.said = message
  BY ONLY IInv, c \in Callers, message \in Messages, Fails(c, message), FailsRecord
<1>2. Shared /\ Accounted(c)
  BY IInvByCaller
<1>3. /\ memory' \in SUBSET ({"mess", "info"} \X Callers)
      /\ stale' \subseteq Callers /\ present' \subseteq Callers
      /\ \A m \in {"mess", "info"} : \A d \in Callers \ {c} :
           <<m, d>> \in memory' <=> <<m, d>> \in memory
  BY <1>2 DEF Shared, Loading, Tasks, history, Freed, Mess, InfoOf
<1>4. /\ Mess(c) \in memory' <=> message = "pid_info allocation failed"
      /\ InfoOf(c) \notin memory'
  BY <1>2 DEF Accounted, Freed, Mess, InfoOf, At, InKernel
<1> QED BY <1>1, <1>3, <1>4, OneCaller DEF InKernel

\* A field of info is filled from a task.
LEMMA FillsKeeps ==
  ASSUME IInv, NEW c \in Callers, NEW field \in {"pid", "comm", "state"},
         NEW next \in {"comm", "state", "copyOut"}, call[c].pc \in {"pid", "comm", "state"},
         \E p \in Read(call[c].task) : Fills(c, field, p, next),
         UNCHANGED <<kernel, wide, tasks, memory, history>>
  PROVE  IInv'
<1>1. Shared /\ Accounted(c) /\ call[c] \in Call
  BY IInvByCaller DEF Accounted
<1>2. call[c].task \in Structs /\ call[c].said = "nothing"
  BY <1>1 DEF Accounted, Call, At
<1>3. PICK p \in Read(call[c].task) : Fills(c, field, p, next)
  OBVIOUS
<1>4. p \in Pids \cup {NOPID}
  BY <1>1, <1>2, <1>3 DEF Read, Shared, Loading, Tasks
<1>5. next \in InKernel
  BY DEF InKernel
<1>6. PICK r \in Call : /\ call' = [call EXCEPT ![c] = r] /\ r.pc = next
                        /\ r.task = call[c].task /\ r.said = call[c].said
  BY <1>3, <1>4, <1>5, FillsRecord
<1>7. /\ memory' \in SUBSET ({"mess", "info"} \X Callers)
      /\ stale' \subseteq Callers /\ present' \subseteq Callers
  BY <1>1 DEF Shared, Loading, Tasks, history
<1>8. /\ Mess(c) \in memory' <=> r.pc \in InKernel \ {"mess"}
      /\ InfoOf(c) \in memory' <=> r.pc \in InKernel \ {"mess", "info"}
  BY <1>1, <1>2, <1>6 DEF Accounted, InKernel
<1>9. call[c].task # NULL
  BY <1>1 DEF Accounted
<1> QED BY <1>2, <1>6, <1>7, <1>8, <1>9, OneCaller

----------------------------------------------------------------------------
(* The actions.                                                            *)

LEMMA RequestPidKeeps ==
  ASSUME IInv, NEW c \in Callers,
         OpenFile(c) \/ NoDevice(c) \/ KcurrentWrite(c) \/ KcurrentFails(c) \/ EnterPidWrite(c)
  PROVE  IInv'
<1>1. Accounted(c) /\ Shared /\ call[c] \in Call
  BY IInvByCaller DEF Accounted
<1>2. CASE OpenFile(c)
  <2>1. PICK step \in {"error", "writeCurrent", "writePid"} : Goes(c, step)
    BY <1>2 DEF OpenFile
  <2>2. call[c].said = "nothing" /\ call[c].pc \in {"openCurrent", "openPid"}
    BY <1>1, <1>2 DEF OpenFile, Accounted, At
  <2> QED BY <1>2, <2>1, <2>2, GoesKeeps DEF OpenFile, InKernel, InUser
<1>3. CASE NoDevice(c)
  <2>1. call[c].said = "nothing" /\ call[c].pc \in {"writeCurrent", "writePid"}
    BY <1>1, <1>3 DEF NoDevice, Accounted, At
  <2> QED BY <1>3, <2>1, GoesKeeps DEF NoDevice, InKernel, InUser
<1>4. CASE KcurrentWrite(c)
  <2> DEFINE r == [call[c] EXCEPT !.pc = "openPid",
                                  !.current = IF wide THEN call[c].current ELSE c]
  <2>1. call[c].said = "nothing" /\ call[c].pc = "writeCurrent"
    BY <1>1, <1>4 DEF KcurrentWrite, Accounted, At
  <2>2. r \in Call /\ r.pc = "openPid" /\ r.said = "nothing"
    BY <1>1, <2>1 DEF Call, InUser
  <2>3. call' = [call EXCEPT ![c] = r]
    BY <1>4 DEF KcurrentWrite
  <2>4. /\ memory' \in SUBSET ({"mess", "info"} \X Callers)
        /\ stale' \subseteq Callers /\ present' \subseteq Callers
    BY <1>1, <1>4 DEF KcurrentWrite, Shared, Loading, Tasks, history
  <2>5. Mess(c) \notin memory' /\ InfoOf(c) \notin memory'
    BY <1>1, <1>4, <2>1 DEF KcurrentWrite, Accounted, InKernel, At
  <2> HIDE DEF r
  <2> QED BY <1>4, <2>2, <2>3, <2>4, <2>5, OneCaller DEF KcurrentWrite, InKernel
<1>5. CASE KcurrentFails(c)
  <2>1. call[c].said = "nothing" /\ call[c].pc = "writeCurrent"
    BY <1>1, <1>5 DEF KcurrentFails, Accounted, At
  <2> QED BY <1>5, <2>1, GoesKeeps DEF KcurrentFails, InKernel, InUser
<1>6. CASE EnterPidWrite(c)
  <2>1. call[c].said = "nothing" /\ call[c].pc = "writePid"
    BY <1>1, <1>6 DEF EnterPidWrite, Accounted, At
  <2> QED BY <1>6, <2>1, GoesKeeps DEF EnterPidWrite, InKernel, InUser
<1> QED BY <1>2, <1>3, <1>4, <1>5, <1>6

LEMMA AllocationsKeep ==
  ASSUME IInv, NEW c \in Callers,
         AllocMess(c) \/ AllocMessFails(c) \/ AllocInfo(c) \/ AllocInfoFails(c)
  PROVE  IInv'
<1>1. Accounted(c) /\ Shared /\ call[c] \in Call
  BY IInvByCaller DEF Accounted
<1>2. ASSUME NEW k \in {"mess", "info"}, NEW step \in {"info", "copyIn"}, call[c].pc = k,
             IF k = "mess" THEN step = "info" ELSE step = "copyIn",
             memory' = memory \cup {<<k, c>>}, Goes(c, step),
             UNCHANGED <<kernel, wide, tasks, history>>
      PROVE  IInv'
  <2> DEFINE r == [call[c] EXCEPT !.pc = step]
  <2>1. call[c].said = "nothing"
    BY <1>1, <1>2 DEF Accounted, At
  <2>2. step \in InKernel
    BY DEF InKernel
  <2>3. r \in Call /\ r.pc = step /\ r.task = call[c].task /\ r.said = call[c].said
    BY <1>1, <2>2, GoesRecord
  <2>4. call' = [call EXCEPT ![c] = r]
    BY <1>2 DEF Goes
  <2>5. /\ memory' \in SUBSET ({"mess", "info"} \X Callers)
        /\ stale' \subseteq Callers /\ present' \subseteq Callers
        /\ \A m \in {"mess", "info"} : \A d \in Callers \ {c} :
             <<m, d>> \in memory' <=> <<m, d>> \in memory
    BY <1>1, <1>2 DEF Shared, Loading, Tasks, history
  <2>6. /\ Mess(c) \in memory'
        /\ InfoOf(c) \in memory' <=> step = "copyIn"
    BY <1>1, <1>2, <2>1 DEF Accounted, Mess, InfoOf, InKernel
  <2> HIDE DEF r
  <2> QED BY <1>2, <2>1, <2>3, <2>4, <2>5, <2>6, OneCaller DEF InKernel
<1>3. CASE AllocMess(c)
  BY <1>2, <1>3 DEF AllocMess, At, Mess
<1>4. CASE AllocInfo(c)
  BY <1>2, <1>4 DEF AllocInfo, At, InfoOf
<1>5. CASE AllocMessFails(c)
  BY <1>5, FailsKeeps DEF AllocMessFails, At, Messages
<1>6. CASE AllocInfoFails(c)
  BY <1>6, FailsKeeps DEF AllocInfoFails, At, Messages
<1> QED BY <1>3, <1>4, <1>5, <1>6

LEMMA FailuresKeep ==
  ASSUME IInv, NEW c \in Callers, CopyInFails(c) \/ NotFound(c) \/ CopyOutFails(c)
  PROVE  IInv'
<1>1. CASE CopyInFails(c)
  BY <1>1, FailsKeeps DEF CopyInFails, Messages
<1>2. CASE NotFound(c)
  BY <1>2, FailsKeeps DEF NotFound, Messages
<1>3. CASE CopyOutFails(c)
  BY <1>3, FailsKeeps DEF CopyOutFails, Messages
<1> QED BY <1>1, <1>2, <1>3

\* The next task is in the list, or the list is at its end.
LEMMA NextIsTask ==
  ASSUME Shared, NEW s \in Structs, NEW n \in NextTask(s)
  PROVE  n \in Structs \cup {NULL}
<1>1. Linked \subseteq Structs
  BY DEF Linked, ToSet, Shared, Loading, Tasks
<1>2. CASE s \notin Linked
  BY <1>1, <1>2 DEF NextTask
<1>3. CASE s \in Linked
  <2> DEFINE k == CHOOSE k \in DOMAIN list : list[k] = s
  <2>1. k \in DOMAIN list
    BY <1>3 DEF Linked, ToSet
  <2>2. n = IF k = Len(list) THEN NULL ELSE list[k + 1]
    BY <1>3 DEF NextTask
  <2> HIDE DEF k
  <2> QED BY <2>1, <2>2 DEF Shared, Loading, Tasks
<1> QED BY <1>2, <1>3

LEMMA WalkKeeps ==
  ASSUME IInv, NEW c \in Callers, CopyIn(c) \/ Walk(c) \/ Oops(c)
  PROVE  IInv'
<1>1. Accounted(c) /\ Shared /\ call[c] \in Call
  BY IInvByCaller DEF Accounted
<1>2. call[c].said = "nothing"
  BY <1>1 DEF Accounted, At, CopyIn, Walk, Oops
<1>3. CASE CopyIn(c)
  <2>1. PICK pid \in Pids \cup {NONE} :
          /\ call' = [call EXCEPT ![c].pc = "walk", ![c].mess = pid, ![c].task = FirstTask]
          /\ present' = IF pid \in Living THEN present \cup {c} ELSE present
    <3>1. call[c].asked \in Pids \cup {NONE}
      BY <1>1, KernellabAssumption DEF Call, NONE
    <3> QED BY <1>3, <3>1 DEF CopyIn
  <2> DEFINE r == [call[c] EXCEPT !.pc = "walk", !.mess = pid, !.task = FirstTask]
  <2>2. FirstTask \in Structs \cup {NULL}
    BY <1>1 DEF FirstTask, Shared, Loading, Tasks
  <2>3. r \in Call /\ r.pc = "walk" /\ r.said = "nothing"
    BY <1>1, <1>2, <2>2 DEF Call, InKernel
  <2>4. call' = [call EXCEPT ![c] = r]
    BY <2>1
  <2>5. /\ memory' \in SUBSET ({"mess", "info"} \X Callers)
        /\ stale' \subseteq Callers /\ present' \subseteq Callers
    BY <1>1, <1>3, <2>1 DEF CopyIn, Shared, Loading, Tasks
  <2>6. Mess(c) \in memory' /\ InfoOf(c) \in memory'
    BY <1>1, <1>3 DEF CopyIn, Accounted, InKernel, At
  <2> HIDE DEF r
  <2> QED BY <1>3, <2>3, <2>4, <2>5, <2>6, OneCaller DEF CopyIn, InKernel
<1>4. CASE Walk(c)
  <2>1. call[c].pc = "walk" /\ call[c].task \in Structs /\ call[c].task # NULL
    BY <1>1, <1>4 DEF Walk, At, Call
  <2>2. CASE Goes(c, "pid")
    BY <1>2, <1>4, <2>1, <2>2, GoesKeeps DEF Walk, InKernel
  <2>3. CASE \E s \in NextTask(call[c].task) : call' = [call EXCEPT ![c].task = s]
    <3>1. PICK s \in NextTask(call[c].task) : call' = [call EXCEPT ![c].task = s]
      BY <2>3
    <3> DEFINE r == [call[c] EXCEPT !.task = s]
    <3>2. s \in Structs \cup {NULL}
      BY <1>1, <2>1, NextIsTask
    <3>3. r \in Call /\ r.pc = "walk" /\ r.said = "nothing"
      BY <1>1, <1>2, <2>1, <3>2 DEF Call
    <3>4. call' = [call EXCEPT ![c] = r]
      BY <3>1
    <3>5. /\ memory' \in SUBSET ({"mess", "info"} \X Callers)
          /\ stale' \subseteq Callers /\ present' \subseteq Callers
      BY <1>1, <1>4 DEF Walk, Shared, Loading, Tasks, history
    <3>6. Mess(c) \in memory' /\ InfoOf(c) \in memory'
      BY <1>1, <1>4, <2>1 DEF Walk, Accounted, InKernel
    <3> HIDE DEF r
    <3> QED BY <1>4, <3>3, <3>4, <3>5, <3>6, OneCaller DEF Walk, InKernel
  <2> QED BY <1>4, <2>2, <2>3 DEF Walk
<1>5. CASE Oops(c)
  <2>1. call[c].pc = "walk"
    BY <1>5 DEF Oops, At
  <2> QED BY <1>2, <1>5, <2>1, GoesKeeps DEF Oops, InKernel
<1> QED BY <1>3, <1>4, <1>5

LEMMA FillKeeps ==
  ASSUME IInv, NEW c \in Callers, FillPid(c) \/ FillComm(c) \/ FillState(c)
  PROVE  IInv'
<1>1. CASE FillPid(c)
  BY <1>1, FillsKeeps DEF FillPid, At
<1>2. CASE FillComm(c)
  BY <1>2, FillsKeeps DEF FillComm, At
<1>3. CASE FillState(c)
  BY <1>3, FillsKeeps DEF FillState, At
<1> QED BY <1>1, <1>2, <1>3

LEMMA CopyOutKeeps ==
  ASSUME IInv, NEW c \in Callers, CopyOut(c)
  PROVE  IInv'
<1>1. Accounted(c) /\ Shared /\ call[c] \in Call
  BY IInvByCaller DEF Accounted
<1>2. PICK written \in BOOLEAN :
        call' = [call EXCEPT ![c].pc = "printed",
                             ![c].answer = IF written THEN call[c].info ELSE @,
                             ![c].mess = NONE, ![c].task = NULL, ![c].info = Blank]
  BY DEF CopyOut
<1> DEFINE r == [call[c] EXCEPT !.pc = "printed",
                    !.answer = IF written THEN call[c].info ELSE call[c].answer,
                    !.mess = NONE, !.task = NULL, !.info = Blank]
<1>3. call[c].said = "nothing"
  BY <1>1 DEF Accounted, At, CopyOut
<1>4. Blank \in Info
  BY DEF Blank, Info
<1>5. r \in Call /\ r.pc = "printed" /\ r.said = "nothing"
  BY <1>1, <1>3, <1>4 DEF Call, InUser
<1>6. call' = [call EXCEPT ![c] = r]
  BY <1>2
<1>7. /\ memory' \in SUBSET ({"mess", "info"} \X Callers)
      /\ stale' \subseteq Callers /\ present' \subseteq Callers
      /\ Mess(c) \notin memory' /\ InfoOf(c) \notin memory'
      /\ \A m \in {"mess", "info"} : \A d \in Callers \ {c} :
           <<m, d>> \in memory' <=> <<m, d>> \in memory
  BY <1>1 DEF CopyOut, Shared, Loading, Tasks, history, Freed, Mess, InfoOf
<1> HIDE DEF r
<1> QED BY <1>5, <1>6, <1>7, OneCaller DEF CopyOut, InKernel

LEMMA SystemKeeps ==
  ASSUME IInv,
         \/ CreateKobject \/ CreateGroup \/ GroupFails \/ Unload
         \/ \E p \in Pids, s \in Structs : Fork(p, s)
         \/ \E k \in DOMAIN list : TaskExit(k)
  PROVE  IInv'
<1>1. Shared /\ OneFunction /\ \A c \in Callers : Accounted(c)
  BY IInvByCaller
<1>2. UNCHANGED <<call, memory, wide>>
  BY DEF CreateKobject, CreateGroup, GroupFails, Unload, Fork, TaskExit
<1>3. OneFunction' /\ \A c \in Callers : Accounted(c)'
  BY <1>1, <1>2 DEF OneFunction, Accounted, At
<1>4. ASSUME CreateKobject \/ CreateGroup \/ GroupFails \/ Unload PROVE Shared'
  <2>1. Loading'
    BY <1>1, <1>2, <1>4, Zenon
      DEF CreateKobject, CreateGroup, GroupFails, Unload, Loading, Shared
  <2>2. Tasks'
    BY <1>1, <1>2, <1>4
      DEF CreateKobject, CreateGroup, GroupFails, Unload, Tasks, Shared, tasks, history
  <2> QED BY <2>1, <2>2 DEF Shared
<1>5. ASSUME NEW p \in Pids, NEW s \in Structs, Fork(p, s) PROVE Shared'
  <2>2. list' \in Seq(Structs) /\ IsInjective(list')
    BY <1>1, <1>5, AppendKeepsList DEF Fork, Linked, Shared, Tasks
  <2>3. Loading'
    BY <1>1, <1>2, <1>5 DEF Fork, Loading, Shared, kernel
  <2>4. Tasks'
    BY <1>1, <1>2, <1>5, <2>2 DEF Fork, Tasks, Shared, history
  <2> QED BY <2>3, <2>4 DEF Shared
<1>6. ASSUME NEW k \in DOMAIN list, TaskExit(k) PROVE Shared'
  <2>2. list' \in Seq(Structs) /\ IsInjective(list')
    BY <1>1, <1>6, RemoveKeepsList DEF TaskExit, Shared, Tasks
  <2>3. Loading'
    BY <1>1, <1>2, <1>6 DEF TaskExit, Loading, Shared, kernel
  <2>4. Tasks'
    BY <1>1, <1>2, <1>6, <2>2 DEF TaskExit, Tasks, Shared
  <2> QED BY <2>3, <2>4 DEF Shared
<1>7. Shared'
  BY <1>4, <1>5, <1>6
<1>8. (IInv <=> Shared /\ OneFunction /\ \A c \in Callers : Accounted(c))'
  BY DEF IInv, TypeOK, MemoryAccounted, Shared, Loading, Tasks, OneFunction, Accounted
<1> QED BY <1>3, <1>7, <1>8

LEMMA NextKeeps == IInv /\ [Next]_vars => IInv'
<1> SUFFICES ASSUME IInv, [Next]_vars PROVE IInv'
  OBVIOUS
<1>1. CASE \/ CreateKobject \/ CreateGroup \/ GroupFails \/ Unload
           \/ \E p \in Pids, s \in Structs : Fork(p, s)
           \/ \E k \in DOMAIN list : TaskExit(k)
  BY <1>1, SystemKeeps
<1>2. CASE \E c \in Callers : \/ OpenFile(c) \/ NoDevice(c) \/ KcurrentWrite(c)
                              \/ KcurrentFails(c) \/ EnterPidWrite(c)
  BY <1>2, RequestPidKeeps
<1>3. CASE \E c \in Callers : pid_write(c)
  BY <1>3, AllocationsKeep, FailuresKeep, WalkKeeps, FillKeeps, CopyOutKeeps DEF pid_write
<1>4. CASE UNCHANGED vars
  BY <1>4 DEF vars, kernel, tasks, history, IInv, TypeOK, MemoryAccounted, At, Linked
<1> QED BY <1>1, <1>2, <1>3, <1>4 DEF Next

----------------------------------------------------------------------------
(* The theorems.                                                           *)

THEOREM KernellabInvariant == Spec => []IInv
BY InitAccounted, NextKeeps, PTL DEF Spec

(* Whatever fails, and however tasks come and go beside it, every way out  *)
(* of pid_write frees what it has allocated, but for the one that does     *)
(* not, and the module leaves no directory behind.                         *)
THEOREM MemoryIsAccounted == Spec => [](TypeOK /\ MemoryAccounted)
<1>1. IInv => TypeOK /\ MemoryAccounted
  BY DEF IInv
<1> QED BY <1>1, KernellabInvariant, PTL

----------------------------------------------------------------------------
(* request-pid is told the truth.  The argument is about where a walk      *)
(* stands: on a linked task, and, while the process that it looks for has  *)
(* been there since the walk began, not beyond it.                         *)


BeforeWalk == {"openCurrent", "writeCurrent", "openPid", "writePid", "mess", "info", "copyIn"}

\* The walk of c stands on a linked task, and not behind the one it looks for.
Walks(c) ==
  /\ call[c].mess = call[c].asked
  /\ call[c].task # NULL => \E i \in DOMAIN list : list[i] = call[c].task
  /\ c \in present =>
       \E i, k \in DOMAIN list :
         i <= k /\ list[i] = call[c].task /\ pidOf[list[k]] = call[c].asked

\* c reads the task that it has looked for.
Stands(c) == \E i \in DOMAIN list : list[i] = call[c].task /\ pidOf[list[i]] = call[c].asked

\* What c has found out so far.
Knows(c) ==
  /\ call[c].pc \in {"comm", "state", "copyOut"} => call[c].info["pid"] = call[c].asked
  /\ call[c].pc \in {"state", "copyOut"} => call[c].info["comm"] = call[c].asked
  /\ At(c, "copyOut") => call[c].info["state"] = call[c].asked
  /\ At(c, "printed") => \A field \in DOMAIN Blank : call[c].answer[field] = call[c].asked
  /\ call[c].pc \notin {"openCurrent", "writeCurrent", "error"} => call[c].current = c
  /\ At(c, "error") /\ call[c].said = "Process not found" => c \notin present

OnTrack(c) ==
  /\ c \in present => call[c].pc \notin BeforeWalk
  /\ ~ wide /\ c \notin stale =>
       /\ At(c, "walk") => Walks(c)
       /\ call[c].pc \in {"pid", "comm", "state"} => Stands(c)
       /\ Knows(c)

AllOnTrack == \A c \in Callers : OnTrack(c)

LEMMA OnTrackAnswers == AllOnTrack => AnswersAreRight
BY DEF AllOnTrack, OnTrack, AnswersAreRight, Knows, At

LEMMA InitOnTrack == Init => AllOnTrack
<1> SUFFICES ASSUME Init, NEW c \in Callers PROVE OnTrack(c)
  BY DEF AllOnTrack
<1>1. call[c].pc = "openCurrent" /\ call[c].said = "nothing" /\ c \notin present
  BY DEF Init
<1> QED BY <1>1 DEF OnTrack, Knows, At

\* A caller whose record and whose part of the tasks stay.
LEMMA OthersOnTrack ==
  ASSUME NEW d \in Callers, OnTrack(d), UNCHANGED <<wide, tasks, stale>>,
         call'[d] = call[d], d \in present' <=> d \in present
  PROVE  OnTrack(d)'
BY DEF OnTrack, Walks, Stands, Knows, At, tasks

LEMMA OneOnTrack ==
  ASSUME IInv, AllOnTrack, NEW c \in Callers, UNCHANGED <<wide, tasks, stale>>,
         NEW r, call' = [call EXCEPT ![c] = r], OnTrack(c)',
         \A d \in Callers \ {c} : d \in present' <=> d \in present
  PROVE  AllOnTrack'
<1>1. call = [d \in Callers |-> call[d]]
  BY IInvByCaller DEF OneFunction
<1>2. ASSUME NEW d \in Callers, d # c PROVE OnTrack(d)'
  <2>1. call'[d] = call[d]
    BY <1>1, <1>2
  <2>2. OnTrack(d) /\ (d \in present' <=> d \in present)
    BY <1>2 DEF AllOnTrack
  <2> QED BY <2>1, <2>2, OthersOnTrack
<1> QED BY <1>2 DEF AllOnTrack

----------------------------------------------------------------------------
(* The processes of the system.                                            *)

\* A task behind the others moves none of them.
LEMMA ForkOnTrack ==
  ASSUME IInv, AllOnTrack, NEW p \in Pids, NEW s \in Structs, Fork(p, s)
  PROVE  AllOnTrack'
<1>1. Tasks
  BY IInvByCaller DEF Shared
<1>2. /\ DOMAIN list \subseteq DOMAIN list'
      /\ \A i \in DOMAIN list : list'[i] = list[i] /\ pidOf'[list[i]] = pidOf[list[i]]
  <2>1. list' = Append(list, s) /\ pidOf' = [pidOf EXCEPT ![s] = p]
    BY DEF Fork
  <2>2. list \in Seq(Structs) /\ pidOf \in [Structs -> Pids \cup {NOPID}]
    BY <1>1 DEF Tasks
  <2>3. \A i \in DOMAIN list : list[i] \in Structs /\ list[i] # s
    BY <2>2 DEF Fork, Linked, ToSet
  <2> QED BY <2>1, <2>2, <2>3
<1>3. UNCHANGED <<call, present, stale, wide>>
  BY DEF Fork, history
<1> SUFFICES ASSUME NEW c \in Callers PROVE OnTrack(c)'
  BY DEF AllOnTrack
<1>4. OnTrack(c)
  BY DEF AllOnTrack
<1>5. Walks(c) => Walks(c)'
  BY <1>2, <1>3 DEF Walks
<1>6. Stands(c) => Stands(c)'
  BY <1>2, <1>3 DEF Stands
<1>7. Knows(c) => Knows(c)'
  BY <1>3 DEF Knows, At
<1> QED BY <1>3, <1>4, <1>5, <1>6, <1>7 DEF OnTrack, At

\* A task that ends is in none of the walks that count, and orders none of the others anew.
LEMMA ExitOnTrack ==
  ASSUME IInv, AllOnTrack, NEW k \in DOMAIN list, TaskExit(k)
  PROVE  AllOnTrack'
<1> DEFINE Moved(j) == IF j < k THEN j ELSE j - 1
<1>1. Tasks
  BY IInvByCaller DEF Shared
<1>2. ASSUME NEW j \in DOMAIN list, j # k
      PROVE  Moved(j) \in DOMAIN list' /\ list'[Moved(j)] = list[j]
  <2>1. list \in Seq(Structs) /\ list' = RemoveAt(list, k)
    BY <1>1 DEF Tasks, TaskExit
  <2>2. /\ list' \in Seq(Structs) /\ Len(list') = Len(list) - 1
        /\ \A i \in 1 .. Len(list) - 1 : list'[i] = IF i < k THEN list[i] ELSE list[i + 1]
    BY <2>1, RemoveElements
  <2>3. k \in 1 .. Len(list) /\ j \in 1 .. Len(list) /\ Len(list) \in Nat
    BY <2>1
  <2>4. Moved(j) \in 1 .. Len(list) - 1
    BY <1>2, <2>3
  <2> QED BY <1>2, <2>2, <2>3, <2>4
<1>3. \A i, j \in DOMAIN list : i <= j => Moved(i) <= Moved(j)
  BY <1>1 DEF Tasks
<1> HIDE DEF Moved
<1>4. UNCHANGED <<call, pidOf, wide>> /\ present' \subseteq present /\ stale \subseteq stale'
  BY DEF TaskExit
<1> SUFFICES ASSUME NEW c \in Callers PROVE OnTrack(c)'
  BY DEF AllOnTrack
<1>5. OnTrack(c)
  BY DEF AllOnTrack
<1>6. ASSUME At(c, "walk"), Walks(c), c \notin stale' PROVE Walks(c)'
  <2>1. call[c].task # list[k]
    BY <1>6 DEF TaskExit, At
  <2>2. ASSUME call[c].task # NULL PROVE \E i \in DOMAIN list' : list'[i] = call[c].task
    <3>1. PICK i \in DOMAIN list : list[i] = call[c].task
      BY <1>6, <2>2 DEF Walks
    <3> QED BY <1>2, <2>1, <3>1
  <2>3. ASSUME c \in present'
        PROVE  \E i, j \in DOMAIN list' :
                 i <= j /\ list'[i] = call[c].task /\ pidOf[list'[j]] = call[c].asked
    <3>1. PICK i, j \in DOMAIN list :
            i <= j /\ list[i] = call[c].task /\ pidOf[list[j]] = call[c].asked
      BY <1>4, <1>6, <2>3 DEF Walks
    <3>2. call[c].mess # pidOf[list[k]]
      BY <1>6, <2>3 DEF TaskExit
    <3>3. i # k /\ j # k
      BY <1>6, <2>1, <3>1, <3>2 DEF Walks
    <3> QED BY <1>2, <1>3, <3>1, <3>3
  <2> QED BY <1>4, <1>6, <2>2, <2>3 DEF Walks
<1>7. ASSUME call[c].pc \in {"pid", "comm", "state"}, Stands(c), c \notin stale'
      PROVE  Stands(c)'
  <2>1. PICK i \in DOMAIN list : list[i] = call[c].task /\ pidOf[list[i]] = call[c].asked
    BY <1>7 DEF Stands
  <2>2. call[c].task # list[k]
    BY <1>7 DEF TaskExit
  <2> QED BY <1>2, <1>4, <2>1, <2>2 DEF Stands
<1>8. Knows(c) => Knows(c)'
  BY <1>4 DEF Knows, At
<1> QED BY <1>4, <1>5, <1>6, <1>7, <1>8 DEF OnTrack, At

----------------------------------------------------------------------------
(* The callers.                                                            *)

\* Steps to where the caller knows nothing yet, or is told nothing.
LEMMA GoesOnTrack ==
  ASSUME IInv, AllOnTrack, NEW c \in Callers, UNCHANGED <<wide, tasks, history>>,
         NEW step \in BeforeWalk \cup {"error", "oops"}, Goes(c, step),
         call[c].said = "nothing",
         step \in {"error", "writeCurrent"} \/ call[c].pc \notin {"openCurrent", "writeCurrent", "error"},
         step \in BeforeWalk => call[c].pc \in BeforeWalk
  PROVE  AllOnTrack'
<1> DEFINE r == [call[c] EXCEPT !.pc = step]
<1>1. call \in [Callers -> Call]
  BY DEF IInv, TypeOK
<1>2. call' = [call EXCEPT ![c] = r]
  BY DEF Goes
<1>3. call'[c] = r /\ r.pc = step /\ r.said = "nothing" /\ r.current = call[c].current
  BY <1>1, <1>2 DEF Call
<1>4. stale' = stale /\ present' = present
  BY DEF history
<1>5. OnTrack(c)
  BY DEF AllOnTrack
<1>6. OnTrack(c)'
  BY <1>3, <1>4, <1>5 DEF OnTrack, Knows, At, BeforeWalk
<1> HIDE DEF r
<1> QED BY <1>2, <1>4, <1>6, OneOnTrack

LEMMA FailsOnTrack ==
  ASSUME IInv, AllOnTrack, NEW c \in Callers, UNCHANGED <<wide, tasks, history>>,
         NEW message \in Messages, Fails(c, message),
         message = "Process not found" => At(c, "walk") /\ call[c].task = NULL
  PROVE  AllOnTrack'
<1>1. PICK r \in Call : call' = [call EXCEPT ![c] = r] /\ r.pc = "error" /\ r.said = message
  BY ONLY IInv, c \in Callers, message \in Messages, Fails(c, message), FailsRecord
<1>2. call \in [Callers -> Call] /\ Tasks
  BY IInvByCaller DEF IInv, TypeOK, Shared
<1>3. call'[c] = r
  BY <1>1, <1>2
<1>4. stale' = stale /\ present' = present
  BY DEF history
<1>5. ASSUME message = "Process not found", ~ wide, c \notin stale PROVE c \notin present
  <2>1. At(c, "walk") /\ call[c].task = NULL /\ Walks(c)
    BY <1>5 DEF AllOnTrack, OnTrack
  <2>2. \A i \in DOMAIN list : list[i] # NULL
    <3>1. list \in Seq(Structs)
      BY <1>2 DEF Tasks
    <3>2. \A i \in DOMAIN list : list[i] \in Structs
      BY ONLY <3>1
    <3> QED BY <3>2, KernellabAssumption DEF NULL
  <2> QED BY <2>1, <2>2 DEF Walks
<1>6. OnTrack(c)'
  BY <1>1, <1>3, <1>4, <1>5 DEF OnTrack, Knows, At, BeforeWalk
<1> QED BY <1>1, <1>4, <1>6, OneOnTrack

LEMMA KcurrentOnTrack ==
  ASSUME IInv, AllOnTrack, NEW c \in Callers, KcurrentWrite(c)
  PROVE  AllOnTrack'
<1> DEFINE r == [call[c] EXCEPT !.pc = "openPid",
                                !.current = IF wide THEN call[c].current ELSE c]
<1>1. call \in [Callers -> Call] /\ At(c, "writeCurrent")
  BY DEF IInv, TypeOK, KcurrentWrite
<1>2. call' = [call EXCEPT ![c] = r] /\ UNCHANGED <<wide, tasks, history>>
  BY DEF KcurrentWrite
<1>3. call'[c] = r /\ r.pc = "openPid" /\ (~ wide => r.current = c)
  BY <1>1, <1>2 DEF Call
<1>4. stale' = stale /\ present' = present /\ wide' = wide
  BY <1>2 DEF history
<1>5. OnTrack(c)
  BY DEF AllOnTrack
<1>6. OnTrack(c)'
  BY <1>1, <1>3, <1>4, <1>5 DEF OnTrack, Knows, At, BeforeWalk
<1> HIDE DEF r
<1> QED BY <1>2, <1>4, <1>6, OneOnTrack

LEMMA RequestPidOnTrack ==
  ASSUME IInv, AllOnTrack, NEW c \in Callers,
         \/ OpenFile(c) \/ NoDevice(c) \/ KcurrentFails(c) \/ EnterPidWrite(c)
         \/ AllocMess(c) \/ AllocInfo(c) \/ Oops(c)
  PROVE  AllOnTrack'
<1>1. call[c].said # "nothing" => At(c, "error")
  BY DEF IInv, TypeOK
<1>2. CASE OpenFile(c)
  <2>1. CASE At(c, "openCurrent")
    <3>1. Goes(c, "error") \/ Goes(c, "writeCurrent")
      BY <1>2, <2>1 DEF OpenFile
    <3> QED BY <1>1, <1>2, <2>1, <3>1, GoesOnTrack DEF OpenFile, At, BeforeWalk
  <2>2. CASE At(c, "openPid")
    <3>1. Goes(c, "error") \/ Goes(c, "writePid")
      BY <1>2, <2>2 DEF OpenFile, At
    <3> QED BY <1>1, <1>2, <2>2, <3>1, GoesOnTrack DEF OpenFile, At, BeforeWalk
  <2> QED BY <1>2, <2>1, <2>2 DEF OpenFile, At
<1>3. CASE NoDevice(c)
  BY <1>1, <1>3, GoesOnTrack DEF NoDevice, At, BeforeWalk
<1>4. CASE KcurrentFails(c)
  BY <1>1, <1>4, GoesOnTrack DEF KcurrentFails, At, BeforeWalk
<1>5. CASE EnterPidWrite(c)
  BY <1>1, <1>5, GoesOnTrack DEF EnterPidWrite, At, BeforeWalk
<1>6. CASE AllocMess(c)
  BY <1>1, <1>6, GoesOnTrack DEF AllocMess, At, BeforeWalk
<1>7. CASE AllocInfo(c)
  BY <1>1, <1>7, GoesOnTrack DEF AllocInfo, At, BeforeWalk
<1>8. CASE Oops(c)
  BY <1>1, <1>8, GoesOnTrack DEF Oops, At, BeforeWalk
<1> QED BY <1>2, <1>3, <1>4, <1>5, <1>6, <1>7, <1>8

LEMMA FailuresOnTrack ==
  ASSUME IInv, AllOnTrack, NEW c \in Callers,
         \/ AllocMessFails(c) \/ AllocInfoFails(c) \/ CopyInFails(c)
         \/ NotFound(c) \/ CopyOutFails(c)
  PROVE  AllOnTrack'
<1>1. CASE AllocMessFails(c)
  BY <1>1, FailsOnTrack DEF AllocMessFails, Messages
<1>2. CASE AllocInfoFails(c)
  BY <1>2, FailsOnTrack DEF AllocInfoFails, Messages
<1>3. CASE CopyInFails(c)
  BY <1>3, FailsOnTrack DEF CopyInFails, Messages
<1>4. CASE NotFound(c)
  BY <1>4, FailsOnTrack DEF NotFound, Messages
<1>5. CASE CopyOutFails(c)
  BY <1>5, FailsOnTrack DEF CopyOutFails, Messages
<1> QED BY <1>1, <1>2, <1>3, <1>4, <1>5

\* The walk begins before all tasks.
LEMMA CopyInOnTrack ==
  ASSUME IInv, AllOnTrack, NEW c \in Callers, CopyIn(c)
  PROVE  AllOnTrack'
<1>1. call \in [Callers -> Call] /\ Tasks
  BY IInvByCaller DEF IInv, TypeOK, Shared
<1>2. call[c].asked \in Pids \cup {NONE}
  BY <1>1, KernellabAssumption DEF Call, NONE
<1>3. PICK pid \in Pids \cup {NONE} :
        /\ ~ wide => pid = call[c].asked
        /\ call' = [call EXCEPT ![c].pc = "walk", ![c].mess = pid, ![c].task = FirstTask]
        /\ present' = IF pid \in Living THEN present \cup {c} ELSE present
  BY <1>2 DEF CopyIn
<1> DEFINE r == [call[c] EXCEPT !.pc = "walk", !.mess = pid, !.task = FirstTask]
<1>4. call' = [call EXCEPT ![c] = r]
  BY <1>3
<1>5. /\ call'[c] = r /\ r.pc = "walk" /\ r.mess = pid /\ r.task = FirstTask
      /\ r.asked = call[c].asked /\ r.current = call[c].current
  BY <1>1, <1>4 DEF Call
<1>6. UNCHANGED <<wide, tasks, stale>>
  BY DEF CopyIn
<1>7. OnTrack(c) /\ At(c, "copyIn")
  BY DEF AllOnTrack, CopyIn
<1>8. c \notin present
  BY <1>7 DEF OnTrack, BeforeWalk, At
<1>9. ASSUME ~ wide PROVE Walks(c)'
  <2>1. FirstTask # NULL => 1 \in DOMAIN list /\ list[1] = FirstTask
    BY <1>1 DEF FirstTask, Tasks
  <2>2. ASSUME c \in present'
        PROVE  \E i, k \in DOMAIN list :
                 i <= k /\ list[i] = FirstTask /\ pidOf[list[k]] = call[c].asked
    <3>1. call[c].asked \in Living
      BY <1>3, <1>8, <1>9, <2>2
    <3>2. PICK k \in DOMAIN list : pidOf[list[k]] = call[c].asked
      BY <3>1 DEF Living, Linked, ToSet
    <3>3. 1 \in DOMAIN list /\ list[1] = FirstTask /\ 1 <= k
      BY <1>1, <3>2 DEF FirstTask, Tasks
    <3> QED BY <3>2, <3>3
  <2> HIDE DEF r
  <2> QED BY <1>3, <1>5, <1>6, <1>9, <2>1, <2>2 DEF Walks, tasks
<1>10. OnTrack(c)'
  <2> HIDE DEF r
  <2> QED BY <1>5, <1>6, <1>7, <1>9 DEF OnTrack, Knows, At, BeforeWalk
<1>11. \A d \in Callers \ {c} : d \in present' <=> d \in present
  BY <1>3
<1> HIDE DEF r
<1> QED BY <1>4, <1>6, <1>10, <1>11, OneOnTrack

\* It goes from task to task until it stands on the one that it looks for.
LEMMA WalkOnTrack ==
  ASSUME IInv, AllOnTrack, NEW c \in Callers, Walk(c)
  PROVE  AllOnTrack'
<1>1. call \in [Callers -> Call] /\ Tasks /\ OnTrack(c)
  BY IInvByCaller DEF IInv, TypeOK, Shared, AllOnTrack
<1>2. /\ At(c, "walk") /\ call[c].task # NULL
      /\ UNCHANGED <<wide, tasks, stale, present>> /\ UNCHANGED <<list, pidOf>>
  BY DEF Walk, history, tasks
<1>3. PICK pid \in Read(call[c].task) :
        IF pid = call[c].mess THEN Goes(c, "pid")
        ELSE \E s \in NextTask(call[c].task) : call' = [call EXCEPT ![c].task = s]
  BY DEF Walk
<1>4. ASSUME ~ wide, c \notin stale
      PROVE  /\ call[c].mess = call[c].asked
             /\ \E i \in DOMAIN list : list[i] = call[c].task
             /\ pid = pidOf[call[c].task]
  <2>1. Walks(c)
    BY <1>1, <1>2, <1>4 DEF OnTrack
  <2>2. call[c].task \in Linked
    BY <1>2, <2>1 DEF Walks, Linked, ToSet
  <2> QED BY <1>2, <1>3, <2>1, <2>2 DEF Walks, Read
<1>5. CASE pid = call[c].mess
  <2> DEFINE r == [call[c] EXCEPT !.pc = "pid"]
  <2>1. call' = [call EXCEPT ![c] = r]
    BY <1>3, <1>5 DEF Goes
  <2>2. /\ call'[c] = r /\ r.pc = "pid" /\ r.task = call[c].task
        /\ r.asked = call[c].asked /\ r.current = call[c].current
    BY <1>1, <2>1 DEF Call
  <2> HIDE DEF r
  <2>3. ~ wide /\ c \notin stale => Stands(c)'
    BY <1>2, <1>4, <1>5, <2>2 DEF Stands
  <2>4. OnTrack(c)'
    BY <1>1, <1>2, <2>2, <2>3 DEF OnTrack, Knows, At, BeforeWalk
  <2> QED BY <1>2, <2>1, <2>4, OneOnTrack
<1>6. CASE pid # call[c].mess
  <2>1. PICK s \in NextTask(call[c].task) : call' = [call EXCEPT ![c].task = s]
    BY <1>3, <1>6
  <2> DEFINE r == [call[c] EXCEPT !.task = s]
  <2>2. call' = [call EXCEPT ![c] = r]
    BY <2>1
  <2>3. /\ call'[c] = r /\ r.pc = "walk" /\ r.task = s /\ r.mess = call[c].mess
        /\ r.asked = call[c].asked /\ r.current = call[c].current
    BY <1>1, <1>2, <2>2 DEF Call, At
  <2> HIDE DEF r
  <2>4. ASSUME ~ wide, c \notin stale PROVE Walks(c)'
    <3>1. Walks(c) /\ call[c].mess = call[c].asked /\ pid = pidOf[call[c].task]
      BY <1>1, <1>2, <1>4, <2>4 DEF OnTrack
    <3>2. call[c].task \in Linked
      BY <1>4, <2>4 DEF Linked, ToSet
    <3> DEFINE k == CHOOSE k \in DOMAIN list : list[k] = call[c].task
    <3>3. k \in DOMAIN list /\ list[k] = call[c].task
      BY <1>4, <2>4
    <3>4. s = IF k = Len(list) THEN NULL ELSE list[k + 1]
      BY <3>2 DEF NextTask
    <3> HIDE DEF k
    <3>5. list \in Seq(Structs) /\ IsInjective(list) /\ DOMAIN list = 1 .. Len(list) /\ Len(list) \in Nat
      BY <1>1 DEF Tasks
    <3>6. s # NULL => k + 1 \in DOMAIN list /\ list[k + 1] = s
      BY <3>3, <3>4, <3>5
    <3>7. ASSUME c \in present
          PROVE  \E i, j \in DOMAIN list :
                   i <= j /\ list[i] = s /\ pidOf[list[j]] = call[c].asked
      <4>1. PICK i, j \in DOMAIN list :
              i <= j /\ list[i] = call[c].task /\ pidOf[list[j]] = call[c].asked
        BY <3>1, <3>7 DEF Walks
      <4>2. i = k
        BY <3>3, <3>5, <4>1 DEF IsInjective
      <4>3. j # k
        BY <1>6, <3>1, <3>3, <4>1
      <4>4. k + 1 \in DOMAIN list /\ k + 1 <= j
        BY <3>3, <3>5, <4>1, <4>2, <4>3
      <4>5. list[k + 1] = s
        BY <3>3, <3>4, <3>5, <4>4
      <4> QED BY <4>1, <4>4, <4>5
    <3> QED BY <1>2, <2>3, <3>1, <3>6, <3>7 DEF Walks
  <2>5. OnTrack(c)'
    BY <1>1, <1>2, <2>3, <2>4 DEF OnTrack, Knows, At, BeforeWalk
  <2> QED BY <1>2, <2>2, <2>5, OneOnTrack
<1> QED BY <1>5, <1>6

\* What it reads is what it looks for, as long as the task is linked.
LEMMA ReadsWhatItLooksFor ==
  ASSUME AllOnTrack, NEW c \in Callers, call[c].pc \in {"pid", "comm", "state"},
         ~ wide, c \notin stale, NEW p \in Read(call[c].task)
  PROVE  p = call[c].asked
<1>1. Stands(c)
  BY DEF AllOnTrack, OnTrack
<1> QED BY <1>1 DEF Stands, Read, Linked, ToSet

\* The next field is right, and the ones before stay right.
LEMMA FillsOnTrack ==
  ASSUME IInv, AllOnTrack, NEW c \in Callers, NEW field, NEW next,
         \/ At(c, "pid") /\ field = "pid" /\ next = "comm"
         \/ At(c, "comm") /\ field = "comm" /\ next = "state"
         \/ At(c, "state") /\ field = "state" /\ next = "copyOut",
         NEW p \in Read(call[c].task), Fills(c, field, p, next),
         UNCHANGED <<wide, tasks, history>>
  PROVE  AllOnTrack'
<1> DEFINE i == [call[c].info EXCEPT ![field] = p]
           r == [call[c] EXCEPT !.pc = next, !.info = i]
<1>1. call \in [Callers -> Call] /\ OnTrack(c)
  BY DEF IInv, TypeOK, AllOnTrack
<1>2. call' = [call EXCEPT ![c] = r]
  BY DEF Fills
<1>3. /\ call'[c] = r /\ r.pc = next /\ r.info = i /\ r.task = call[c].task
      /\ r.asked = call[c].asked /\ r.current = call[c].current
  BY <1>1, <1>2 DEF Call
<1>4. call[c].info \in [{"pid", "comm", "state"} -> Pids \cup {NOPID}]
  BY <1>1 DEF Call, Info
<1>5. i[field] = p /\ \A g \in {"pid", "comm", "state"} \ {field} : i[g] = call[c].info[g]
  BY <1>4
<1>6. stale' = stale /\ present' = present /\ UNCHANGED <<wide, list, pidOf>>
  BY DEF history, tasks
<1> HIDE DEF i, r
<1>7. ASSUME ~ wide, c \notin stale PROVE Stands(c)' /\ Knows(c)'
  <2>1. p = call[c].asked /\ Stands(c) /\ Knows(c)
    BY <1>1, <1>7, ReadsWhatItLooksFor DEF OnTrack, At
  <2>2. Stands(c)'
    BY <1>3, <1>6, <2>1 DEF Stands
  <2>3. Knows(c)'
    BY <1>3, <1>5, <2>1 DEF Knows, At
  <2> QED BY <2>2, <2>3
<1>8. OnTrack(c)'
  BY <1>1, <1>3, <1>6, <1>7 DEF OnTrack, At, BeforeWalk
<1> QED BY <1>2, <1>6, <1>8, OneOnTrack

LEMMA FillOnTrack ==
  ASSUME IInv, AllOnTrack, NEW c \in Callers, FillPid(c) \/ FillComm(c) \/ FillState(c)
  PROVE  AllOnTrack'
<1>1. CASE FillPid(c)
  BY <1>1, FillsOnTrack DEF FillPid
<1>2. CASE FillComm(c)
  BY <1>2, FillsOnTrack DEF FillComm
<1>3. CASE FillState(c)
  BY <1>3, FillsOnTrack DEF FillState
<1> QED BY <1>1, <1>2, <1>3

LEMMA CopyOutOnTrack ==
  ASSUME IInv, AllOnTrack, NEW c \in Callers, CopyOut(c)
  PROVE  AllOnTrack'
<1>1. call \in [Callers -> Call] /\ OnTrack(c) /\ At(c, "copyOut")
  BY DEF IInv, TypeOK, AllOnTrack, CopyOut
<1>2. PICK written \in BOOLEAN :
        /\ ~ wide => written
        /\ call' = [call EXCEPT ![c].pc = "printed",
                                ![c].answer = IF written THEN call[c].info ELSE @,
                                ![c].mess = NONE, ![c].task = NULL, ![c].info = Blank]
  BY DEF CopyOut
<1> DEFINE r == [call[c] EXCEPT !.pc = "printed",
                    !.answer = IF written THEN call[c].info ELSE call[c].answer,
                    !.mess = NONE, !.task = NULL, !.info = Blank]
<1>3. call' = [call EXCEPT ![c] = r]
  BY <1>2
<1>4. /\ call'[c] = r /\ r.pc = "printed"
      /\ r.answer = IF written THEN call[c].info ELSE call[c].answer
      /\ r.asked = call[c].asked /\ r.current = call[c].current
  BY <1>1, <1>3 DEF Call
<1>5. UNCHANGED <<wide, tasks, stale, present>>
  BY DEF CopyOut, history
<1> HIDE DEF r
<1>6. ASSUME ~ wide, c \notin stale PROVE Knows(c)'
  <2>1. Knows(c) /\ r.answer = call[c].info
    BY <1>1, <1>2, <1>4, <1>6 DEF OnTrack
  <2>2. \A field \in DOMAIN Blank : call[c].info[field] = call[c].asked
    BY <1>1, <2>1 DEF Knows, Blank, At
  <2> QED BY <1>1, <1>4, <2>1, <2>2 DEF Knows, At
<1>7. OnTrack(c)'
  BY <1>1, <1>4, <1>5, <1>6 DEF OnTrack, At, BeforeWalk
<1> QED BY <1>3, <1>5, <1>7, OneOnTrack

----------------------------------------------------------------------------

LEMMA NextOnTrack == IInv /\ AllOnTrack /\ [Next]_vars => AllOnTrack'
<1> SUFFICES ASSUME IInv, AllOnTrack, [Next]_vars PROVE AllOnTrack'
  OBVIOUS
<1>1. CASE CreateKobject \/ CreateGroup \/ GroupFails \/ Unload \/ UNCHANGED vars
  <2>1. UNCHANGED <<wide, tasks, stale, present, call>>
    BY <1>1 DEF CreateKobject, CreateGroup, GroupFails, Unload, vars, history
  <2> QED BY <2>1, OthersOnTrack DEF AllOnTrack
<1>2. CASE \E p \in Pids, s \in Structs : Fork(p, s)
  BY <1>2, ForkOnTrack
<1>3. CASE \E k \in DOMAIN list : TaskExit(k)
  BY <1>3, ExitOnTrack
<1>4. CASE \E c \in Callers : \/ OpenFile(c) \/ NoDevice(c) \/ KcurrentWrite(c)
                              \/ KcurrentFails(c) \/ EnterPidWrite(c)
  BY <1>4, RequestPidOnTrack, KcurrentOnTrack
<1>5. CASE \E c \in Callers : pid_write(c)
  BY <1>5, RequestPidOnTrack, FailuresOnTrack, CopyInOnTrack, WalkOnTrack,
     FillOnTrack, CopyOutOnTrack DEF pid_write
<1> QED BY <1>1, <1>2, <1>3, <1>4, <1>5 DEF Next

(* However tasks come and go, and whatever the other callers do, a caller  *)
(* whose walk stood on no task that ended, and whose pointers fit in an    *)
(* int, gets its own pid and the data of the process it asked for, and is  *)
(* not told that there is none while there is one.                         *)
THEOREM AnswersAreRightAlways == Spec => []AnswersAreRight
<1>1. Init => AllOnTrack
  BY InitOnTrack
<1>2. IInv /\ AllOnTrack /\ [Next]_vars => AllOnTrack'
  BY NextOnTrack
<1>3. AllOnTrack => AnswersAreRight
  BY OnTrackAnswers
<1> QED BY <1>1, <1>2, <1>3, KernellabInvariant, PTL DEF Spec

=============================================================================
