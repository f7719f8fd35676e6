------------------------------ MODULE OsKernel ------------------------------
(***************************************************************************)
(* The kernel of the device, uC/OS-II: tasks, scheduler, clock tick and    *)
(* the events the tasks wait for (os_core.c, os_task.c, os_time.c,         *)
(* os_sem.c, os_mutex.c, os_q.c, os_mbox.c).                               *)
(*                                                                         *)
(* Each critical section is one step.  A service that may have made a more *)
(* urgent task ready calls OS_Sched after it, as a step of its own, and an *)
(* interrupt can come in between.  Priorities are numbers, a smaller one   *)
(* is more urgent; the bit maps of priorities are sets of them.            *)
(***************************************************************************)
EXTENDS Integers, Sequences, FiniteSetsExt

CONSTANTS
  Task,          \* the tasks, each named by the priority it is created with
  LowestPrio,    \* OS_LOWEST_PRIO, the idle task
  Pip,           \* priority the owner of the mutex inherits
  Spare,         \* a priority no task is created with
  MaxCnt,        \* 65535: the largest count of a semaphore
  QSize,         \* entries of the queue
  Msg, NoMsg,    \* messages, and the null pointer
  MaxDly,        \* bound: the longest delay or timeout, in ticks
  Apps           \* which services an application uses: sets of them

ASSUME KernelAssumption ==
  /\ LowestPrio \in Nat /\ Task \subseteq 1 .. LowestPrio - 1
  /\ Pip \in Nat /\ \A t \in Task : Pip < t
  /\ Spare \in 1 .. LowestPrio - 1 /\ Spare \notin Task
  /\ {MaxCnt, QSize, MaxDly} \subseteq Nat \ {0}
  /\ NoMsg \notin Msg

Prio == 0 .. LowestPrio
Idle == LowestPrio
Tasks == Task \cup {Idle}
Event == {"sem", "mutex", "queue", "mbox"}
NoTask == -1                  \* a null entry of OSTCBPrioTbl
Reserved == -2                \* OS_TCB_RESERVED
Available == -1               \* OS_MUTEX_AVAILABLE
StatOf == [sem |-> "SEM", mutex |-> "MUTEX", queue |-> "Q", mbox |-> "MBOX"]
PendAny == {"SEM", "MUTEX", "Q", "MBOX"}

VARIABLES
  k,             \* the kernel's tables: TCBs, OSTCBPrioTbl, ready list, events
  at,            \* where each task is: see OS_Sched
  cur, prioCur,  \* OSTCBCur, OSPrioCur
  lock,          \* OSLockNesting
  using,         \* the services of this application
  wanted,        \* history: the messages the queue should hold
  movedLate,     \* history: a task's priority changed between wake-up and return
  revived,       \* history: suspended tasks that OSMutexPost has made ready
  deferred       \* history: a service made a task due and did not call OS_Sched

lateVars == <<movedLate, revived>>
kernelVars == <<k, at, cur, prioCur, lock, using, wanted, lateVars, deferred>>

EmptyQueue == [tbl |-> [i \in 0 .. QSize - 1 |-> NoMsg], in |-> 0, out |-> 0, n |-> 0]

(* OS_TCBInit.                                                             *)
NewTcb(p) ==
  [prio |-> p, stat |-> {}, pend |-> "OK", dly |-> 0, event |-> "none",
   multi |-> {}, msg |-> NoMsg]

(* OSInit and the creation of the application's tasks and events.          *)
NewEvent(e) ==
  [type |-> e, grp |-> {}, cnt |-> IF e = "mutex" THEN Available ELSE 0,
   ptr |-> CASE e = "queue" -> EmptyQueue
             [] e = "mbox"  -> NoMsg
             [] OTHER       -> NoTask]

KernelInit ==
  /\ k = [tcb |-> [t \in Tasks |-> NewTcb(t)],
          prioTbl |-> [p \in Prio |-> IF p = Pip THEN Reserved
                                      ELSE IF p \in Tasks THEN p ELSE NoTask],
          rdy |-> Tasks,
          ev |-> [e \in Event |-> NewEvent(e)]]
  /\ at = [t \in Tasks |-> "run"]
  /\ cur = Min(Tasks) /\ prioCur = Min(Tasks)
  /\ lock = 0
  /\ using \in Apps
  /\ wanted = <<>> /\ movedLate = FALSE /\ revived = {} /\ deferred = FALSE

KernelTypeOK ==
  /\ k.tcb \in [Tasks -> [prio : Prio, stat : SUBSET (PendAny \cup {"MULTI", "SUSPEND"}),
                          pend : {"OK", "TO", "ABORT"}, dly : 0 .. MaxDly,
                          event : Event \cup {"none"}, multi : SUBSET Event,
                          msg : Msg \cup {NoMsg}]]
  /\ k.prioTbl \in [Prio -> Tasks \cup {NoTask, Reserved}]
  /\ k.rdy \subseteq Prio /\ Idle \in k.rdy
  /\ \A e \in Event : k.ev[e].type \in {e, "unused"} /\ k.ev[e].grp \subseteq Prio
  /\ k.ev.sem.cnt \in 0 .. MaxCnt
  /\ k.ev.mutex.ptr \in Tasks \cup {NoTask}
  /\ k.ev.queue.ptr \in [tbl : [0 .. QSize - 1 -> Msg \cup {NoMsg}], in : 0 .. QSize - 1,
                         out : 0 .. QSize - 1, n : 0 .. QSize]
  /\ at \in [Tasks -> {"run", "sched", "pend", "woken"}]
  /\ cur \in Tasks /\ prioCur \in Prio /\ lock \in {0, 1}

-----------------------------------------------------------------------------
(* os_core.c: the ready list and the wait lists, of tables K.              *)

MakeReady(K, t) == [K EXCEPT !.rdy = @ \cup {K.tcb[t].prio}]
NotReady(K, t) == [K EXCEPT !.rdy = @ \ {K.tcb[t].prio}]

OS_EventTaskRemoveMulti(K, t, es) ==
  [K EXCEPT !.ev = [e \in Event |->
     IF e \in es THEN [K.ev[e] EXCEPT !.grp = @ \ {K.tcb[t].prio}] ELSE K.ev[e]]]

(* Variant: the task stays in the wait list.                               *)
OS_EventTaskRemoveNot(K, t, e) == K

OS_EventTaskRemove(K, t, e) == [K EXCEPT !.ev[e].grp = @ \ {K.tcb[t].prio}]

OS_EventTaskWait(K, t, e) ==
  NotReady([K EXCEPT !.tcb[t].event = e, !.ev[e].grp = @ \cup {K.tcb[t].prio}], t)

OS_EventTaskWaitMulti(K, t, es) ==
  NotReady([K EXCEPT !.tcb[t].event = "none", !.tcb[t].multi = es,
                     !.ev = [e \in Event |->
                       IF e \in es THEN [K.ev[e] EXCEPT !.grp = @ \cup {K.tcb[t].prio}]
                       ELSE K.ev[e]]], t)

(* The most urgent task that waits for e is readied.                       *)
OS_EventTaskRdy(K, e, msg, pend) ==
  LET t == K.prioTbl[Min(K.ev[e].grp)]
      J == [K EXCEPT !.tcb[t].dly = 0, !.tcb[t].msg = msg, !.tcb[t].pend = pend,
                     !.tcb[t].stat = @ \ {StatOf[e]}]
      R == IF "SUSPEND" \in J.tcb[t].stat THEN J ELSE MakeReady(J, t)
      W == OS_EventTaskRemove(R, t, e)
  IN  IF W.tcb[t].multi = {} THEN W
      ELSE [OS_EventTaskRemoveMulti(W, t, W.tcb[t].multi) EXCEPT !.tcb[t].event = e]

(* The loop over all waiting tasks.                                        *)
AllRdy(K, e, msg, pend) ==
  LET step[n \in 0 .. Cardinality(Tasks)] ==
        IF n = 0 THEN K
        ELSE IF step[n - 1].ev[e].grp = {} THEN step[n - 1]
        ELSE OS_EventTaskRdy(step[n - 1], e, msg, pend)
  IN  step[Cardinality(Tasks)]

(* Nothing is followed after a bit has been left behind (see ListsSound).  *)
Followed == ~movedLate

(* OS_SchedNew and the context switch, if scheduling is not locked and the *)
(* most urgent priority is not the current one.                            *)
Switched(K) ==
  IF lock = 0 /\ Min(K.rdy) # prioCur
  THEN prioCur' = Min(K.rdy) /\ cur' = K.prioTbl[Min(K.rdy)]
  ELSE UNCHANGED <<prioCur, cur>>

(* A task in "sched" is about to call OS_Sched and go on, one in "pend" is *)
(* about to call it and wait for its event; it will be "woken".            *)
OS_Sched ==
  /\ Followed /\ at[cur] \in {"sched", "pend"}
  /\ at' = [at EXCEPT ![cur] = IF @ = "sched" THEN "run" ELSE "woken"]
  /\ Switched(k)
  /\ deferred' = (deferred /\ lock > 0)
  /\ UNCHANGED <<k, lock, using, wanted, lateVars>>

(* An interrupt's OSIntExit.                                               *)
OSIntExit == Switched(k') /\ deferred' = (deferred /\ lock > 0)

(* OSTimeTick on one task.  A timeout is marked, and the task made ready,  *)
(* but it stays in the wait list until it runs.                            *)
Expired(c) ==
  IF c.stat \cap PendAny # {} THEN [c EXCEPT !.stat = @ \ PendAny, !.pend = "TO", !.dly = 0]
  ELSE [c EXCEPT !.pend = "OK", !.dly = 0]

OSTimeTick ==
  LET due == {t \in Task : k.tcb[t].dly = 1}
      tcb == [t \in Tasks |-> IF t \in due THEN Expired(k.tcb[t])
                              ELSE IF k.tcb[t].dly > 0 THEN [k.tcb[t] EXCEPT !.dly = @ - 1]
                              ELSE k.tcb[t]]
  IN  /\ Followed /\ \E t \in Task : k.tcb[t].dly > 0
      /\ k' = [k EXCEPT !.tcb = tcb,
                        !.rdy = @ \cup {tcb[t].prio : t \in {u \in due :
                                                       "SUSPEND" \notin tcb[u].stat}}]
      /\ OSIntExit
      /\ UNCHANGED <<at, lock, using, wanted, lateVars>>

-----------------------------------------------------------------------------
(* Calls of the running task.                                              *)

Calls(service) == Followed /\ service \in using /\ cur \in Task /\ at[cur] = "run"
Is(e) == k.ev[e].type = e
Goes(l) == at' = [at EXCEPT ![cur] = l]
Timeouts == 0 .. MaxDly
SchedKept == UNCHANGED <<cur, prioCur, lock, using, deferred>>

(* The task waits for event e, of tables K, for n ticks or, if 0, for ever.*)
Waits(K, e, n) ==
  /\ k' = OS_EventTaskWait([K EXCEPT !.tcb[cur].stat = @ \cup {StatOf[e]},
                                     !.tcb[cur].pend = "OK", !.tcb[cur].dly = n], cur, e)
  /\ Goes("pend")

(* The rest of OSSemPend, OSMutexPend, OSQPend, OSMboxPend and             *)
(* OSEventPendMulti.                                                       *)
Cleared(K) ==
  [K EXCEPT !.tcb[cur].stat = {}, !.tcb[cur].pend = "OK", !.tcb[cur].event = "none",
            !.tcb[cur].multi = {}, !.tcb[cur].msg = NoMsg]

PendReturns ==
  /\ Followed /\ at[cur] = "woken" /\ k.tcb[cur].multi = {}
  /\ k' = Cleared(IF k.tcb[cur].pend = "TO"
                  THEN OS_EventTaskRemove(k, cur, k.tcb[cur].event) ELSE k)
  /\ Goes("run")
  /\ SchedKept /\ UNCHANGED <<wanted, lateVars>>

PendMultiReturns ==
  /\ Followed /\ at[cur] = "woken" /\ k.tcb[cur].multi # {}
  /\ k' = Cleared(IF k.tcb[cur].pend = "TO" \/ k.tcb[cur].event = "none"
                  THEN OS_EventTaskRemoveMulti(k, cur, k.tcb[cur].multi) ELSE k)
  /\ Goes("run")
  /\ SchedKept /\ UNCHANGED <<wanted, lateVars>>

OSSchedLock ==
  /\ Calls("lock") /\ lock = 0
  /\ lock' = 1
  /\ UNCHANGED <<k, at, cur, prioCur, using, wanted, lateVars, deferred>>

OSSchedUnlock ==
  /\ Calls("lock") /\ lock = 1
  /\ lock' = 0
  /\ Goes("sched")
  /\ UNCHANGED <<k, cur, prioCur, using, wanted, lateVars, deferred>>

-----------------------------------------------------------------------------
(* os_time.c                                                               *)

OSTimeDly ==
  /\ Calls("dly") /\ lock = 0
  /\ \E n \in 1 .. MaxDly : k' = [NotReady(k, cur) EXCEPT !.tcb[cur].dly = n]
  /\ Goes("sched")
  /\ SchedKept /\ UNCHANGED <<wanted, lateVars>>

OSTimeDlyResume ==
  /\ Calls("suspend")
  /\ \E p \in Prio :
       LET t == k.prioTbl[p]
       IN  /\ t \in Task /\ k.tcb[t].dly > 0
           /\ LET K == [k EXCEPT !.tcb[t] = Expired(@)]
              IN  IF "SUSPEND" \in K.tcb[t].stat
                  THEN k' = K /\ UNCHANGED at
                  ELSE k' = MakeReady(K, t) /\ Goes("sched")
  /\ SchedKept /\ UNCHANGED <<wanted, lateVars>>

-----------------------------------------------------------------------------
(* What semaphores, queues and mailboxes have in common: something may be  *)
(* there, which is taken out or put in.  The queue is a ring.              *)

AdvancedFar(i) == i + 1           \* variant: the pointer does not wrap
Advanced(i) == IF i + 1 = QSize THEN 0 ELSE i + 1

Present(K, e) ==
  CASE e = "sem"   -> K.ev.sem.cnt > 0
    [] e = "queue" -> K.ev.queue.ptr.n > 0
    [] e = "mbox"  -> K.ev.mbox.ptr # NoMsg

TakenFrom(K, e) ==
  CASE e = "sem"   -> [K EXCEPT !.ev.sem.cnt = @ - 1]
    [] e = "queue" -> [K EXCEPT !.ev.queue.ptr.out = Advanced(@), !.ev.queue.ptr.n = @ - 1]
    [] e = "mbox"  -> [K EXCEPT !.ev.mbox.ptr = NoMsg]

QFull(q) == q.n >= QSize
PutBack(q, m) == [q EXCEPT !.tbl[q.in] = m, !.in = Advanced(@), !.n = @ + 1]
PutFront(q, m) ==
  LET o == IF q.out = 0 THEN QSize - 1 ELSE q.out - 1
  IN  [q EXCEPT !.tbl[o] = m, !.out = o, !.n = @ + 1]

Stored(K, e, m) ==
  CASE e = "sem"   -> IF K.ev.sem.cnt < MaxCnt THEN [K EXCEPT !.ev.sem.cnt = @ + 1] ELSE K
    [] e = "queue" -> IF QFull(K.ev.queue.ptr) THEN K
                      ELSE [K EXCEPT !.ev.queue.ptr = PutBack(@, m)]
    [] e = "mbox"  -> IF K.ev.mbox.ptr # NoMsg THEN K ELSE [K EXCEPT !.ev.mbox.ptr = m]

(* A post stores nothing while a task waits: the task gets it.             *)
Posted(K, e, m) ==
  IF K.ev[e].grp # {} THEN OS_EventTaskRdy(K, e, m, "OK") ELSE Stored(K, e, m)

TakesWanted(e) == wanted' = IF e = "queue" THEN Tail(wanted) ELSE wanted
AddsWanted(e, m) ==
  wanted' = IF e = "queue" /\ k.ev.queue.grp = {} /\ ~QFull(k.ev.queue.ptr)
            THEN Append(wanted, m) ELSE wanted

Messages(e) == IF e = "sem" THEN {NoMsg} ELSE Msg

Pends(e) ==
  /\ Calls(e) /\ Is(e) /\ lock = 0
  /\ IF Present(k, e)
     THEN k' = TakenFrom(k, e) /\ TakesWanted(e) /\ UNCHANGED at
     ELSE (\E n \in Timeouts : Waits(k, e, n)) /\ UNCHANGED wanted
  /\ SchedKept /\ UNCHANGED lateVars

Accepts(e) ==
  /\ Calls(e) /\ Is(e) /\ Present(k, e)
  /\ k' = TakenFrom(k, e) /\ TakesWanted(e)
  /\ SchedKept /\ UNCHANGED <<at, lateVars>>

Posts(e) ==
  /\ Calls(e) /\ Is(e)
  /\ \E m \in Messages(e) : k' = Posted(k, e, m) /\ AddsWanted(e, m)
  /\ Goes(IF k.ev[e].grp # {} THEN "sched" ELSE "run")
  /\ SchedKept /\ UNCHANGED lateVars

PendAborts(e) ==
  /\ Calls(e) /\ "abort" \in using /\ Is(e) /\ k.ev[e].grp # {}
  /\ \/ k' = OS_EventTaskRdy(k, e, NoMsg, "ABORT")
     \/ k' = AllRdy(k, e, NoMsg, "ABORT")
  /\ Goes("sched")
  /\ SchedKept /\ UNCHANGED <<wanted, lateVars>>

(* A waiting task is released as if it had got what it waits for.          *)
Dels(e) ==
  LET gone == [NewEvent(e) EXCEPT !.type = "unused"]
  IN  /\ Calls(e) /\ "del" \in using /\ Is(e)
      /\ \/ /\ k.ev[e].grp = {}                         \* OS_DEL_NO_PEND
            /\ k' = [k EXCEPT !.ev[e] = gone]
            /\ UNCHANGED at
         \/ /\ k' = [AllRdy(k, e, NoMsg, "OK") EXCEPT !.ev[e] = gone]   \* OS_DEL_ALWAYS
            /\ Goes(IF k.ev[e].grp # {} THEN "sched" ELSE "run")
      /\ wanted' = IF e = "queue" THEN <<>> ELSE wanted
      /\ SchedKept /\ UNCHANGED lateVars

Creates(e) ==
  /\ Calls(e) /\ k.ev[e].type = "unused"
  /\ k' = [k EXCEPT !.ev[e] = NewEvent(e)]
  /\ SchedKept /\ UNCHANGED <<at, wanted, lateVars>>

(* A post from an interrupt handler, whatever task it interrupts.          *)
IsrPost ==
  /\ Followed /\ "isr" \in using
  /\ \E e \in using \cap {"sem", "queue", "mbox"} :
       /\ Is(e)
       /\ \E m \in Messages(e) : k' = Posted(k, e, m) /\ AddsWanted(e, m)
  /\ OSIntExit
  /\ UNCHANGED <<at, lock, using, lateVars>>

-----------------------------------------------------------------------------
(* os_sem.c                                                                *)

OSSemPend == Pends("sem")
OSSemAccept == Accepts("sem")
OSSemPost == Posts("sem")
OSSemPendAbort == PendAborts("sem")
OSSemDel == Dels("sem")
OSSemCreate == Creates("sem")

OSSemSetAlways ==                 \* variant: set even if tasks wait
  /\ Calls("sem") /\ "abort" \in using /\ Is("sem")
  /\ \E n \in 0 .. MaxCnt : k' = [k EXCEPT !.ev.sem.cnt = n]
  /\ SchedKept /\ UNCHANGED <<at, wanted, lateVars>>

OSSemSet ==
  /\ Calls("sem") /\ "abort" \in using /\ Is("sem")
  /\ k.ev.sem.cnt > 0 \/ k.ev.sem.grp = {}
  /\ \E n \in 0 .. MaxCnt : k' = [k EXCEPT !.ev.sem.cnt = n]
  /\ SchedKept /\ UNCHANGED <<at, wanted, lateVars>>

-----------------------------------------------------------------------------
(* os_q.c, os_mbox.c                                                       *)

OSQPend == Pends("queue")
OSQAccept == Accepts("queue")
OSQPost == Posts("queue")
OSQPendAbort == PendAborts("queue")
OSQDel == Dels("queue")
OSQCreate == Creates("queue")

OSMboxPend == Pends("mbox")
OSMboxAccept == Accepts("mbox")
OSMboxPost == Posts("mbox")
OSMboxPendAbort == PendAborts("mbox")
OSMboxDel == Dels("mbox")
OSMboxCreate == Creates("mbox")

(* With OS_POST_OPT_BROADCAST all waiting tasks get the message, with      *)
(* OS_POST_OPT_NO_SCHED OS_Sched is left to a later service.               *)
PostsOpt(e) ==
  /\ Calls(e) /\ "opt" \in using /\ Is(e) /\ k.ev[e].grp # {}
  /\ \E m \in Msg : k' \in {OS_EventTaskRdy(k, e, m, "OK"), AllRdy(k, e, m, "OK")}
  /\ \/ Goes("sched") /\ UNCHANGED deferred
     \/ deferred' = TRUE /\ UNCHANGED at
  /\ UNCHANGED <<cur, prioCur, lock, using, wanted, lateVars>>

OSMboxPostOpt == PostsOpt("mbox")

(* OSQPostFront, and OSQPostOpt with OS_POST_OPT_FRONT.                    *)
OSQPostFront ==
  /\ Calls("queue") /\ "opt" \in using /\ Is("queue")
  /\ k.ev.queue.grp = {} /\ ~QFull(k.ev.queue.ptr)
  /\ \E m \in Msg : /\ k' = [k EXCEPT !.ev.queue.ptr = PutFront(@, m)]
                    /\ wanted' = <<m>> \o wanted
  /\ SchedKept /\ UNCHANGED <<at, lateVars>>

OSQPostOpt == PostsOpt("queue")

OSQFlush ==
  /\ Calls("queue") /\ "opt" \in using /\ Is("queue")
  /\ k' = [k EXCEPT !.ev.queue.ptr = [@ EXCEPT !.in = 0, !.out = 0, !.n = 0]]
  /\ wanted' = <<>>
  /\ SchedKept /\ UNCHANGED <<at, lateVars>>

(* OSEventPendMulti on an array of a semaphore, a queue and a mailbox.     *)
OSEventPendMulti ==
  LET es == {"sem", "queue", "mbox"}
      there == {e \in es : Present(k, e)}
      after == FoldSet(LAMBDA e, K : TakenFrom(K, e), k, there)
  IN  /\ Calls("multi") /\ lock = 0 /\ \A e \in es : Is(e)
      /\ IF there # {}
         THEN /\ k' = after
              /\ wanted' = IF "queue" \in there THEN Tail(wanted) ELSE wanted
              /\ UNCHANGED at
         ELSE /\ \E n \in Timeouts :
                   k' = OS_EventTaskWaitMulti(
                          [k EXCEPT !.tcb[cur].stat = @ \cup {StatOf[e] : e \in es} \cup {"MULTI"},
                                    !.tcb[cur].pend = "OK", !.tcb[cur].dly = n], cur, es)
              /\ Goes("pend") /\ UNCHANGED wanted
      /\ SchedKept /\ UNCHANGED lateVars

-----------------------------------------------------------------------------
(* os_mutex.c.  An application does not pend on a mutex it owns.           *)

Owned(K, t) == [K EXCEPT !.ev.mutex.cnt = K.tcb[t].prio, !.ev.mutex.ptr = t]

(* Task t's bits in the ready list, or else in the list of its event, move *)
(* to priority p.                                                          *)
Moved(K, t, p) ==
  LET old == K.tcb[t].prio
      e == K.tcb[t].event
      J == IF old \in K.rdy THEN [K EXCEPT !.rdy = (@ \ {old}) \cup {p}]
           ELSE IF e # "none" THEN [K EXCEPT !.ev[e].grp = (@ \ {old}) \cup {p}]
           ELSE K
  IN  [J EXCEPT !.tcb[t].prio = p, !.prioTbl[p] = t]

(* The event a task was waiting for has come, or its time is over, and the *)
(* task has not run since.                                                 *)
WokenLate(t) == k.tcb[t].event # "none" /\ k.tcb[t].stat \cap PendAny = {}

(* The owner is raised if it is less urgent than the caller.               *)
RaisesOther ==                    \* variant: if it is more urgent
  k.ev.mutex.ptr # NoTask /\ k.tcb[k.ev.mutex.ptr].prio > Pip /\ k.ev.mutex.cnt < k.tcb[cur].prio

Raises ==
  k.ev.mutex.ptr # NoTask /\ k.tcb[k.ev.mutex.ptr].prio > Pip /\ k.ev.mutex.cnt > k.tcb[cur].prio

OSMutexPend ==
  LET m == k.ev.mutex
  IN  /\ Calls("mutex") /\ Is("mutex") /\ lock = 0 /\ m.ptr # cur
      /\ IF m.cnt = Available
         THEN k' = Owned(k, cur) /\ UNCHANGED <<at, lateVars>>
         ELSE /\ \E n \in Timeouts :
                   Waits(IF Raises THEN Moved(k, m.ptr, Pip) ELSE k, "mutex", n)
              /\ movedLate' = (movedLate \/ (Raises /\ WokenLate(m.ptr)))
              /\ UNCHANGED revived
      /\ SchedKept /\ UNCHANGED wanted

OSMutexAccept ==
  /\ Calls("mutex") /\ Is("mutex") /\ k.ev.mutex.cnt = Available
  /\ k' = Owned(k, cur)
  /\ SchedKept /\ UNCHANGED <<at, wanted, lateVars>>

(* OSMutex_RdyAtPrio; it also sets OSPrioCur.                              *)
RdyAtPrio(K, t, p) ==
  [K EXCEPT !.rdy = (@ \ {K.tcb[t].prio}) \cup {p}, !.tcb[t].prio = p, !.prioTbl[p] = t]

(* The owner's priority is restored, if it was raised.                     *)
Restored(K) ==
  LET m == K.ev.mutex
  IN  IF m.ptr # NoTask /\ K.tcb[m.ptr].prio = Pip THEN RdyAtPrio(K, m.ptr, m.cnt) ELSE K

Lowers == k.ev.mutex.ptr # NoTask /\ k.tcb[k.ev.mutex.ptr].prio = Pip

HandedOver(K) ==
  LET p == Min(K.ev.mutex.grp)
      R == OS_EventTaskRdy(K, "mutex", NoMsg, "OK")
  IN  [R EXCEPT !.ev.mutex.cnt = p, !.ev.mutex.ptr = R.prioTbl[p]]

(* Without a waiting task OS_Sched is not called, even if the priority has *)
(* just been lowered.  The caller is made ready, suspended or not.         *)
OSMutexPost ==
  LET K == [Restored(k) EXCEPT !.prioTbl[Pip] = Reserved]
      waiting == k.ev.mutex.grp # {}
  IN  /\ Calls("mutex") /\ Is("mutex") /\ k.ev.mutex.ptr = cur
      /\ k' = IF waiting THEN HandedOver(K)
              ELSE [K EXCEPT !.ev.mutex.cnt = Available, !.ev.mutex.ptr = NoTask]
      /\ prioCur' = IF Lowers THEN k.ev.mutex.cnt ELSE prioCur
      /\ Goes(IF waiting THEN "sched" ELSE "run")
      /\ deferred' = (deferred \/ (Lowers /\ ~waiting))
      /\ revived' = IF Lowers /\ "SUSPEND" \in k.tcb[cur].stat THEN revived \cup {cur} ELSE revived
      /\ UNCHANGED <<cur, lock, using, wanted, movedLate>>

(* OSMutexDel.  Its notes ask that the owner be ready; a mutex whose owner *)
(* is still raised is not deleted with OS_DEL_NO_PEND.                     *)
OSMutexDel ==
  LET m == k.ev.mutex
      waiting == m.grp # {}
      gone(K) == [K EXCEPT !.prioTbl[Pip] = NoTask,
                           !.ev.mutex = [NewEvent("mutex") EXCEPT !.type = "unused"]]
  IN  /\ Calls("mutex") /\ "del" \in using /\ Is("mutex")
      /\ \/ /\ ~waiting /\ ~Lowers                      \* OS_DEL_NO_PEND
            /\ k' = gone(k)
            /\ UNCHANGED <<at, prioCur, deferred>>
         \/ /\ m.ptr # NoTask => k.tcb[m.ptr].prio \in k.rdy   \* OS_DEL_ALWAYS
            /\ k' = gone(AllRdy(Restored(k), "mutex", NoMsg, "OK"))
            /\ prioCur' = IF Lowers THEN m.cnt ELSE prioCur
            /\ Goes(IF waiting THEN "sched" ELSE "run")
            /\ deferred' = (deferred \/ (Lowers /\ ~waiting))
      /\ UNCHANGED <<cur, lock, using, wanted, lateVars>>

OSMutexCreate ==
  /\ Calls("mutex") /\ k.ev.mutex.type = "unused" /\ k.prioTbl[Pip] = NoTask
  /\ k' = [k EXCEPT !.ev.mutex = NewEvent("mutex"), !.prioTbl[Pip] = Reserved]
  /\ SchedKept /\ UNCHANGED <<at, wanted, lateVars>>

-----------------------------------------------------------------------------
(* os_task.c                                                               *)

(* The caller is recognised by its priority: one that owns the mutex, has  *)
(* been raised and gives its original priority suspends itself and goes on.*)
OSTaskSuspend ==
  /\ Calls("suspend")
  /\ \E p \in Prio :
       LET t == k.prioTbl[p]
           self == p = k.tcb[cur].prio
       IN  /\ t \in Task
           /\ k' = [NotReady(k, t) EXCEPT !.tcb[t].stat = @ \cup {"SUSPEND"}]
           /\ Goes(IF self THEN "sched" ELSE "run")
           /\ deferred' = (deferred \/ (t = cur /\ ~self))
  /\ UNCHANGED <<cur, prioCur, lock, using, wanted, lateVars>>

OSTaskResume ==
  /\ Calls("suspend")
  /\ \E p \in Prio :
       LET t == k.prioTbl[p]
           K == [k EXCEPT !.tcb[t].stat = @ \ {"SUSPEND"}]
           free == K.tcb[t].stat = {} /\ K.tcb[t].dly = 0
       IN  /\ t \in Task /\ "SUSPEND" \in k.tcb[t].stat
           /\ k' = IF free THEN MakeReady(K, t) ELSE K
           /\ Goes(IF free THEN "sched" ELSE "run")
  /\ SchedKept /\ UNCHANGED <<wanted, lateVars>>

(* The task's bit in the list of its event moves whether or not the event  *)
(* has come in the meantime.                                               *)
OSTaskChangePrio ==
  /\ Calls("task")
  /\ \E old \in Prio, new \in Task \cup {Spare} :
       LET t == k.prioTbl[old]
           es == IF k.tcb[t].event = "none" THEN k.tcb[t].multi
                 ELSE k.tcb[t].multi \cup {k.tcb[t].event}
       IN  /\ k.prioTbl[new] = NoTask /\ t \in Task
           /\ k' = [k EXCEPT !.prioTbl = [@ EXCEPT ![old] = NoTask, ![new] = t],
                             !.rdy = IF old \in @ THEN (@ \ {old}) \cup {new} ELSE @,
                             !.ev = [e \in Event |->
                                IF e \in es THEN [@[e] EXCEPT !.grp = (@ \ {old}) \cup {new}]
                                ELSE @[e]],
                             !.tcb[t].prio = new]
           /\ movedLate' = (movedLate \/ WokenLate(t))
  /\ Goes("sched")
  /\ SchedKept /\ UNCHANGED <<wanted, revived>>

(* OSTaskCreate.                                                           *)
OSTaskCreate ==
  /\ Calls("task")
  /\ \E t \in Task :
       /\ k.prioTbl[t] = NoTask /\ \A p \in Prio : k.prioTbl[p] # t
       /\ k' = MakeReady([k EXCEPT !.tcb[t] = NewTcb(t), !.prioTbl[t] = t], t)
       /\ at' = [at EXCEPT ![t] = "run", ![cur] = "sched"]
  /\ SchedKept /\ UNCHANGED <<wanted, lateVars>>

(* OSTaskDel; while it opens an interrupt window scheduling is locked and  *)
(* nothing can wake the task.                                              *)
OSTaskDel ==
  /\ Calls("task")
  /\ \E p \in Prio :
       LET t == k.prioTbl[p]
           J == IF t \in Task /\ k.tcb[t].event # "none"
                THEN OS_EventTaskRemove(k, t, k.tcb[t].event) ELSE k
           K == IF t \in Task THEN OS_EventTaskRemoveMulti(J, t, k.tcb[t].multi) ELSE J
       IN  /\ t \in Task
           /\ k' = [NotReady(K, t) EXCEPT !.tcb[t].dly = 0, !.tcb[t].stat = {},
                                          !.tcb[t].pend = "OK", !.prioTbl[p] = NoTask]
  /\ Goes("sched")
  /\ SchedKept /\ UNCHANGED <<wanted, lateVars>>

-----------------------------------------------------------------------------
SemNext == OSSemPend \/ OSSemAccept \/ OSSemPost \/ OSSemPendAbort \/ OSSemDel \/ OSSemCreate \/ OSSemSet
QNext == OSQPend \/ OSQAccept \/ OSQPost \/ OSQPendAbort \/ OSQDel \/ OSQCreate \/ OSQPostFront
         \/ OSQPostOpt \/ OSQFlush
MboxNext == OSMboxPend \/ OSMboxAccept \/ OSMboxPost \/ OSMboxPendAbort \/ OSMboxDel \/ OSMboxCreate
            \/ OSMboxPostOpt
MutexNext == OSMutexPend \/ OSMutexAccept \/ OSMutexPost \/ OSMutexDel \/ OSMutexCreate
TaskNext == OSTaskSuspend \/ OSTaskResume \/ OSTaskChangePrio \/ OSTaskCreate \/ OSTaskDel

KernelNext ==
  \/ OS_Sched \/ OSTimeTick \/ IsrPost
  \/ PendReturns \/ PendMultiReturns \/ OSEventPendMulti
  \/ OSSchedLock \/ OSSchedUnlock \/ OSTimeDly \/ OSTimeDlyResume
  \/ SemNext \/ QNext \/ MboxNext \/ MutexNext \/ TaskNext

KernelSpec == KernelInit /\ [][KernelNext]_kernelVars

-----------------------------------------------------------------------------
(* Properties.                                                             *)

Exists(t) == \E p \in Prio : k.prioTbl[p] = t
InList(t) == {e \in Event : k.tcb[t].prio \in k.ev[e].grp}
Blocked(t) == InList(t) # {} /\ k.tcb[t].pend = "OK"

(* A task can run exactly if nothing keeps it: no delay, no suspension, no *)
(* event it waits for.  Left out are the tasks that OSMutexPost has made   *)
(* ready although they had suspended themselves (see OSTaskSuspend).       *)
ReadyIffFree ==
  \A t \in {u \in Tasks \ revived : Exists(u)} :
    k.tcb[t].prio \in k.rdy <=>
      k.tcb[t].dly = 0 /\ "SUSPEND" \notin k.tcb[t].stat /\ ~Blocked(t)

(* Every bit of the ready list and of a wait list stands for the task that *)
(* now has the priority, and in a wait list for one that waits there.      *)
BitsLive ==
  /\ \A p \in k.rdy : k.prioTbl[p] \in Tasks /\ k.tcb[k.prioTbl[p]].prio = p
  /\ \A e \in Event : \A p \in k.ev[e].grp :
       LET t == k.prioTbl[p]
       IN  t \in Task /\ k.tcb[t].prio = p /\ e \in {k.tcb[t].event} \cup k.tcb[t].multi

(* The lists tell the truth across timeouts that race posts, deletions,    *)
(* suspensions and changes of priority -- unless a priority was changed    *)
(* after a task's wake-up and before it ran, when the kernel moves one of  *)
(* its bits and forgets the other.                                         *)
ListsSound == movedLate \/ (ReadyIffFree /\ BitsLive)

(* Whenever OS_Sched is not about to be called, the task that runs is the  *)
(* most urgent one that is ready, unless a service left the call out:      *)
(* OS_POST_OPT_NO_SCHED, OSMutexPost when nobody waits, and OSTaskSuspend  *)
(* when it does not recognise its caller.                                  *)
HighestRuns ==
  lock = 0 /\ at[cur] \notin {"sched", "pend"} /\ ~deferred /\ ~movedLate
    => prioCur = Min(k.rdy) /\ cur = k.prioTbl[prioCur]

(* The priority inheritance of the mutex: only its owner has the raised    *)
(* priority, everyone else has its own back, and no task waits for an      *)
(* owner that is less urgent than itself and not raised.                   *)
PriorityInherited ==
  LET m == k.ev.mutex
  IN  movedLate \/
     (/\ \A t \in {u \in Task : Exists(u)} :
           IF k.tcb[t].prio = Pip THEN m.ptr = t ELSE k.tcb[t].prio \in {t} \cup Task \cup {Spare}
      /\ \A t \in {u \in Task : Exists(u)} :
           "mutex" \in InList(t) /\ k.tcb[t].prio < m.cnt => k.tcb[m.ptr].prio = Pip
      /\ m.ptr # NoTask /\ k.tcb[m.ptr].prio # Pip => k.tcb[m.ptr].prio = m.cnt)

(* The scheduler and the mutex together: the most urgent ready task runs,  *)
(* with the priorities that the owner of the mutex inherits and gives back *)
(* (OS_Sched, OSIntExit, OSMutexPend, OSMutexPost, OSMutexDel).            *)
ScheduleSound == HighestRuns /\ PriorityInherited

QContents ==
  LET q == k.ev.queue.ptr
  IN  [i \in 1 .. q.n |-> q.tbl[(q.out + i - 1) % QSize]]

(* No task waits for something that is there: a post is never stored past  *)
(* a waiting task, whatever timeouts, aborts and deletions come between;   *)
(* and the ring of the queue holds the messages in the order asked for.    *)
NothingMissed ==
  /\ \A e \in {"sem", "queue", "mbox"} : Present(k, e) /\ ~movedLate => k.ev[e].grp = {}
  /\ k.ev.mutex.cnt = Available => k.ev.mutex.grp = {}
  /\ QContents = wanted
=============================================================================
