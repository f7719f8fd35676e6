---------------------------- MODULE TcpipThread ----------------------------
(***************************************************************************)
(* The thread of the stack: api/tcpip.c and core/timers.c over the         *)
(* mailboxes of port/sys_arch.c.  It waits for a message no longer than    *)
(* the next timeout is due, and takes from that timeout the time it        *)
(* waited.  The receiving task of the driver passes packets to it, other   *)
(* tasks pass calls and wait for their end; the system management task     *)
(* sets and cancels the tick of the DHCP server in the list of timeouts    *)
(* itself, while the thread waits or works.  Nothing keeps that task out   *)
(* of an operation of the thread on the list; TimeoutCells has the         *)
(* operations statement by statement, here a list torn that way may be     *)
(* anything.                                                               *)
(***************************************************************************)
EXTENDS Integers, Sequences, FiniteSetsExt

CONSTANTS
  Task,          \* tasks that call the stack
  CyclicTimers,  \* arp_timer, dns_timer... that set themselves again, in the order they start
  Interval,      \* time of each handler, in milliseconds
  MaxInterval,   \* the longest of them
  TimeoutPool,   \* MEMP_NUM_SYS_TIMEOUT
  InpktPool,     \* MEMP_NUM_TCPIP_MSG_INPKT
  ApiPool,       \* MEMP_NUM_TCPIP_MSG_API
  MboxSize,      \* TCPIP_MBOX_SIZE
  PostTries,     \* 10, the times sys_mbox_post tries
  MsPerSec,      \* 1000
  TicksPerSec,   \* OS_TICKS_PER_SEC
  WordMod,       \* 2^32
  MaxPend,       \* 65535, the longest wait of OSQPend
  ClockStart,    \* values of the tick counter at which a fetch may begin
  MaxDelay,      \* bound: ticks in a fetch before and after the wait
  MaxTick,       \* bound: timeouts of the DHCP server in the list
  TornLists      \* bound: what may be left of the list when an operation on it is torn

Cyclic == {CyclicTimers[i] : i \in DOMAIN CyclicTimers}
Handlers == Cyclic \cup {"tcp", "tick"}

ASSUME TcpipThreadAssumption ==
  /\ CyclicTimers \in Seq(STRING) /\ {"tcp", "tick", "none"} \cap Cyclic = {}
  /\ {"inpkt", "callback", "none"} \cap Task = {}
  /\ \A i, j \in DOMAIN CyclicTimers : CyclicTimers[i] = CyclicTimers[j] => i = j
  /\ MaxInterval \in Nat /\ Interval \in [Handlers -> 1 .. MaxInterval]
  /\ {MboxSize, PostTries, MsPerSec, TicksPerSec, WordMod, MaxPend} \subseteq Nat \ {0}
  /\ ClockStart \subseteq 0 .. WordMod - 1
  /\ {InpktPool, ApiPool, MaxDelay, MaxTick, TimeoutPool} \subseteq Nat
  /\ TornLists \subseteq Seq([h : Handlers, time : Nat])

(* MEMP_NUM_SYS_TIMEOUT has room for the cyclic timeouts, the TCP timer    *)
(* and the ticks in the list, and one that is set while its handler runs.  *)
ASSUME TimeoutPoolAssumption == Len(CyclicTimers) + MaxTick + 2 <= TimeoutPool

VARIABLES
  next_timeout,   \* the list of timeouts: each with the time after the one before it
  tcpTimer,       \* tcpip_tcp_timer_active
  pcbs,           \* whether there are active or waiting TCP connections
  OSTime,         \* the tick counter while a fetch looks at it, 0 otherwise
  mbox,
  thread,         \* the thread: where it is, its message, handler and wait
  caller,         \* the tasks: where each is and how often it tried to post
  inpkts, apis,   \* what is left of the pools of messages
  lost,           \* history: the tasks whose message was never posted
  torn            \* history: the management task came into an operation on the list

timerVars == <<next_timeout, tcpTimer, pcbs>>
threadVars == <<timerVars, OSTime, mbox, thread, caller, inpkts, apis, lost, torn>>

Message == Task \cup {"inpkt", "callback"}
Working(where, m, h) == [at |-> where, msg |-> m, h |-> h, started |-> 0, dly |-> 0]

ThreadTypeOK ==
  /\ next_timeout \in Seq([h : Handlers, time : Nat])
  /\ torn \in BOOLEAN
  /\ torn \/ next_timeout \in Seq([h : Handlers, time : 0 .. MaxInterval])
  /\ tcpTimer \in BOOLEAN /\ pcbs \in BOOLEAN /\ OSTime \in 0 .. WordMod - 1
  /\ mbox \in Seq(Message)
  /\ thread \in [at : {"again", "pend", "wait", "got", "handle", "expire", "call"},
                 msg : Message \cup {"none"}, h : Handlers \cup {"none"},
                 started : 0 .. WordMod - 1, dly : 0 .. MaxPend]
  /\ caller \in [Task -> [at : {"idle", "post", "wait"}, tries : 0 .. PostTries]]
  /\ inpkts \in 0 .. InpktPool /\ apis \in 0 .. ApiPool
  /\ lost \subseteq Task

-----------------------------------------------------------------------------
(* The list of timeouts.                                                   *)

(* When the timeout at place i is due.                                     *)
Due(s, i) ==
  LET sum[k \in 0 .. Len(s)] == IF k = 0 THEN 0 ELSE sum[k - 1] + s[k].time
  IN  sum[i]

(* Where the search for the place of a new timeout stops.                  *)
Place(s, ms) == Min({k \in 0 .. Len(s) : k = Len(s) \/ Due(s, k + 1) > ms})

Later(s, ms) == IF s = <<>> THEN s ELSE [s EXCEPT ![1].time = @ + ms]

(* With the pool exhausted nothing is set; the assertion is compiled out.  *)
sys_timeout(s, h, ms) ==
  LET n == Place(s, ms)
      time == ms - Due(s, n)
  IN  IF Len(s) = TimeoutPool THEN s
      ELSE SubSeq(s, 1, n) \o <<[h |-> h, time |-> time]>>
           \o Later(SubSeq(s, n + 1, Len(s)), -time)

sys_untimeoutKeepsNext(s, h) ==  \* variant: the next one is not given the time of the one taken out
  LET found == {i \in DOMAIN s : s[i].h = h}
      i == Min(found)
  IN  IF found = {} THEN s ELSE SubSeq(s, 1, i - 1) \o SubSeq(s, i + 1, Len(s))

sys_untimeout(s, h) ==
  LET found == {i \in DOMAIN s : s[i].h = h}
      i == Min(found)
  IN  IF found = {} THEN s
      ELSE SubSeq(s, 1, i - 1) \o Later(SubSeq(s, i + 1, Len(s)), s[i].time)

sys_timeouts_init ==
  LET set[n \in 0 .. Len(CyclicTimers)] ==
        IF n = 0 THEN <<>>
        ELSE sys_timeout(set[n - 1], CyclicTimers[n], Interval[CyclicTimers[n]])
  IN  set[Len(CyclicTimers)]

ThreadInit ==
  /\ next_timeout = sys_timeouts_init
  /\ tcpTimer = FALSE /\ pcbs = FALSE /\ OSTime = 0
  /\ mbox = <<>> /\ thread = Working("again", "none", "none")
  /\ caller = [t \in Task |-> [at |-> "idle", tries |-> 0]]
  /\ inpkts = InpktPool /\ apis = ApiPool /\ lost = {} /\ torn = FALSE

-----------------------------------------------------------------------------
(* The mailbox.                                                            *)

MboxFull == thread.at # "wait" /\ Len(mbox) = MboxSize

(* OSQPost: a message goes to the thread if it waits.                      *)
OSQPost(m) ==
  IF thread.at = "wait"
  THEN thread' = [thread EXCEPT !.at = "got", !.msg = m] /\ UNCHANGED mbox
  ELSE mbox' = Append(mbox, m) /\ UNCHANGED thread

(* The time in ticks a wait of so many milliseconds takes.                 *)
PendTicks(ms) == Max({1, Min({MaxPend, (ms * TicksPerSec) \div MsPerSec})})

ToldExact(from, to) ==  \* variant: no wait is told as no time
  ((((to - from) % WordMod) * MsPerSec) % WordMod) \div TicksPerSec

(* What sys_arch_mbox_fetch returns if it got a message.                   *)
Told(from, to) ==
  LET ticks == IF to > from THEN to - from ELSE WordMod - 1 - from + to
  IN  ((ticks * MsPerSec) % WordMod) \div TicksPerSec + 1

-----------------------------------------------------------------------------
(* The thread.                                                             *)

(* sys_timeouts_mbox_fetch, up to the call of OSQPend.                     *)
FetchStarts ==
  /\ thread.at = "again"
  /\ IF next_timeout # <<>> /\ next_timeout[1].time = 0
     THEN thread' = Working("expire", "none", "none") /\ UNCHANGED OSTime
     ELSE /\ OSTime' \in ClockStart
          /\ thread' = [Working("pend", "none", "none") EXCEPT
                          !.started = OSTime',
                          !.dly = IF next_timeout = <<>> THEN 0
                                  ELSE PendTicks(next_timeout[1].time)]
  /\ UNCHANGED <<timerVars, mbox, caller, inpkts, apis, lost, torn>>

OSQPend ==
  /\ thread.at = "pend"
  /\ IF mbox = <<>> THEN thread' = [thread EXCEPT !.at = "wait"] /\ UNCHANGED mbox
     ELSE thread' = [thread EXCEPT !.at = "got", !.msg = Head(mbox)] /\ mbox' = Tail(mbox)
  /\ UNCHANGED <<timerVars, OSTime, caller, inpkts, apis, lost, torn>>

FetchReturns ==
  /\ thread.at = "got"
  /\ thread' = Working("handle", thread.msg, "none")
  /\ next_timeout' =
       IF next_timeout = <<>> THEN <<>>
       ELSE [next_timeout EXCEPT
               ![1].time = Max({0, @ - Told(thread.started, OSTime)})]
  /\ OSTime' = 0
  /\ UNCHANGED <<tcpTimer, pcbs, mbox, caller, inpkts, apis, lost, torn>>

(* The timeout that is first now goes off, not the one that was waited     *)
(* for.  There always is one, unless the list is torn: the cyclic timeouts *)
(* are never cancelled.                                                    *)
Expires ==
  /\ thread.at = "expire" /\ next_timeout # <<>>
  /\ thread' = Working("call", "none", next_timeout[1].h)
  /\ next_timeout' = Tail(next_timeout)
  /\ UNCHANGED <<tcpTimer, pcbs, OSTime, mbox, caller, inpkts, apis, lost, torn>>

tcp_timer_needed ==
  /\ tcpTimer' = TRUE
  /\ next_timeout' = IF tcpTimer THEN next_timeout
                     ELSE sys_timeout(next_timeout, "tcp", Interval["tcp"])

(* tcp_tmr may end the last connection.                                    *)
tcpip_tcp_timer ==
  /\ pcbs' \in {pcbs, FALSE} /\ tcpTimer' = pcbs'
  /\ next_timeout' = IF pcbs' THEN sys_timeout(next_timeout, "tcp", Interval["tcp"])
                     ELSE next_timeout

CyclicTimer(h) ==
  /\ next_timeout' = sys_timeout(next_timeout, h, Interval[h])
  /\ UNCHANGED <<tcpTimer, pcbs>>

(* _DhcpTickHandle sets itself again unless the server has been stopped.   *)
CallsHandler ==
  /\ thread.at = "call"
  /\ \/ thread.h = "tcp" /\ tcpip_tcp_timer
     \/ thread.h # "tcp" /\ CyclicTimer(thread.h)
     \/ thread.h = "tick" /\ UNCHANGED timerVars
  /\ thread' = Working("again", "none", "none")
  /\ UNCHANGED <<OSTime, mbox, caller, inpkts, apis, lost, torn>>

(* The function of an API message and the input of a packet may open a     *)
(* connection or end the last one.                                         *)
Connections ==
  \/ pcbs' = TRUE /\ tcp_timer_needed
  \/ pcbs' \in {pcbs, FALSE} /\ UNCHANGED <<tcpTimer, next_timeout>>

tcpip_thread ==
  /\ thread.at = "handle"
  /\ \/ /\ thread.msg \in Task /\ Connections
        /\ caller' = [caller EXCEPT ![thread.msg].at = "idle"]
        /\ UNCHANGED <<inpkts, apis>>
     \/ /\ thread.msg = "inpkt" /\ Connections
        /\ inpkts' = inpkts + 1 /\ UNCHANGED <<caller, apis>>
     \/ /\ thread.msg = "callback"
        /\ apis' = apis + 1 /\ UNCHANGED <<timerVars, caller, inpkts>>
  /\ thread' = Working("again", "none", "none")
  /\ UNCHANGED <<OSTime, mbox, lost, torn>>

StackThread ==
  \/ FetchStarts \/ OSQPend \/ FetchReturns \/ Expires \/ CallsHandler \/ tcpip_thread

(* A tick during a fetch; it ends the thread's wait when its time is over. *)
OSTimeTick ==
  /\ \/ /\ thread.at \in {"pend", "got"}
        /\ (OSTime - thread.started) % WordMod < MaxDelay
        /\ OSTime' = (OSTime + 1) % WordMod /\ UNCHANGED thread
     \/ /\ thread.at = "wait" /\ thread.dly # 1
        /\ OSTime' = (OSTime + 1) % WordMod
        /\ thread' = [thread EXCEPT !.dly = IF @ = 0 THEN 0 ELSE @ - 1]
     \/ /\ thread.at = "wait" /\ thread.dly = 1
        /\ OSTime' = 0 /\ thread' = Working("expire", "none", "none")
  /\ UNCHANGED <<timerVars, mbox, caller, inpkts, apis, lost, torn>>

-----------------------------------------------------------------------------
(* The other tasks.                                                        *)

tcpip_inputKeeps ==  \* variant: the message is not given back
  /\ inpkts > 0
  /\ inpkts' = inpkts - 1
  /\ IF MboxFull THEN UNCHANGED <<mbox, thread>> ELSE OSQPost("inpkt")
  /\ UNCHANGED <<timerVars, OSTime, caller, apis, lost, torn>>

tcpip_input ==
  /\ inpkts > 0 /\ ~MboxFull
  /\ inpkts' = inpkts - 1 /\ OSQPost("inpkt")
  /\ UNCHANGED <<timerVars, OSTime, caller, apis, lost, torn>>

(* tcpip_callback_with_block, without block as everywhere in this firmware. *)
tcpip_callback ==
  /\ apis > 0 /\ ~MboxFull
  /\ apis' = apis - 1 /\ OSQPost("callback")
  /\ UNCHANGED <<timerVars, OSTime, caller, inpkts, lost, torn>>

tcpip_apimsg(t) ==
  /\ caller[t].at = "idle"
  /\ caller' = [caller EXCEPT ![t] = [at |-> "post", tries |-> 0]]
  /\ UNCHANGED <<timerVars, OSTime, mbox, thread, inpkts, apis, lost, torn>>

(* One try of sys_mbox_post, whose last one may fail: the task then waits  *)
(* for an answer to a message nobody has.                                  *)
sys_mbox_post(t) ==
  /\ caller[t].at = "post"
  /\ IF ~MboxFull
     THEN /\ OSQPost(t) /\ caller' = [caller EXCEPT ![t] = [at |-> "wait", tries |-> 0]]
          /\ UNCHANGED lost
     ELSE LET n == caller[t].tries + 1
          IN  /\ caller' = [caller EXCEPT ![t] = IF n < PostTries THEN [@ EXCEPT !.tries = n]
                                                 ELSE [at |-> "wait", tries |-> 0]]
              /\ lost' = IF n < PostTries THEN lost ELSE lost \cup {t}
              /\ UNCHANGED <<mbox, thread>>
  /\ UNCHANGED <<timerVars, OSTime, inpkts, apis, torn>>

(* DHCPS_Start and DHCPS_Stop, in the system management task, while the    *)
(* thread is between its operations on the list.                           *)
TickStarts ==
  /\ Cardinality({i \in DOMAIN next_timeout : next_timeout[i].h = "tick"}) < MaxTick
  /\ next_timeout' = sys_timeout(next_timeout, "tick", Interval["tick"])
  /\ UNCHANGED <<tcpTimer, pcbs, OSTime, mbox, thread, caller, inpkts, apis, lost, torn>>

TickStops ==
  /\ next_timeout' = sys_untimeout(next_timeout, "tick")
  /\ UNCHANGED <<tcpTimer, pcbs, OSTime, mbox, thread, caller, inpkts, apis, lost, torn>>

(* One of them inside an operation: when the thread shortens, takes or     *)
(* sets a timeout.                                                         *)
TickTears ==
  /\ thread.at \in {"got", "expire", "call", "handle"}
  /\ next_timeout' \in TornLists /\ torn' = TRUE
  /\ UNCHANGED <<tcpTimer, pcbs, OSTime, mbox, thread, caller, inpkts, apis, lost>>

ThreadSteps ==
  \/ StackThread \/ OSTimeTick \/ tcpip_input \/ tcpip_callback
  \/ \E t \in Task : tcpip_apimsg(t) \/ sys_mbox_post(t)
  \/ TickStarts \/ TickStops

ThreadNext == ThreadSteps \/ TickTears

(* The thread gets the processor again and again, and time goes on.        *)
ThreadFairness == WF_threadVars(StackThread) /\ WF_threadVars(OSTimeTick)

ThreadSpec == ThreadInit /\ [][ThreadNext]_threadVars /\ ThreadFairness

-----------------------------------------------------------------------------
(* Properties.                                                             *)

InHand == mbox \o (IF thread.msg = "none" THEN <<>> ELSE <<thread.msg>>)
Times(s, x) == Cardinality({i \in DOMAIN s : s[i] = x})

(* The list of differences keeps the time of each timeout, whichever are   *)
(* set, cancelled, shortened by a wait or gone off before it: with the     *)
(* sums of the differences it is the list of Timeouts, until DHCPS_Start   *)
(* or DHCPS_Stop comes into an operation of the thread.                    *)
TimeoutList ==
  INSTANCE Timeouts WITH
    Handler <- Handlers, MaxTime <- MaxInterval,
    pending <- [pos \in DOMAIN next_timeout |->
                  [h |-> next_timeout[pos].h, left |-> Due(next_timeout, pos)]]

ImplementsTimeouts ==
  /\ TimeoutList!TimeoutsInit
  /\ [][torn' \/ TimeoutList!TimeoutsNext]_
       [pos \in DOMAIN next_timeout |->
          [h |-> next_timeout[pos].h, left |-> Due(next_timeout, pos)]]

(* Until an operation on the list is torn, a cyclic timeout is set or its  *)
(* handler runs, never both nor twice, and so is the TCP timer exactly     *)
(* while its flag says so, with connections only if it is.  Torn or not,   *)
(* the pools have all messages that are not on their way, and a waiting    *)
(* task's message is on its way, unless sys_mbox_post gave up.             *)
ThreadSound ==
  LET handlers == [i \in DOMAIN next_timeout |-> next_timeout[i].h] \o <<thread.h>>
  IN  /\ torn \/ /\ \A h \in Cyclic : Times(handlers, h) = 1
                 /\ Times(handlers, "tcp") = IF tcpTimer THEN 1 ELSE 0
                 /\ pcbs => tcpTimer
      /\ inpkts + Times(InHand, "inpkt") = InpktPool
      /\ apis + Times(InHand, "callback") = ApiPool
      /\ \A t \in Task :
           Times(InHand, t) = IF caller[t].at = "wait" /\ t \notin lost THEN 1 ELSE 0

(* While the thread works every cyclic timeout goes off once more, though  *)
(* messages never stop coming, and every call whose message was posted     *)
(* ends, though timeouts never stop going off; or an operation on the list *)
(* is torn.                                                                *)
ThreadProgress ==
  /\ \A h \in Cyclic : (thread.at # "again") ~> (thread.h = h \/ torn)
  /\ \A t \in Task :
       (caller[t].at = "wait" /\ t \notin lost) ~> (caller[t].at # "wait" \/ torn)

(* sys_arch_mbox_fetch returns the milliseconds it waited, up to a tick.   *)
TellsTimeSpent ==
  thread.at = "got" =>
    LET waited == (OSTime - thread.started) % WordMod
    IN  Told(thread.started, OSTime) * TicksPerSec <= (waited + 1) * MsPerSec
=============================================================================
