---------------------------- MODULE TimeoutCells ----------------------------
(***************************************************************************)
(* The list of timeouts of core/timers.c as it lies in memory: elements of *)
(* a pool, linked, whose free ones are linked by the same field.  Nothing  *)
(* protects it (SYS_LIGHTWEIGHT_PROT is 0).  The thread of the stack works *)
(* on it one statement at a time; the system management task, which is     *)
(* more urgent, runs DHCPS_Start and DHCPS_Stop in between any two.        *)
(***************************************************************************)
EXTENDS Integers, Sequences, FiniteSetsExt

CONSTANTS
  Pool,          \* MEMP_NUM_SYS_TIMEOUT
  CyclicTimers,  \* arp_timer, dns_timer... that set themselves again, in the order they start
  Interval,      \* time of each handler
  MaxInterval,   \* the longest of them
  WordMod,       \* 2^32
  MaxTick,       \* bound: timeouts of the DHCP server in the list when one more is set
  FollowTorn     \* bound: whether the management task is followed into an operation

Null == 0
Cell == 1 .. Pool
Cyclic == {CyclicTimers[i] : i \in DOMAIN CyclicTimers}
Handlers == Cyclic \cup {"tick"}

ASSUME CellsAssumption ==
  /\ Pool \in Nat /\ CyclicTimers \in Seq(STRING) /\ {"tick", "none"} \cap Cyclic = {}
  /\ \A i, j \in DOMAIN CyclicTimers : CyclicTimers[i] = CyclicTimers[j] => i = j
  /\ MaxInterval \in 1 .. WordMod - 1 /\ Interval \in [Handlers -> 1 .. MaxInterval]
  /\ MaxTick \in Nat /\ FollowTorn \in BOOLEAN /\ Len(CyclicTimers) + MaxTick < Pool

VARIABLES
  mem,       \* next_timeout, memp_tab[MEMP_SYS_TIMEOUT] and the elements
  thread,    \* the thread: its next statement and its locals
  Enable,    \* DhcpServer.Enable
  torn,      \* history: the management task came into an operation of the thread
  pending    \* history: the list when last no operation was under way, with times to go

cellVars == <<mem, thread, Enable, torn, pending>>

(* The elements from one on, each with the link it has; cut off when the   *)
(* links go round.                                                         *)
Chain(m, first) ==
  LET from[n \in 0 .. Pool] ==
        IF n = 0 THEN <<>>
        ELSE LET s == from[n - 1]
                 c == IF s = <<>> THEN first ELSE m.cell[s[Len(s)]].next
             IN  IF c = Null \/ (n > 1 /\ Len(s) < n - 1) THEN s ELSE Append(s, c)
  IN  from[Pool]

Minus(a, b) == (a - b) % WordMod

-----------------------------------------------------------------------------
(* sys_timeout, statement by statement: m is the memory, r the statement   *)
(* and the locals of the task that runs it.                                *)

SetsOff(h) == [at |-> "alloc", h |-> h, ms |-> Interval[h], timeout |-> Null, t |-> Null]

sys_timeoutStep(m, r) ==
  LET new == m.cell[r.timeout]
      after == m.cell[r.t].next
      At(where) == [r EXCEPT !.at = where]
  IN  CASE r.at = "alloc" ->   \* memp = memp_tab[type]
             <<m, IF m.memp_tab = Null THEN At("done") ELSE [At("take") EXCEPT !.timeout = m.memp_tab]>>
        [] r.at = "take" ->    \* memp_tab[type] = memp->next
             <<[m EXCEPT !.memp_tab = new.next], At("fill")>>
        [] r.at = "fill" ->
             <<[m EXCEPT !.cell[r.timeout] = [next |-> Null, h |-> r.h, time |-> r.ms]], At("head")>>
        [] r.at = "head" ->
             IF m.next_timeout = Null
             THEN <<[m EXCEPT !.next_timeout = r.timeout], At("done")>>
             ELSE IF m.cell[m.next_timeout].time > r.ms THEN <<m, At("shift")>>
             ELSE <<m, [At("walk") EXCEPT !.t = m.next_timeout]>>
        [] r.at = "shift" ->   \* next_timeout->time -= msecs
             <<[m EXCEPT !.cell[m.next_timeout].time = Minus(@, r.ms)], At("before")>>
        [] r.at = "before" ->  \* timeout->next = next_timeout
             <<[m EXCEPT !.cell[r.timeout].next = m.next_timeout], At("first")>>
        [] r.at = "first" ->   \* next_timeout = timeout
             <<[m EXCEPT !.next_timeout = r.timeout], At("done")>>
        [] r.at = "walk" ->    \* timeout->time -= t->time
             <<[m EXCEPT !.cell[r.timeout].time = Minus(@, m.cell[r.t].time)], At("test")>>
        [] r.at = "test" ->
             IF after = Null THEN <<m, At("after")>>
             ELSE IF m.cell[after].time > new.time THEN <<m, At("shorten")>>
             ELSE <<m, [At("walk") EXCEPT !.t = after]>>
        [] r.at = "shorten" -> \* t->next->time -= timeout->time
             <<IF after = Null THEN m ELSE [m EXCEPT !.cell[after].time = Minus(@, new.time)],
               At("after")>>
        [] r.at = "after" ->   \* timeout->next = t->next
             <<[m EXCEPT !.cell[r.timeout].next = after], At("insert")>>
        [] r.at = "insert" ->  \* t->next = timeout
             <<[m EXCEPT !.cell[r.t].next = r.timeout], At("done")>>

Setting == {"alloc", "take", "fill", "head", "shift", "before", "first", "walk", "test",
            "shorten", "after", "insert"}

(* All of it at once, in a task nobody interrupts.  Links that go round    *)
(* keep it for ever.                                                       *)
sys_timeout(m, h) ==
  LET run[n \in 0 .. 3 * Pool + 9] ==
        IF n = 0 THEN <<m, SetsOff(h)>>
        ELSE LET r == run[n - 1]
             IN  IF r[2].at = "done" THEN r ELSE sys_timeoutStep(r[1], r[2])
  IN  run[3 * Pool + 9]

memp_freeLost(m, c) == m  \* variant: the element is not given back

memp_free(m, c) == [m EXCEPT !.cell[c].next = m.memp_tab, !.memp_tab = c]

LongerNot(m, c, ms) == m  \* variant: the next one is not given the time of the one taken out

(* An element, if it is one, has ms more to go.                            *)
Longer(m, c, ms) ==
  IF c = Null THEN m ELSE [m EXCEPT !.cell[c].time = (@ + ms) % WordMod]

sys_untimeout(m, h) ==
  LET s == Chain(m, m.next_timeout)
      found == {i \in DOMAIN s : m.cell[s[i]].h = h}
      i == Min(found)
      t == m.cell[s[i]]
      unlinked == IF i = 1 THEN [m EXCEPT !.next_timeout = t.next]
                  ELSE [m EXCEPT !.cell[s[i - 1]].next = t.next]
  IN  IF found = {} THEN m ELSE memp_free(Longer(unlinked, t.next, t.time), s[i])

-----------------------------------------------------------------------------
(* memp_init links the pool from its last element to its first; the        *)
(* elements are zero.                                                      *)
memp_init ==
  [next_timeout |-> Null, memp_tab |-> Pool,
   cell |-> [c \in Cell |-> [next |-> c - 1, h |-> "none", time |-> 0]]]

sys_timeouts_init ==
  LET set[n \in 0 .. Len(CyclicTimers)] ==
        IF n = 0 THEN memp_init ELSE sys_timeout(set[n - 1], CyclicTimers[n])[1]
  IN  set[Len(CyclicTimers)]

(* The thread at a statement, with no local in use.                        *)
Bare(where) == [at |-> where, h |-> "none", ms |-> 0, timeout |-> Null, t |-> Null]

(* The list with the time each timeout has to go.                          *)
TimesToGo(m) ==
  LET s == Chain(m, m.next_timeout)
      due[i \in 0 .. Len(s)] == IF i = 0 THEN 0 ELSE due[i - 1] + m.cell[s[i]].time
  IN  [i \in DOMAIN s |-> [h |-> m.cell[s[i]].h, left |-> due[i]]]

CellsInit ==
  /\ mem = sys_timeouts_init /\ thread = Bare("again")
  /\ Enable = FALSE /\ torn = FALSE /\ pending = TimesToGo(mem)

-----------------------------------------------------------------------------
(* The thread: sys_timeouts_mbox_fetch and the handlers it calls.          *)

(* How long to wait for is read before the wait.                           *)
FetchStarts ==
  /\ thread.at = "again"
  /\ thread' = IF mem.next_timeout = Null THEN Bare("ever")
               ELSE LET ms == mem.cell[mem.next_timeout].time
                    IN  IF ms = 0 THEN Bare("load") ELSE [Bare("wait") EXCEPT !.ms = ms]
  /\ UNCHANGED <<mem, Enable>>

(* The wait ends in time with a message, or not.  It is told how long it   *)
(* took, or the longest time there is (see TellsTimeSpent of TcpipThread). *)
CellsFetched ==
  /\ thread.at \in {"wait", "ever"}
  /\ \/ thread.at = "wait" /\ thread' = Bare("load")
     \/ \E told \in (0 .. thread.ms) \cup {WordMod - 1} :
          thread' = IF thread.at = "ever" THEN Bare("handle")
                    ELSE [Bare("compare") EXCEPT !.ms = told]
  /\ UNCHANGED <<mem, Enable>>

(* The first timeout is taken from the list: tmptimeout is in t.  Without  *)
(* one the thread reads what lies at address 0 and is not followed.        *)
Expires ==
  /\ \/ /\ thread.at = "load" /\ mem.next_timeout # Null
        /\ thread' = [thread EXCEPT !.at = "drop", !.t = mem.next_timeout]
        /\ UNCHANGED mem
     \/ /\ thread.at = "drop"
        /\ mem' = [mem EXCEPT !.next_timeout = mem.cell[thread.t].next]
        /\ thread' = [thread EXCEPT !.at = "free", !.h = mem.cell[thread.t].h]
     \/ /\ thread.at = "free"
        /\ mem' = [mem EXCEPT !.cell[thread.t].next = mem.memp_tab]
        /\ thread' = [thread EXCEPT !.at = "freed"]
     \/ /\ thread.at = "freed"
        /\ mem' = [mem EXCEPT !.memp_tab = thread.t]
        /\ thread' = [Bare("call") EXCEPT !.h = thread.h]
  /\ UNCHANGED Enable

(* The time a message was waited for is taken from the first timeout.      *)
Shortens ==
  /\ mem.next_timeout # Null
  /\ \/ /\ thread.at = "compare"
        /\ thread' = IF thread.ms < mem.cell[mem.next_timeout].time
                     THEN [thread EXCEPT !.at = "less"] ELSE Bare("zero")
        /\ UNCHANGED mem
     \/ /\ thread.at = "less"
        /\ mem' = [mem EXCEPT !.cell[mem.next_timeout].time = Minus(@, thread.ms)]
        /\ thread' = Bare("handle")
     \/ /\ thread.at = "zero"
        /\ mem' = [mem EXCEPT !.cell[mem.next_timeout].time = 0]
        /\ thread' = Bare("handle")
  /\ UNCHANGED Enable

(* A cyclic handler sets itself again, _DhcpTickHandle if the server is    *)
(* enabled; an element that was never set has no handler.                  *)
CallsHandler ==
  /\ thread.at = "call"
  /\ thread' = IF thread.h \in Cyclic \/ (thread.h = "tick" /\ Enable)
               THEN SetsOff(thread.h) ELSE Bare("again")
  /\ UNCHANGED <<mem, Enable>>

(* What a message is for does not touch the list: the TCP timer, which it  *)
(* may need, is in TcpipThread.                                            *)
HandlesMessage ==
  /\ thread.at = "handle" /\ thread' = Bare("again")
  /\ UNCHANGED <<mem, Enable>>

(* The first of the list is needed in two of the statements.               *)
SetsTimeout ==
  /\ thread.at \in Setting
  /\ thread.at \in {"shift", "before"} => mem.next_timeout # Null
  /\ LET next == sys_timeoutStep(mem, thread)
     IN  /\ mem' = next[1]
         /\ thread' = IF next[2].at = "done" THEN Bare("again") ELSE next[2]
  /\ UNCHANGED Enable

StackThread ==
  \/ FetchStarts \/ CellsFetched \/ Expires \/ Shortens \/ CallsHandler \/ HandlesMessage
  \/ SetsTimeout

-----------------------------------------------------------------------------
(* The system management task, which the thread never interrupts.          *)

Ticks(m) == {c \in {Chain(m, m.next_timeout)[i] : i \in DOMAIN Chain(m, m.next_timeout)} :
               m.cell[c].h = "tick"}

DHCPS_Start ==
  /\ Cardinality(Ticks(mem)) < MaxTick
  /\ LET set == sys_timeout(mem, "tick")
     IN  set[2].at = "done" /\ mem' = set[1]
  /\ Enable' = TRUE /\ UNCHANGED thread

DHCPS_Stop ==
  /\ mem' = sys_untimeout(mem, "tick")
  /\ Enable' = FALSE /\ UNCHANGED thread

(* Whether the thread is inside an operation on the list: it has begun and *)
(* not ended one.                                                          *)
Inside(r) ==
  r.at \in (Setting \ {"alloc"}) \cup {"drop", "free", "freed", "less", "zero"}

CellsNext ==
  /\ \/ StackThread /\ UNCHANGED torn
     \/ /\ Inside(thread) => FollowTorn
        /\ DHCPS_Start \/ DHCPS_Stop
        /\ torn' = (torn \/ Inside(thread))
  /\ pending' = IF torn' \/ Inside(thread') THEN pending ELSE TimesToGo(mem')

CellsSpec == CellsInit /\ [][CellsNext]_cellVars

-----------------------------------------------------------------------------
(* Properties.                                                             *)

Times(s, x) == Cardinality({i \in DOMAIN s : s[i] = x})

(* As long as DHCPS_Start and DHCPS_Stop never came into an operation of   *)
(* the thread: between operations every element of the pool is in the list *)
(* or free, once, and a cyclic timeout is in the list or its handler runs, *)
(* once.                                                                   *)
CellsSound ==
  torn \/ Inside(thread) \/
    LET list == Chain(mem, mem.next_timeout)
        cells == list \o Chain(mem, mem.memp_tab)
        handlers == [i \in DOMAIN list |-> mem.cell[list[i]].h] \o <<thread.h>>
    IN  /\ \A c \in Cell : Times(cells, c) = 1
        /\ \A h \in Cyclic : Times(handlers, h) = 1

TimeoutList == INSTANCE Timeouts WITH Handler <- Handlers, MaxTime <- MaxInterval

(* As long as DHCPS_Start and DHCPS_Stop never came into an operation of   *)
(* the thread, the linked elements are the list of Timeouts, and each      *)
(* operation is one step of it.                                            *)
CellsImplementTimeouts ==
  TimeoutList!TimeoutsInit /\ [][torn' \/ TimeoutList!TimeoutsNext]_pending

(* "Timer callback function that ... reschedules itself": when the thread  *)
(* asks for the next message every cyclic timeout is in the list.          *)
ReschedulesItself ==
  thread.at = "again" =>
    \A h \in Cyclic : \E c \in Cell :
      /\ \E i \in DOMAIN Chain(mem, mem.next_timeout) : Chain(mem, mem.next_timeout)[i] = c
      /\ mem.cell[c].h = h
=============================================================================
