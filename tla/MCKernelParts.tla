--------------------------- MODULE MCKernelParts ---------------------------
(***************************************************************************)
(* Model values for KernelParts: the applications, each a set of services  *)
(* its tasks use, the programs, the calls each of two tasks makes on the   *)
(* sockets, and the timers of the stack.                                   *)
(***************************************************************************)
EXTENDS KernelParts

MCApps ==
  { {"mutex", "dly", "sem", "isr"}, {"mutex", "dly", "del"},
    {"queue", "opt", "isr"}, {"queue", "abort", "del"}, {"mbox", "opt", "abort", "del"},
    {"mbox", "sem", "multi", "isr"}, {"queue", "multi", "isr"},
    {"sem", "suspend", "dly"}, {"mutex", "suspend", "dly"},
    {"sem", "lock", "isr", "abort", "del"},
    {"sem", "task"} }

Calls2(a, b) == [t \in User |-> IF t = "u" THEN a ELSE b]

(* Clients, servers, and datagrams, with a second task that selects, reads *)
(* what the first accepted, or opens and closes descriptors of its own.    *)
MCPrograms ==
  { Calls2({"tcp", "connect", "send", "close"}, {}),
    Calls2({"tcp", "connect", "recv", "close"}, {}),
    Calls2({"tcp", "listen", "accept", "close"}, {"recv", "close"}),
    Calls2({"tcp", "listen", "accept", "recv", "close"}, {"select"}),
    Calls2({"tcp", "listen", "accept", "send"}, {"select"}),
    Calls2({"udp", "bind", "recv", "close"}, {"tcp", "close"}),
    Calls2({"udp", "send", "connect", "recv"}, {"select"}) }

(* The cloud link: the task that connects also receives, another one sends. *)
MCShared == { Calls2({"tcp", "connect", "recv"}, {"send"}) }

MCFdSets == {<<{0}, {}>>, <<{1}, {0}>>, <<{0}, {1}>>}

MCCyclicTimers == <<"arp">>

(* The timer is longer than the tick of the DHCP server.                   *)
MCInterval == [h \in Handlers |-> IF h = "arp" THEN 3 ELSE 2]
=============================================================================
