----------------------------- MODULE StackParts -----------------------------
(***************************************************************************)
(* The TCP server of the LAN, the DHCP client and the thread of the stack, *)
(* checked side by side: none shares state with another, the first state   *)
(* chooses one of them, which then runs by itself.                         *)
(***************************************************************************)
EXTENDS LanServer, DhcpClient, TcpipThread

VARIABLE role

StackInit ==
  /\ role \in {"lan", "dhcpc", "thread"}
  /\ Init /\ ClientInit /\ ThreadInit
  /\ role # "lan" => sockets = [f \in Fds |-> "free"]

LanPart == role = "lan" /\ Next /\ UNCHANGED <<role, clientVars, threadVars>>
ClientPart == role = "dhcpc" /\ ClientNext /\ UNCHANGED <<role, vars, threadVars>>
ThreadPart == role = "thread" /\ ThreadNext /\ UNCHANGED <<role, vars, clientVars>>

StackNext == LanPart \/ ClientPart \/ ThreadPart

stackVars == <<role, vars, clientVars, threadVars>>

(* The fairness of FairSpec of LanServer, of ClientFairness and of         *)
(* ThreadFairness, each for the behaviours in which its part runs.         *)
StackFairness ==
  /\ WF_vars(role = "lan" /\ TcpServerStep)
  /\ WF_clientVars(role = "dhcpc" /\ dhcp_fine_tmr)
  /\ WF_clientVars(role = "dhcpc" /\ dhcp_coarse_tmr)
  /\ WF_clientVars(role = "dhcpc" /\ IfUpPolls)
  /\ WF_threadVars(role = "thread" /\ StackThread)
  /\ WF_threadVars(role = "thread" /\ OSTimeTick)

StackSpec == StackInit /\ [][StackNext]_stackVars /\ StackFairness

(* Every part's variables have their types.                                *)
StackTypeOK ==
  /\ role \in {"lan", "dhcpc", "thread"}
  /\ TypeOK /\ ClientTypeOK /\ ThreadTypeOK

(* What must go on goes on: a readable client of the LAN server is served  *)
(* (ReadableServed), a lease that is not renewed is given up (RenewalEnds) *)
(* and neither messages nor timeouts starve the other (ThreadProgress).    *)
StackProgress == ReadableServed /\ RenewalEnds /\ ThreadProgress
=============================================================================
