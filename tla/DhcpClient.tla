----------------------------- MODULE DhcpClient -----------------------------
(***************************************************************************)
(* The DHCP client of station mode: core/dhcp.c, as it is started, waited  *)
(* for and stopped by ifUpWhenDhcp and L2LinkDown of LwIP/port/lwIP.c in   *)
(* the system management task.                                             *)
(*                                                                         *)
(* Replies may be lost, late and duplicated: any request sent under the    *)
(* transaction number the client now uses may still be answered, once or   *)
(* more than once; replies with another number are dropped on arrival.     *)
(* A handler of the stack is one step.  Nothing in this firmware calls     *)
(* netif_set_link_up, so that DHCP_REBOOTING is never entered.             *)
(***************************************************************************)
EXTENDS Integers

CONSTANTS
  LeaseAddr,    \* addresses servers give
  AnyAddr,      \* IP_ADDR_ANY
  LeaseTimes,   \* T1 and T2 of an ACK, in coarse ticks: a set of pairs
  Forever,      \* 0xffffffff
  CoarseMod,    \* 65536: t1_timeout and t2_timeout are 16 bits wide
  TriesMod,     \* 256: tries is a byte
  SelectTries,  \* 5
  RebindTries,  \* 8
  TryTimes,     \* IPCfg.DhcpTryTimes
  MaxNoMem      \* bound: steps that find no memory for their messages

ASSUME DhcpClientAssumption ==
  /\ AnyAddr \notin LeaseAddr
  /\ {CoarseMod, TriesMod} \subseteq Nat \ {0, 1}
  /\ {SelectTries, RebindTries, TryTimes, MaxNoMem} \subseteq Nat
  /\ SelectTries + 1 < TriesMod /\ RebindTries + 1 < TriesMod
  /\ Forever \notin Nat
  /\ LeaseTimes \subseteq (Nat \cup {Forever}) \X (Nat \cup {Forever})

VARIABLES
  client,       \* netif->dhcp and the address of the interface
  ifUp,         \* where the management task is with the interface
  linkReady,    \* LinkReady
  noMem,        \* history: how often there was no memory
  reused,       \* history: a state began under an earlier transaction number
  acked         \* history: the address of the last ACK, unless taken back

clientVars == <<client, ifUp, linkReady, noMem, reused, acked>>

ClientState == {"OFF", "SELECTING", "REQUESTING", "CHECKING", "BOUND", "RENEWING",
                "REBINDING", "BACKING_OFF"}
Requests == [type : {"DISCOVER", "REQUEST"}, addr : LeaseAddr \cup {AnyAddr}]

NoClient ==
  [state |-> "OFF", tries |-> 0, timeout |-> FALSE, offered |-> AnyAddr,
   t1 |-> 0, t2 |-> 0, renew |-> 0, rebind |-> 0, asked |-> {},
   addr |-> AnyAddr, up |-> FALSE]

ClientInit ==
  /\ client = NoClient /\ noMem = 0 /\ reused = FALSE /\ acked = AnyAddr
  /\ ifUp = "idle" /\ linkReady = FALSE

ClientTypeOK ==
  LET times == {0, Forever} \cup UNION {{p[1], p[2]} : p \in LeaseTimes}
  IN  /\ client \in [state : ClientState, tries : 0 .. TriesMod - 1, timeout : BOOLEAN,
                     offered : LeaseAddr \cup {AnyAddr}, t1 : 0 .. CoarseMod - 1,
                     t2 : 0 .. CoarseMod - 1, renew : times, rebind : times,
                     asked : SUBSET Requests, addr : LeaseAddr \cup {AnyAddr}, up : BOOLEAN]
      /\ ifUp \in {"idle", "wait", "up", "failed"} /\ linkReady \in BOOLEAN
      /\ noMem \in 0 .. MaxNoMem /\ reused \in BOOLEAN /\ acked \in LeaseAddr \cup {AnyAddr}

-----------------------------------------------------------------------------
(* What the functions do to client c.  request_timeout is only known to    *)
(* run or not; how long it runs depends on tries.                          *)

dhcp_set_state(c, s) ==
  IF c.state = s THEN c ELSE [c EXCEPT !.state = s, !.tries = 0, !.timeout = FALSE]

(* dhcp_create_msg and udp_sendto_if.  If there is no memory nothing is    *)
(* sent.  The first try in a state takes a new transaction number.         *)
Sent(c, requests, mem) ==
  IF ~mem THEN c ELSE [c EXCEPT !.asked = (IF c.tries = 0 THEN {} ELSE @) \cup requests]

(* The end of each function that sends: it will be called again.           *)
Tried(c) == [c EXCEPT !.tries = (@ + 1) % TriesMod, !.timeout = TRUE]

(* The same where the time is a product with the number of tries: once     *)
(* that has come round to 0 the timeout never comes.                       *)
TriedLonger(c) == LET t == Tried(c) IN [t EXCEPT !.timeout = t.tries # 0]

Request(type, a) == [type |-> type, addr |-> a]

dhcp_discover(c, mem) ==
  Tried(Sent(dhcp_set_state([c EXCEPT !.offered = AnyAddr], "SELECTING"),
             {Request("DISCOVER", AnyAddr)}, mem))

dhcp_select(c, mem) ==
  Tried(Sent(dhcp_set_state(c, "REQUESTING"), {Request("REQUEST", c.offered)}, mem))

(* The address asked for is ciaddr, the one of the interface.              *)
dhcp_renew(c, mem) ==
  TriedLonger(Sent(dhcp_set_state(c, "RENEWING"), {Request("REQUEST", c.addr)}, mem))

dhcp_rebind(c, mem) ==
  TriedLonger(Sent(dhcp_set_state(c, "REBINDING"), {Request("REQUEST", c.addr)}, mem))

Unconfigured(c) == [c EXCEPT !.addr = AnyAddr, !.up = FALSE]

dhcp_release(c, mem) ==
  LET off == [dhcp_set_state(c, "OFF") EXCEPT !.offered = AnyAddr, !.renew = 0, !.rebind = 0]
  IN  Unconfigured(TriedLonger(Sent(off, {}, mem)))

dhcp_check(c) == Tried(dhcp_set_state(c, "CHECKING"))

dhcp_decline(c, mem) == Tried(Sent(dhcp_set_state(c, "BACKING_OFF"), {}, mem))

dhcp_handle_nakKeeps(c, mem) ==   \* variant: the interface keeps its address
  dhcp_discover(dhcp_set_state(c, "BACKING_OFF"), mem)

dhcp_handle_nak(c, mem) ==
  dhcp_discover(dhcp_set_state(Unconfigured(c), "BACKING_OFF"), mem)

TicksUnbounded(offered, old) ==   \* variant: a long time does not become the longest
  IF offered = Forever THEN old ELSE IF offered = 0 THEN 1 ELSE offered

(* A time of 0 becomes 1, one that is too long the longest.                *)
Ticks(offered, old) ==
  IF offered = Forever THEN old
  ELSE IF offered = 0 THEN 1
  ELSE IF offered > CoarseMod - 1 THEN CoarseMod - 1 ELSE offered

dhcp_bind(c) ==
  LET t1 == Ticks(c.renew, c.t1)
      t2 == Ticks(c.rebind, c.t2)
  IN  dhcp_set_state([c EXCEPT !.t1 = IF t1 >= t2 /\ t2 > 0 THEN 0 ELSE t1, !.t2 = t2,
                               !.addr = c.offered, !.up = TRUE], "BOUND")

dhcp_handle_ack(c, a, times) ==
  [c EXCEPT !.renew = times[1], !.rebind = times[2], !.offered = a]

-----------------------------------------------------------------------------
(* The thread of the stack.                                                *)

StackStep(c) == client' = c /\ UNCHANGED <<ifUp, linkReady>>

(* Whether there is memory for the messages of a step that leaves client   *)
(* c.  If not, a new state keeps the transaction number of the old one,    *)
(* and what was asked under it may still be answered.                      *)
Memory(mem, c) ==
  /\ mem \/ noMem < MaxNoMem
  /\ noMem' = IF mem THEN noMem ELSE noMem + 1
  /\ reused' = (reused \/ (~mem /\ c.state # client.state /\ c.asked # {}))

SendStep(c, mem) == Memory(mem, c) /\ StackStep(c)

dhcp_timeout(c, mem) ==
  CASE c.state \in {"BACKING_OFF", "SELECTING"} -> dhcp_discover(c, mem)
    [] c.state = "REQUESTING" /\ c.tries <= SelectTries -> dhcp_select(c, mem)
    [] c.state = "REQUESTING" /\ c.tries > SelectTries ->
         dhcp_discover(dhcp_release(c, mem), mem)
    [] c.state = "CHECKING" -> IF c.tries <= 1 THEN dhcp_check(c) ELSE dhcp_bind(c)
    [] c.state = "RENEWING" -> dhcp_renew(c, mem)
    [] c.state = "REBINDING" /\ c.tries <= RebindTries -> dhcp_rebind(c, mem)
    [] c.state = "REBINDING" /\ c.tries > RebindTries ->
         dhcp_discover(dhcp_release(c, mem), mem)
    [] OTHER -> c

(* The last of several fine ticks.                                         *)
dhcp_fine_tmr ==
  /\ client.timeout
  /\ \E mem \in BOOLEAN : SendStep(dhcp_timeout([client EXCEPT !.timeout = FALSE], mem), mem)
  /\ acked' = IF client'.addr = AnyAddr /\ client.addr # AnyAddr THEN AnyAddr ELSE acked

(* The management task looks every 20 ticks, long before a minute is over. *)
(* Timer T1 does not count in the tick in which T2 runs out.               *)
Renewable == {"REQUESTING", "BOUND", "RENEWING"}

dhcp_coarse_tmr ==
  LET two == [client EXCEPT !.t2 = (@ - 1) % CoarseMod]
      one == [two EXCEPT !.t1 = (@ - 1) % CoarseMod]
  IN  /\ ~(ifUp = "wait" /\ client.addr # AnyAddr)
      /\ \E mem \in BOOLEAN :
           SendStep(CASE client.t2 = 1 /\ client.state \in Renewable -> dhcp_rebind(two, mem)
                      [] client.t2 = 1 /\ client.state \notin Renewable -> two
                      [] client.t2 # 1 /\ client.t1 = 1 /\ client.state \in Renewable ->
                           dhcp_renew(one, mem)
                      [] OTHER -> one, mem)
      /\ UNCHANGED acked

(* dhcp_recv.  The server answers a request that names an address.         *)
RecvOffer ==
  /\ client.state = "SELECTING" /\ \E r \in client.asked : r.type = "DISCOVER"
  /\ LET c == [client EXCEPT !.timeout = FALSE]
     IN  \/ \E a \in LeaseAddr, mem \in BOOLEAN :
              SendStep(dhcp_select([c EXCEPT !.offered = a], mem), mem)
         \/ StackStep(c) /\ UNCHANGED <<noMem, reused>>   \* no server identifier
  /\ UNCHANGED acked

RecvAck ==
  \E r \in client.asked :
    /\ r.type = "REQUEST" /\ r.addr # AnyAddr
    /\ acked' = r.addr /\ UNCHANGED <<noMem, reused>>
    /\ \/ /\ client.state = "REQUESTING"
          /\ \E times \in LeaseTimes :
               StackStep(dhcp_check(dhcp_handle_ack(client, r.addr, times)))
       \/ /\ client.state \in {"REBINDING", "RENEWING"}
          /\ StackStep(dhcp_bind(client))

RecvNak ==
  /\ client.state \in {"REQUESTING", "REBINDING", "RENEWING"}
  /\ \E r \in client.asked : r.type = "REQUEST"
  /\ \E mem \in BOOLEAN : SendStep(dhcp_handle_nak(client, mem), mem)
  /\ acked' = AnyAddr

(* Another host has the address the client was offered.                    *)
dhcp_arp_reply ==
  /\ client.state = "CHECKING"
  /\ \E mem \in BOOLEAN : SendStep(dhcp_decline(client, mem), mem)
  /\ acked' = AnyAddr

-----------------------------------------------------------------------------
(* The management task.  L2LinkUp stays in ifUpWhenDhcp until there is an  *)
(* address, and takes no other message meanwhile.                          *)

(* dhcp_start clears the record, not the interface.  What it returns is    *)
(* ignored: if there was no PCB, or no memory for the first message, the   *)
(* client is off and the task waits all the same.                          *)
dhcp_start(c, pcb, mem) ==
  LET new == [NoClient EXCEPT !.addr = c.addr, !.up = c.up]
  IN  IF pcb /\ mem THEN dhcp_discover(new, TRUE) ELSE new

dhcp_stop(c) == [dhcp_set_state(c, "OFF") EXCEPT !.asked = {}]

ClientLinkUp ==
  /\ ifUp = "idle"
  /\ \E pcb, mem \in BOOLEAN :
       Memory(mem, dhcp_start(client, pcb, mem)) /\ client' = dhcp_start(client, pcb, mem)
  /\ ifUp' = "wait" /\ linkReady' = TRUE
  /\ UNCHANGED acked

IfUpPolls ==
  /\ ifUp = "wait"
  /\ IF ~linkReady \/ (TryTimes # 0 /\ client.tries > TryTimes)
     THEN client' = dhcp_stop(client) /\ ifUp' = "failed"
     ELSE /\ client.addr # AnyAddr
          /\ client' = [client EXCEPT !.up = TRUE] /\ ifUp' = "up"
  /\ UNCHANGED <<linkReady, noMem, reused, acked>>

LinkLost ==
  /\ linkReady /\ linkReady' = FALSE
  /\ UNCHANGED <<client, ifUp, noMem, reused, acked>>

ClientLinkDown ==
  /\ ifUp \in {"up", "failed"}
  /\ client' = dhcp_stop(Unconfigured(client))
  /\ ifUp' = "idle" /\ linkReady' = FALSE /\ acked' = AnyAddr
  /\ UNCHANGED <<noMem, reused>>

ClientNext ==
  \/ dhcp_fine_tmr \/ dhcp_coarse_tmr \/ RecvOffer \/ RecvAck \/ RecvNak \/ dhcp_arp_reply
  \/ ClientLinkUp \/ IfUpPolls \/ LinkLost \/ ClientLinkDown

(* The timeouts of the stack go off again and again; the management task   *)
(* comes back from OSTimeDly.                                              *)
ClientFairness ==
  WF_clientVars(dhcp_fine_tmr) /\ WF_clientVars(dhcp_coarse_tmr) /\ WF_clientVars(IfUpPolls)

ClientSpec == ClientInit /\ [][ClientNext]_clientVars /\ ClientFairness

-----------------------------------------------------------------------------
(* The interface never has an address but the one the server acknowledged  *)
(* last and no other host claimed while it was checked, whatever replies   *)
(* are late or doubled, as long as every state the client sent from began  *)
(* with a transaction number of its own; and while the link is up an       *)
(* address is held by a client that will renew it.                         *)
AddressBacked ==
  client.addr # AnyAddr =>
    /\ client.addr = acked \/ reused
    /\ ifUp \in {"wait", "up"} /\ client.state # "OFF" =>
         client.state \in {"BOUND", "RENEWING", "REBINDING"}
    /\ ifUp = "up" => client.state # "OFF"

(* A client that asks to keep its address gets an answer or gives it up,   *)
(* though the time between two tries becomes 0 when tries comes round and  *)
(* the timers of an old lease go on counting.                              *)
RenewalEnds ==
  client.state \in {"RENEWING", "REBINDING"} ~> client.state \notin {"RENEWING", "REBINDING"}
=============================================================================
