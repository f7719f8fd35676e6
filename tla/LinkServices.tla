---------------------------- MODULE LinkServices ----------------------------
(***************************************************************************)
(* The two servers of the soft AP, DhcpServer/dhcp_server.c and            *)
(* DnsServer/dns_server.c, as they are started and stopped by L2LinkUp and *)
(* L2LinkDown of LwIP/port/lwIP.c in the system management task, while the *)
(* thread of the stack runs their callbacks.                               *)
(*                                                                         *)
(* The management task has the higher priority: a start or a stop is one   *)
(* step, and it can fall between any two steps of a callback.  The DHCP    *)
(* protocol itself is in DhcpServer.                                       *)
(***************************************************************************)
EXTENDS Integers, Sequences, FiniteSets

CONSTANTS
  Pcb,       \* the UDP PCBs of MEMP_UDP_PCB
  NoPcb,     \* no PCB
  Char,      \* characters, upper and lower case not told apart
  AnyChar,   \* none of them
  DnsName,   \* the server's own name, as characters
  NameSize,  \* 32, the size of DnsServer.DnsName
  Queries,   \* names clients ask for: labels, and whether a pointer follows them
  MaxTicks   \* bound: timeouts of _DhcpTickHandle in the list

ASSUME LinkAssumption ==
  /\ NoPcb \notin Pcb
  /\ MaxTicks \in Nat \ {0, 1}
  /\ AnyChar \notin Char /\ DnsName \in Seq(Char)
  /\ NameSize \in Nat /\ Len(DnsName) < NameSize
  /\ Queries \subseteq [labels : Seq(Seq(Char) \ {<<>>}), pointer : BOOLEAN]

(* The empty name.                                                         *)
Root == [labels |-> <<>>, pointer |-> FALSE]

DHCP_SERVER_UDP_PORT == 67
DNS_SERVER_PORT == 53

VARIABLES
  linkUp,      \* the last message was SYS_LINK_UP_ID
  services,    \* the servers SysParam asks for while the link is up
  dhcps,       \* DhcpServer: Enable and Socket
  dnss,        \* DnsServer.Socket
  pcbs,        \* the PCBs in use, with the port they are bound to or 0
  others,      \* those of them that sockets of the tasks use
  ticks,       \* timeouts of _DhcpTickHandle in the list of the stack
  stackAt,     \* where the thread of the stack is
  query,       \* the name DNSS_RecvCb is asked for
  answer,      \* what it has said to that: its address, an error or nothing yet
  dnssBlocks   \* memory DNSS_RecvCb holds

linkVars == <<linkUp, services, dhcps, dnss, pcbs, others, ticks, stackAt, query, answer, dnssBlocks>>
serverVars == <<linkUp, services, dhcps, dnss, pcbs, others>>

LinkTypeOK ==
  /\ linkUp \in BOOLEAN /\ services \subseteq {"dhcp", "dns"}
  /\ dhcps \in [Enable : BOOLEAN, Socket : Pcb \cup {NoPcb}]
  /\ dnss \in Pcb \cup {NoPcb}
  /\ DOMAIN pcbs \subseteq Pcb /\ others \subseteq DOMAIN pcbs
  /\ ticks \in 0 .. MaxTicks
  /\ stackAt \in {"idle", "tick", "rearm", "dhcp", "dns", "reply", "send", "free"}
  /\ query \in Queries \cup {Root} /\ answer \in {"name", "error", "none"}
  /\ dnssBlocks \subseteq {"msg", "reply", "pbuf"}

LinkInit ==
  /\ linkUp = FALSE /\ services = {}
  /\ dhcps = [Enable |-> FALSE, Socket |-> NoPcb] /\ dnss = NoPcb
  /\ pcbs = <<>> /\ others = {}
  /\ ticks = 0 /\ stackAt = "idle"
  /\ query = Root /\ answer = "none"
  /\ dnssBlocks = {}

-----------------------------------------------------------------------------
(* udp.c.  Binding a port that is taken fails and leaves the PCB unbound;  *)
(* both servers ignore that.                                               *)

udp_new(P) == IF Pcb \ DOMAIN P = {} THEN {NoPcb} ELSE Pcb \ DOMAIN P

udp_bind(P, p, port) ==
  [q \in DOMAIN P \cup {p} |->
     IF q # p THEN P[q]
     ELSE IF \E r \in DOMAIN P : P[r] = port THEN 0 ELSE port]

(* Variant: the PCB leaves the list but is not freed.                      *)
udp_removeKeep(P, p) == [q \in DOMAIN P |-> IF q = p THEN 0 ELSE P[q]]

udp_remove(P, p) == [q \in DOMAIN P \ {p} |-> P[q]]

-----------------------------------------------------------------------------
(* The management task.                                                    *)

(* Protocol, bDhcpServer and bDnsServer of SysParam decide which servers   *)
(* run, none as a station; they change only when the link is down (see     *)
(* NoRogueDhcp of Onboarding).  DHCPS_Start, then DNSS_Start: each clears  *)
(* its record, takes a PCB and, if there was one, binds it.                *)
L2LinkUp ==
  /\ ~linkUp /\ ticks < MaxTicks
  /\ linkUp' = TRUE
  /\ services' \in SUBSET {"dhcp", "dns"}
  /\ \E d \in IF "dhcp" \in services' THEN udp_new(pcbs) ELSE {NoPcb} :
       LET P == IF d = NoPcb THEN pcbs ELSE udp_bind(pcbs, d, DHCP_SERVER_UDP_PORT)
       IN  /\ dhcps' = IF "dhcp" \in services' THEN [Enable |-> d # NoPcb, Socket |-> d]
                       ELSE dhcps
           /\ ticks' = IF d = NoPcb THEN ticks ELSE ticks + 1
           /\ \E n \in IF "dns" \in services' THEN udp_new(P) ELSE {NoPcb} :
                /\ dnss' = IF "dns" \in services' THEN n ELSE dnss
                /\ pcbs' = IF n = NoPcb THEN P ELSE udp_bind(P, n, DNS_SERVER_PORT)
  /\ UNCHANGED <<others, stackAt, query, answer, dnssBlocks>>

(* sys_untimeout takes out one timeout.                                    *)
DHCPS_Stop ==
  /\ dhcps' = [Enable |-> FALSE, Socket |-> NoPcb]
  /\ ticks' = IF ticks > 0 THEN ticks - 1 ELSE 0

(* The PCBs of the servers that run.                                       *)
DhcpPcb == IF "dhcp" \in services THEN dhcps.Socket ELSE NoPcb
DnsPcb == IF "dns" \in services THEN dnss ELSE NoPcb

(* DNSS_Stop leaves DnsServer.Socket as it is.                             *)
L2LinkDown ==
  /\ linkUp
  /\ linkUp' = FALSE /\ services' = {}
  /\ IF "dhcp" \in services THEN DHCPS_Stop ELSE UNCHANGED <<dhcps, ticks>>
  /\ pcbs' = LET P == IF DhcpPcb = NoPcb THEN pcbs ELSE udp_remove(pcbs, DhcpPcb)
             IN  IF DnsPcb = NoPcb THEN P ELSE udp_remove(P, DnsPcb)
  /\ UNCHANGED <<dnss, others, stackAt, query, answer, dnssBlocks>>

(* The tasks' own sockets take PCBs from the same pool.                    *)
OtherTakes ==
  /\ \E p \in udp_new(pcbs) \ {NoPcb} :
       pcbs' = udp_bind(pcbs, p, 0) /\ others' = others \cup {p}
  /\ UNCHANGED <<linkUp, services, dhcps, dnss, ticks, stackAt, query, answer, dnssBlocks>>

OtherGives ==
  /\ \E p \in others : pcbs' = udp_remove(pcbs, p) /\ others' = others \ {p}
  /\ UNCHANGED <<linkUp, services, dhcps, dnss, ticks, stackAt, query, answer, dnssBlocks>>

-----------------------------------------------------------------------------
(* The thread of the stack: a timeout expires, or a datagram is delivered. *)

(* sys_timeouts_mbox_fetch takes the timeout out before it calls.          *)
TickExpires ==
  /\ stackAt = "idle" /\ ticks > 0
  /\ ticks' = ticks - 1
  /\ stackAt' = "tick"
  /\ UNCHANGED <<serverVars, query, answer, dnssBlocks>>

(* Variant: the handler is armed again whatever Enable says.               *)
TickHandleAlways ==
  /\ stackAt = "tick"
  /\ stackAt' = "rearm"
  /\ UNCHANGED <<serverVars, ticks, query, answer, dnssBlocks>>

(* _DhcpTickHandle goes through the clients and looks at Enable once more. *)
TickHandle ==
  /\ stackAt = "tick"
  /\ stackAt' = IF dhcps.Enable THEN "rearm" ELSE "idle"
  /\ UNCHANGED <<serverVars, ticks, query, answer, dnssBlocks>>

TickRearm ==
  /\ stackAt = "rearm" /\ ticks < MaxTicks
  /\ ticks' = ticks + 1
  /\ stackAt' = "idle"
  /\ UNCHANGED <<serverVars, query, answer, dnssBlocks>>

(* udp_input finds a PCB bound to the port.                                *)
Delivered(port) == stackAt = "idle" /\ \E p \in DOMAIN pcbs : pcbs[p] = port

DhcpDelivered ==
  /\ Delivered(DHCP_SERVER_UDP_PORT)
  /\ stackAt' = "dhcp"
  /\ UNCHANGED <<serverVars, ticks, query, answer, dnssBlocks>>

(* DHCPS_RecvCb answers, through the socket that is there by now.          *)
DhcpAnswers ==
  /\ stackAt = "dhcp"
  /\ stackAt' = "idle"
  /\ UNCHANGED <<serverVars, ticks, query, answer, dnssBlocks>>

(* DNSS_RecvCb: a copy of the message is made, if there is memory, and     *)
(* looked at; responses and other queries are filtered out.                *)
DnsDelivered ==
  /\ Delivered(DNS_SERVER_PORT)
  /\ \/ stackAt' = "idle" /\ UNCHANGED <<query, dnssBlocks>>
     \/ stackAt' = "dns" /\ query' \in Queries /\ dnssBlocks' = {"msg"}
  /\ UNCHANGED <<serverVars, ticks, answer>>

DnsFilters ==
  /\ stackAt = "dns"
  /\ stackAt' \in {"reply", "free"}
  /\ UNCHANGED <<serverVars, ticks, query, answer, dnssBlocks>>

(* _DnsCompareName: each label is compared with as many characters of the  *)
(* name, then one character of the name is skipped, whatever it is; after  *)
(* the last label that must be the end of the name.                        *)
Chars(i, n) == SubSeq(DnsName, i, IF i + n - 1 > Len(DnsName) THEN Len(DnsName) ELSE i + n - 1)

After(labels, k) ==
  LET pos[j \in 0 .. Len(labels)] == IF j = 0 THEN 1 ELSE pos[j - 1] + Len(labels[j]) + 1
  IN  pos[k]

SameName(labels) ==
  /\ \A k \in DOMAIN labels : Chars(After(labels, k - 1), Len(labels[k])) = labels[k]
  /\ After(labels, Len(labels)) = Len(DnsName) + 2

(* strlen(Query) - 1 > 32, a comparison of unsigned numbers.               *)
NameTooLong(q) ==
  \/ q.labels = <<>> /\ ~q.pointer
  \/ After(q.labels, Len(q.labels)) - 2 + (IF q.pointer THEN 2 ELSE 0) > NameSize

(* The possible results.  A pointer ends the comparison: what it stands    *)
(* for is not looked at, and when nothing stands before it, the byte in    *)
(* front of DnsServer.DnsName decides.                                     *)
DnsCompareName(q) ==
  IF NameTooLong(q) THEN {FALSE}
  ELSE IF q.labels = <<>> THEN BOOLEAN ELSE {SameName(q.labels)}

(* _DNSAnswerGenAndSend or _DNSNameErrGenAndSend: memory for the reply ... *)
GenReply ==
  /\ stackAt = "reply"
  /\ \/ stackAt' = "free" /\ UNCHANGED dnssBlocks
     \/ stackAt' = "send" /\ dnssBlocks' = dnssBlocks \cup {"reply"}
  /\ UNCHANGED <<serverVars, ticks, query, answer>>

(* ... a pbuf for it, which is sent and freed, or nothing is sent.         *)
SendReply ==
  /\ stackAt = "send"
  /\ dnssBlocks' = dnssBlocks \ {"reply"}
  /\ \/ UNCHANGED answer
     \/ \E own \in DnsCompareName(query) :
          answer' = IF own THEN "name" ELSE "error"
  /\ stackAt' = "free"
  /\ UNCHANGED <<serverVars, ticks, query>>

DnsDone ==
  /\ stackAt = "free"
  /\ dnssBlocks' = dnssBlocks \ {"msg"}
  /\ stackAt' = "idle"
  /\ query' = Root /\ answer' = "none"
  /\ UNCHANGED <<serverVars, ticks>>

TickThread == TickExpires \/ TickHandle \/ TickRearm
StackThread == TickThread \/ DhcpDelivered \/ DhcpAnswers \/ DnsDelivered \/ DnsFilters
               \/ GenReply \/ SendReply \/ DnsDone

LinkNext == L2LinkUp \/ L2LinkDown \/ OtherTakes \/ OtherGives \/ StackThread

LinkSpec == LinkInit /\ [][LinkNext]_linkVars
LinkFairness ==
  /\ WF_linkVars(TickHandle) /\ WF_linkVars(TickRearm) /\ SF_linkVars(TickExpires)
  /\ WF_linkVars(DhcpAnswers)
  /\ WF_linkVars(DnsFilters \/ GenReply \/ SendReply \/ DnsDone)

-----------------------------------------------------------------------------
(* Properties.                                                             *)

(* However often the AP goes up and down, and whenever it does so, no PCB  *)
(* is lost: those in use are the tasks' and those of the servers that run. *)
PcbsAccounted == DOMAIN pcbs = others \cup ({DhcpPcb, DnsPcb} \ {NoPcb})

(* DNSS_RecvCb frees what it allocated on every path.                      *)
BlocksFreed == stackAt = "idle" => dnssBlocks = {}

(* The labels of a name with sep between them.                             *)
NameOf(labels, sep) ==
  LET join[k \in 1 .. Len(labels)] ==
        IF k = 1 THEN labels[1] ELSE join[k - 1] \o <<sep>> \o labels[k]
  IN  join[Len(labels)]

(* The labels are the server's name, with any character for each dot.      *)
AlmostOwn(labels) ==
  /\ labels # <<>>
  /\ LET name == NameOf(labels, AnyChar)
     IN  /\ Len(name) = Len(DnsName)
         /\ \A i \in 1 .. Len(name) : name[i] \in {DnsName[i], AnyChar}

(* The DNS server gives its address exactly to those who ask for its name, *)
(* neither for the beginning of it nor for more, if a character that a dot *)
(* stands for is not looked at (_DnsCompareName).  Of a compressed name    *)
(* only the labels before the pointer count.                               *)
NameCompared ==
  /\ answer # "none" /\ ~query.pointer => (answer = "name" <=> AlmostOwn(query.labels))
  /\ answer = "name" => query.labels = <<>> \/ AlmostOwn(query.labels)

(* Nothing is lost on any path through L2LinkUp, L2LinkDown and            *)
(* DNSS_RecvCb, neither PCBs nor memory, and what DNSS_RecvCb answers is   *)
(* right but for the dots.                                                 *)
ServersSound == PcbsAccounted /\ BlocksFreed /\ NameCompared

(* Once the AP is stopped for good the tick handler runs out, even if the  *)
(* stop came while it was about to arm itself again.                       *)
TicksDie == <>[](~linkUp) => <>[](ticks = 0)
=============================================================================
