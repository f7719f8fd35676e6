----------------------------- MODULE DhcpServer -----------------------------
(***************************************************************************)
(* The DHCP server of the soft access point, App/DhcpServer/dhcp_server.c: *)
(* a table of NumClients entries, each with a fixed address, a state and   *)
(* the MAC address of its present or last client.  Messages and the one-   *)
(* second tick are handled by lwIP's tcpip thread, one at a time; the      *)
(* system management task starts and stops the server with the link.       *)
(*                                                                         *)
(* All addresses lie in the server's subnet and are represented by their   *)
(* host part.  Messages without a type, with a wrong magic number or       *)
(* hardware type are dropped by DHCPS_RecvCb and are left out.             *)
(***************************************************************************)
EXTENDS Integers, FiniteSets

CONSTANTS
  Macs,          \* MAC addresses of the stations
  NoMac,         \* the all-zero MAC address of an unused entry
  NumClients,    \* DHCPS_HISTORY_CLIENT_NUM
  ServerHost,    \* host part of the server's own address
  HostMask,      \* ~Mask
  OfferTimeout,  \* DHCP_DEFFAULT_TIMEOUT, in ticks
  LeaseTime      \* DHCP_DEFAULT_LEASE_TIME, in ticks

ASSUME DhcpServerAssumption ==
  /\ NoMac \notin Macs
  /\ NumClients \in Nat \ {0}
  /\ HostMask \in Nat \ {0}
  /\ ServerHost \in 1 .. HostMask - 1
  /\ OfferTimeout \in Nat \ {0}
  /\ LeaseTime \in Nat \ {0}

Entries == 0 .. NumClients - 1
None == -1                        \* NULL

Messages == {"DISCOVER", "REQUEST", "DECLINE", "RELEASE", "INFORM"}
ServerIds == {"absent", "mine", "foreign"}
Replies == {"ACK", "NAK", "OFFER", "nothing"}

VARIABLES
  Enable,   \* DhcpServer.Enable
  Clients,  \* DhcpServer.Clients; Timer is Timeout in state REQUEST, Lease in BIND
  assoc,    \* the stations APGetStationStatus reports
  lease     \* the address each station believes it holds, 0 when none

dhcpsVars == <<Enable, Clients, assoc, lease>>

-----------------------------------------------------------------------------
(* The address pool computed by DHCPS_Start.                               *)

Wrap(h) == IF h % HostMask # 0 THEN h % HostMask ELSE 1
StartHost == Wrap(ServerHost + 1)
IpAddr(i) == Wrap(StartHost + i)

Entry == [State : {"IDLE", "REQUEST", "BIND"}, MacAddr : Macs \cup {NoMac},
          Timer : Nat]
FreeEntry == [State |-> "IDLE", MacAddr |-> NoMac, Timer |-> 0]
FreeTable == [i \in Entries |-> FreeEntry]

DhcpsTypeOK ==
  /\ Enable \in {0, 1}
  /\ Clients \in [Entries -> Entry]
  /\ assoc \in SUBSET Macs
  /\ lease \in [Macs -> Nat]

DhcpsInit ==
  /\ Enable = 0
  /\ Clients = FreeTable
  /\ assoc = {}
  /\ lease = [m \in Macs |-> 0]

-----------------------------------------------------------------------------
(* _ClientTableLookup.                                                     *)

First(S) == IF S = {} THEN None ELSE CHOOSE i \in S : \A j \in S : i <= j
Last(S) == IF S = {} THEN None ELSE CHOOSE i \in S : \A j \in S : i >= j

Idle == {i \in Entries : Clients[i].State = "IDLE"}
Active == Entries \ Idle

(* Variant: entries in use are not skipped.                                *)
pReqClientAny(ip) == First({i \in Entries : IpAddr(i) = ip})

pMyHistoryClient(m) == First({i \in Idle : Clients[i].MacAddr = m})
pReqClient(ip)      == First({i \in Idle : IpAddr(i) = ip})
pFreeClient         == First({i \in Idle : Clients[i].MacAddr = NoMac})
pHistoryClient      == First({i \in Idle : Clients[i].MacAddr # NoMac})
pMyClient(m)        == Last({i \in Active : Clients[i].MacAddr = m})
IpUnavailable(m, ip) == \E i \in Active : Clients[i].MacAddr # m /\ IpAddr(i) = ip

(* The first of the candidates that is not NULL.                           *)
Prefer(a, b) == IF a # None THEN a ELSE b

(* pReturnClient.                                                          *)
pReturnClient(m, msg, ip, sid) ==
  CASE msg = "DISCOVER" ->
         Prefer(pReqClient(ip),
           Prefer(pMyClient(m),
             Prefer(pMyHistoryClient(m), Prefer(pFreeClient, pHistoryClient))))
    [] msg = "REQUEST" ->
         IF IpUnavailable(m, ip) \/ sid = "foreign"
         THEN None
         ELSE Prefer(pReqClient(ip), pMyClient(m))
    [] OTHER -> None

(* An entry given up keeps its MAC address only if it was bound.           *)
Dropped(c) ==
  [c EXCEPT !.State = "IDLE", !.Timer = 0,
            !.MacAddr = IF c.State = "BIND" THEN @ ELSE NoMac]

(* A client that starts over loses its MAC address in the table, bound or  *)
(* not (its state is cleared before it is looked at), unless it gets the   *)
(* same entry again.                                                       *)
Restarted(c, ip) ==
  [c EXCEPT !.State = "IDLE", !.Timer = 0,
            !.MacAddr = IF pReqClient(ip) # None THEN NoMac ELSE @]

(* What becomes of the entry of the client's present negotiation.          *)
Mine(c, m, msg, ip) ==
  CASE msg = "DISCOVER" -> Restarted(c, ip)
    [] msg = "REQUEST" ->
         IF IpUnavailable(m, ip) \/ pReqClient(ip) # None THEN Dropped(c) ELSE c
    [] msg \in {"RELEASE", "DECLINE"} -> Dropped(c)
    [] OTHER -> c

(* The table when _ClientTableLookup returns.                              *)
ClientTableLookup(m, msg, ip, sid) ==
  [i \in Entries |->
     LET c == IF i = pMyClient(m) THEN Mine(Clients[i], m, msg, ip) ELSE Clients[i]
     IN  IF i = pReturnClient(m, msg, ip, sid) THEN [c EXCEPT !.MacAddr = m] ELSE c]
-----------------------------------------------------------------------------
(* DHCPS_RecvCb.                                                           *)

(* _DhcpClientSMEHandle: an idle entry answers DISCOVER with OFFER (by way *)
(* of state SELECT, which it leaves in the same call); every other REQUEST *)
(* that gets here is acknowledged.  Without an entry the client gets NAK,  *)
(* except for RELEASE and DECLINE.                                         *)
Answer(m, msg, ip, sid) ==
  LET r == pReturnClient(m, msg, ip, sid)
  IN  IF r = None
      THEN IF msg \in {"RELEASE", "DECLINE"} THEN "nothing" ELSE "NAK"
      ELSE IF ClientTableLookup(m, msg, ip, sid)[r].State = "IDLE" /\ msg # "REQUEST"
      THEN "OFFER" ELSE "ACK"

(* Variant: the history is not cleaned.                                    *)
TableAfterNoClean(m, msg, ip, sid) ==
  LET r == pReturnClient(m, msg, ip, sid)
      T == ClientTableLookup(m, msg, ip, sid)
      a == Answer(m, msg, ip, sid)
  IN  [i \in Entries |->
         CASE i = r /\ a = "OFFER" ->
                [State |-> "REQUEST", MacAddr |-> m, Timer |-> OfferTimeout]
           [] i = r /\ a = "ACK" ->
                [State |-> "BIND", MacAddr |-> m, Timer |-> LeaseTime]
           [] OTHER -> T[i]]

(* Variant: the timeout of an offer is not set.                            *)
TableAfterNoTimeout(m, msg, ip, sid) ==
  LET r == pReturnClient(m, msg, ip, sid)
      T == ClientTableLookup(m, msg, ip, sid)
      a == Answer(m, msg, ip, sid)
  IN  [i \in Entries |->
         CASE i = r /\ a = "OFFER" -> [T[i] EXCEPT !.State = "REQUEST"]
           [] i = r /\ a = "ACK" ->
                [State |-> "BIND", MacAddr |-> m, Timer |-> LeaseTime]
           [] i # r /\ a = "ACK" /\ T[i].State = "IDLE" /\ T[i].MacAddr = m ->
                [T[i] EXCEPT !.MacAddr = NoMac]
           [] OTHER -> T[i]]

(* The table after the message; an ACK also cleans the client's history.   *)
TableAfter(m, msg, ip, sid) ==
  LET r == pReturnClient(m, msg, ip, sid)
      T == ClientTableLookup(m, msg, ip, sid)
      a == Answer(m, msg, ip, sid)
  IN  [i \in Entries |->
         CASE i = r /\ a = "OFFER" ->
                [State |-> "REQUEST", MacAddr |-> m, Timer |-> OfferTimeout]
           [] i = r /\ a = "ACK" ->
                [State |-> "BIND", MacAddr |-> m, Timer |-> LeaseTime]
           [] i # r /\ a = "ACK" /\ T[i].State = "IDLE" /\ T[i].MacAddr = m ->
                [T[i] EXCEPT !.MacAddr = NoMac]
           [] OTHER -> T[i]]

(* The station's side, from the DHCP protocol: a station goes on using its *)
(* address while it renews it (REQUEST for no other address and without a  *)
(* server identifier) or asks for parameters; by any other message it has  *)
(* given the address up.  It takes the address of an ACK and stops using   *)
(* its address on a NAK, unless the answer is lost.                        *)
Keeps(m, msg, ip, sid) ==
  \/ msg = "REQUEST" /\ ip \in {0, lease[m]} /\ sid = "absent"
  \/ msg = "INFORM"

Believed(m, msg, ip, sid, lost) ==
  LET a == Answer(m, msg, ip, sid)
  IN  CASE ~lost /\ a = "ACK" -> IpAddr(pReturnClient(m, msg, ip, sid))
        [] ~lost /\ a = "NAK" -> 0
        [] OTHER -> IF Keeps(m, msg, ip, sid) THEN lease[m] ELSE 0

(* Addresses a station may ask for: none, one of the pool, another one.    *)
ReqIps == {IpAddr(i) : i \in Entries} \cup {0, ServerHost}

DHCPS_RecvCb(m) ==
  /\ Enable = 1
  /\ m \in assoc
  /\ \E msg \in Messages, ip \in ReqIps, sid \in ServerIds, lost \in BOOLEAN :
       /\ Clients' = TableAfter(m, msg, ip, sid)
       /\ lease' = [lease EXCEPT ![m] = Believed(m, msg, ip, sid, lost)]
  /\ UNCHANGED <<Enable, assoc>>

-----------------------------------------------------------------------------
(* _DhcpTickHandle, once a second while the server is enabled.             *)

(* A timer at zero stays there.                                            *)
Elapse(c) == [c EXCEPT !.Timer = IF @ > 0 THEN @ - 1 ELSE 0]

(* An unanswered offer is forgotten, MAC address included; a lease that    *)
(* ends, or whose station has left, becomes history.                       *)
TickEntry(c) ==
  CASE c.State = "REQUEST" -> IF c.Timer = 1 THEN FreeEntry ELSE Elapse(c)
    [] c.State = "BIND" ->
         IF c.Timer = 1 \/ c.MacAddr \notin assoc
         THEN [c EXCEPT !.State = "IDLE", !.Timer = 0]
         ELSE Elapse(c)
    [] OTHER -> c

(* The station's own lease timer ends no later than the server's.          *)
DhcpTickHandle ==
  /\ Enable = 1
  /\ Clients' = [i \in Entries |-> TickEntry(Clients[i])]
  /\ lease' = [m \in Macs |->
                 IF \E i \in Entries : /\ Clients[i].State = "BIND"
                                       /\ Clients[i].Timer = 1
                                       /\ Clients[i].MacAddr = m
                 THEN 0 ELSE lease[m]]
  /\ UNCHANGED <<Enable, assoc>>

-----------------------------------------------------------------------------
(* Control.                                                                *)

(* DHCPS_ClientDelete frees a bound entry.  It has no caller in this       *)
(* repository; it is meant for a station the access point has dropped.     *)
DHCPS_ClientDelete(m) ==
  /\ Enable = 1
  /\ m \notin assoc
  /\ LET S == {i \in Active : Clients[i].MacAddr = m}
     IN  /\ S # {}
         /\ Clients[First(S)].State = "BIND"
         /\ Clients' = [Clients EXCEPT ![First(S)].State = "IDLE",
                                       ![First(S)].Timer = 0]
  /\ UNCHANGED <<Enable, assoc, lease>>

(* DHCPS_Start on link up; the PCB may not be available.                   *)
DHCPS_Start ==
  /\ Enable = 0
  /\ Enable' \in {0, 1}
  /\ Clients' = FreeTable
  /\ UNCHANGED <<assoc, lease>>

(* DHCPS_Stop on link down: with the access point all stations are gone.   *)
DHCPS_Stop ==
  /\ Enable' = 0
  /\ Clients' = FreeTable
  /\ assoc' = {}
  /\ lease' = [m \in Macs |-> 0]

(* A station joins the access point, or leaves without a message.          *)
StationJoins(m) ==
  /\ m \notin assoc
  /\ assoc' = assoc \cup {m}
  /\ UNCHANGED <<Enable, Clients, lease>>

StationLeaves(m) ==
  /\ m \in assoc
  /\ assoc' = assoc \ {m}
  /\ lease' = [lease EXCEPT ![m] = 0]
  /\ UNCHANGED <<Enable, Clients>>

DhcpsNext ==
  \/ \E m \in Macs : \/ DHCPS_RecvCb(m) \/ DHCPS_ClientDelete(m)
                     \/ StationJoins(m) \/ StationLeaves(m)
  \/ DhcpTickHandle \/ DHCPS_Start \/ DHCPS_Stop

DhcpsSpec == DhcpsInit /\ [][DhcpsNext]_dhcpsVars

(* Fairness: sys_timeout re-arms the tick as long as the server runs.      *)
FairDhcpsSpec == DhcpsSpec /\ WF_dhcpsVars(DhcpTickHandle)
-----------------------------------------------------------------------------
(* Properties.                                                             *)

(* Two entries carry the MAC address of the same client only while one is  *)
(* an open offer and the other its history: _ClientTableLookup never has   *)
(* to choose between two negotiations of a client, a bound client has no   *)
(* history left, and no client ties up two idle addresses.                 *)
OneEntryPerClient ==
  \A i, j \in Entries :
    i # j /\ Clients[i].MacAddr = Clients[j].MacAddr /\ Clients[i].MacAddr # NoMac
      => {Clients[i].State, Clients[j].State} = {"REQUEST", "IDLE"}

(* Two stations never use the same address, whatever they ask for and      *)
(* whichever answers are lost, provided the pool does not wrap round.      *)
NoSharedLease ==
  \A m, n \in Macs : lease[m] = lease[n] /\ lease[m] # 0 => m = n

(* An entry in use is never handed from one client to another in one step: *)
(* it has to become idle first, so no message of one station takes away    *)
(* the address another one has been offered or given.                      *)
NoTakeover ==
  [][\A i \in Entries : Clients[i].State # "IDLE" =>
       Clients'[i].MacAddr \in {Clients[i].MacAddr, NoMac}]_dhcpsVars

(* The entries of a station that has left become available again: the tick *)
(* ends its lease and its open offer, neither timer can get stuck.         *)
Reclaimed ==
  \A m \in Macs :
    m \notin assoc ~> \/ m \in assoc
                      \/ \A i \in Active : Clients[i].MacAddr # m
=============================================================================
