-------------------------- MODULE DhcpServerProofs --------------------------
(***************************************************************************)
(* Proofs about DhcpServer for any number of stations and table entries.   *)
(***************************************************************************)
EXTENDS DhcpServer, Extrema, TLAPS

-----------------------------------------------------------------------------
(* The searches of _ClientTableLookup.                                     *)

LEMMA FirstIn ==
  ASSUME NEW S, S \subseteq Entries
  PROVE  (First(S) = None /\ S = {}) \/ First(S) \in S
<1>1. S \subseteq Nat
  BY DhcpServerAssumption DEF Entries
<1>2. CASE S # {}
  <2>1. \E i \in S : \A j \in S : i <= j
    BY <1>1, <1>2, LeastElement
  <2> QED
    BY <1>2, <2>1 DEF First
<1> QED
  BY <1>2 DEF First

LEMMA LastIn ==
  ASSUME NEW S, S \subseteq Entries
  PROVE  (Last(S) = None /\ S = {}) \/ Last(S) \in S
<1>1. CASE S # {}
  <2>1. NumClients - 1 \in Nat /\ S \subseteq 0 .. NumClients - 1
    BY DhcpServerAssumption DEF Entries
  <2>2. \E i \in S : \A j \in S : i >= j
    BY <1>1, <2>1, GreatestElement
  <2> QED
    BY <1>1, <2>2 DEF Last
<1> QED
  BY <1>1 DEF Last

(* NULL is not an entry.                                                   *)
LEMMA NoneNoEntry == None \notin Entries
  BY DhcpServerAssumption DEF None, Entries

(* pMyClient is an entry of the client in use, if there is one.            *)
LEMMA MyClient ==
  ASSUME NEW m
  PROVE  \/ pMyClient(m) = None /\ \A i \in Active : Clients[i].MacAddr # m
         \/ pMyClient(m) \in Active /\ Clients[pMyClient(m)].MacAddr = m
<1> DEFINE S == {i \in Active : Clients[i].MacAddr = m}
<1>1. S \subseteq Entries
  BY DEF Active
<1>2. (Last(S) = None /\ S = {}) \/ Last(S) \in S
  BY <1>1, LastIn
<1> QED
  BY <1>2 DEF pMyClient

(* pReqClient is an idle entry with the requested address, if there is one.*)
LEMMA ReqClient ==
  ASSUME NEW ip
  PROVE  \/ pReqClient(ip) = None /\ \A i \in Idle : IpAddr(i) # ip
         \/ pReqClient(ip) \in Idle /\ IpAddr(pReqClient(ip)) = ip
<1> DEFINE S == {i \in Idle : IpAddr(i) = ip}
<1>1. S \subseteq Entries
  BY DEF Idle
<1>2. (First(S) = None /\ S = {}) \/ First(S) \in S
  BY <1>1, FirstIn
<1> QED
  BY <1>2 DEF pReqClient

(* The other searches find idle entries.                                   *)
LEMMA IdleClient ==
  ASSUME NEW m
  PROVE  /\ pMyHistoryClient(m) \in Idle \cup {None}
         /\ pFreeClient \in Idle \cup {None}
         /\ pHistoryClient \in Idle \cup {None}
<1>1. \A S \in SUBSET Idle : First(S) \in Idle \cup {None}
  BY FirstIn DEF Idle
<1> QED
  BY <1>1 DEF pMyHistoryClient, pFreeClient, pHistoryClient

(* The entry returned is idle, or the client's own; it differs from the    *)
(* client's own only if it has the requested address.                      *)
LEMMA ReturnClient ==
  ASSUME NEW m \in Macs, NEW msg \in Messages, NEW ip, NEW sid \in ServerIds
  PROVE  LET r == pReturnClient(m, msg, ip, sid)
             y == pMyClient(m)
         IN  \/ r = None
             \/ /\ msg \in {"DISCOVER", "REQUEST"}
                /\ (r \in Idle \/ r = y) /\ r # None
                /\ r # y /\ y # None => r = pReqClient(ip)
                /\ r = y => pReqClient(ip) = None
  BY MyClient, ReqClient, IdleClient DEF pReturnClient, Prefer, Messages, Idle, Active

(* Every address of the pool is a number.                                  *)
LEMMA AddressType == \A i \in Entries : IpAddr(i) \in Nat
<1>1. \A h \in Nat : Wrap(h) \in Nat
  BY DhcpServerAssumption DEF Wrap
<1> QED
  BY <1>1, DhcpServerAssumption DEF IpAddr, StartHost, Entries

-----------------------------------------------------------------------------
(* What a message does to each entry of the table.                         *)

(* The entry returned ends up with the sender, offered or bound; the       *)
(* sender's own entry, if another one is returned, ends up unused, and if  *)
(* none is returned it is left alone, dropped or kept as history; idle     *)
(* entries of the sender are cleaned by an ACK; nothing else changes.      *)
EffectOn(T, i, r, y, m, msg) ==
  /\ i = r /\ msg = "DISCOVER" =>
       T[i] = [State |-> "REQUEST", MacAddr |-> m, Timer |-> OfferTimeout]
  /\ i = r /\ msg = "REQUEST" =>
       T[i] = [State |-> "BIND", MacAddr |-> m, Timer |-> LeaseTime]
  /\ i = y /\ i # r /\ r # None =>
       T[i] = [State |-> "IDLE", MacAddr |-> NoMac, Timer |-> 0]
  /\ i = y /\ r = None =>
       T[i] = Clients[i] \/ T[i] = Dropped(Clients[i])
  /\ i # y /\ i # r =>
       T[i] = IF /\ msg = "REQUEST" /\ r # None
                 /\ Clients[i].State = "IDLE" /\ Clients[i].MacAddr = m
              THEN [Clients[i] EXCEPT !.MacAddr = NoMac]
              ELSE Clients[i]

LEMMA Effect ==
  ASSUME DhcpsTypeOK, NEW m \in Macs, NEW msg \in Messages, NEW ip, NEW sid \in ServerIds,
         NEW r, r = pReturnClient(m, msg, ip, sid),
         NEW y, y = pMyClient(m),
         NEW T, T = TableAfter(m, msg, ip, sid),
         NEW i \in Entries
  PROVE  EffectOn(T, i, r, y, m, msg)
<1> DEFINE L == ClientTableLookup(m, msg, ip, sid)
           a == Answer(m, msg, ip, sid)
           c == IF i = y THEN Mine(Clients[i], m, msg, ip) ELSE Clients[i]
<1>1. L[i] = IF i = r THEN [c EXCEPT !.MacAddr = m] ELSE c
  BY DEF ClientTableLookup
<1>2. Clients[i] \in Entry
  BY DEF DhcpsTypeOK
<1>3. r # None => r \in Entries /\ msg \in {"DISCOVER", "REQUEST"}
  BY ReturnClient, MyClient DEF Idle, Active
<1>4. r # None /\ msg = "DISCOVER" => a = "OFFER"
  <2> SUFFICES ASSUME r # None, msg = "DISCOVER" PROVE a = "OFFER"
    OBVIOUS
  <2>1. L[r].State = "IDLE"
    <3>1. L[r] = IF r = y THEN [Mine(Clients[r], m, msg, ip) EXCEPT !.MacAddr = m]
                 ELSE [Clients[r] EXCEPT !.MacAddr = m]
      BY <1>3 DEF ClientTableLookup
    <3>2. Clients[r] \in Entry
      BY <1>3 DEF DhcpsTypeOK
    <3>3. r # y => Clients[r].State = "IDLE"
      BY ReturnClient DEF Idle
    <3> QED
      BY <3>1, <3>2, <3>3 DEF Mine, Restarted, Entry
  <2> QED
    BY <2>1 DEF Answer
<1>5. r # None /\ msg = "REQUEST" => a = "ACK"
  BY DEF Answer
<1>6. r = None => a \notin {"OFFER", "ACK"}
  BY DEF Answer
<1>7. T[i] = CASE i = r /\ a = "OFFER" ->
                    [State |-> "REQUEST", MacAddr |-> m, Timer |-> OfferTimeout]
               [] i = r /\ a = "ACK" ->
                    [State |-> "BIND", MacAddr |-> m, Timer |-> LeaseTime]
               [] i # r /\ a = "ACK" /\ L[i].State = "IDLE" /\ L[i].MacAddr = m ->
                    [L[i] EXCEPT !.MacAddr = NoMac]
               [] OTHER -> L[i]
  BY DEF TableAfter
<1> HIDE DEF L, a
<1>8. i = r => i # None
  BY NoneNoEntry
<1>9. ASSUME i = y, i # r, r # None
      PROVE  T[i] = [State |-> "IDLE", MacAddr |-> NoMac, Timer |-> 0]
  <2>1. pReqClient(ip) # None /\ Clients[i].MacAddr = m /\ m # NoMac
    BY <1>9, ReturnClient, MyClient, NoneNoEntry, DhcpServerAssumption
  <2>2. CASE msg = "DISCOVER"
    <3>1. c = [State |-> "IDLE", MacAddr |-> NoMac, Timer |-> 0]
      BY <1>2, <1>9, <2>1, <2>2 DEF Mine, Restarted, Entry
    <3> QED
      BY <1>1, <1>4, <1>7, <1>9, <2>2, <3>1
  <2>3. CASE msg = "REQUEST"
    <3>1. c = Dropped(Clients[i])
      BY <1>9, <2>1, <2>3 DEF Mine
    <3>2. \/ c = [State |-> "IDLE", MacAddr |-> NoMac, Timer |-> 0]
          \/ c = [State |-> "IDLE", MacAddr |-> m, Timer |-> 0]
      BY <1>2, <2>1, <3>1 DEF Dropped, Entry
    <3> QED
      BY <1>1, <1>5, <1>7, <1>9, <2>1, <2>3, <3>2
  <2> QED
    BY <1>3, <1>9, <2>2, <2>3
<1>10. ASSUME i = y, r = None
       PROVE  T[i] = Clients[i] \/ T[i] = Dropped(Clients[i])
  <2>1. T[i] = Mine(Clients[i], m, msg, ip)
    BY <1>1, <1>6, <1>7, <1>8, <1>10
  <2>2. msg # "DISCOVER"
    <3>1. y # None
      BY <1>10, NoneNoEntry
    <3> QED
      BY <1>10, <3>1 DEF pReturnClient, Prefer
  <2> QED
    BY <2>1, <2>2 DEF Mine
<1>11. i # y /\ i # r => L[i] = Clients[i]
  BY <1>1
<1>12. i # y /\ i # r =>
         T[i] = IF /\ msg = "REQUEST" /\ r # None
                   /\ Clients[i].State = "IDLE" /\ Clients[i].MacAddr = m
                THEN [Clients[i] EXCEPT !.MacAddr = NoMac]
                ELSE Clients[i]
  BY <1>3, <1>4, <1>5, <1>6, <1>7, <1>11
<1>13. i = r /\ msg = "DISCOVER" =>
         T[i] = [State |-> "REQUEST", MacAddr |-> m, Timer |-> OfferTimeout]
  BY <1>4, <1>7, <1>8
<1>14. i = r /\ msg = "REQUEST" =>
         T[i] = [State |-> "BIND", MacAddr |-> m, Timer |-> LeaseTime]
  BY <1>5, <1>7, <1>8
<1> QED
  BY <1>9, <1>10, <1>12, <1>13, <1>14 DEF EffectOn

-----------------------------------------------------------------------------
(* Type correctness.                                                       *)

LEMMA TypeInit == DhcpsInit => DhcpsTypeOK
  BY DEF DhcpsInit, DhcpsTypeOK, FreeTable, FreeEntry, Entry

(* After a message every entry still has its type.                         *)
LEMMA TableType ==
  ASSUME DhcpsTypeOK, NEW m \in Macs, NEW msg \in Messages, NEW ip, NEW sid \in ServerIds
  PROVE  TableAfter(m, msg, ip, sid) \in [Entries -> Entry]
<1> DEFINE T == TableAfter(m, msg, ip, sid)
           r == pReturnClient(m, msg, ip, sid)
<1>1. ASSUME NEW i \in Entries PROVE T[i] \in Entry
  <2>1. Clients[i] \in Entry
    BY DEF DhcpsTypeOK
  <2>2. Dropped(Clients[i]) \in Entry /\ [Clients[i] EXCEPT !.MacAddr = NoMac] \in Entry
    BY <2>1 DEF Dropped, Entry
  <2>3. /\ [State |-> "REQUEST", MacAddr |-> m, Timer |-> OfferTimeout] \in Entry
        /\ [State |-> "BIND", MacAddr |-> m, Timer |-> LeaseTime] \in Entry
        /\ [State |-> "IDLE", MacAddr |-> NoMac, Timer |-> 0] \in Entry
    BY DhcpServerAssumption DEF Entry
  <2>4. r = None \/ msg \in {"DISCOVER", "REQUEST"}
    BY ReturnClient
  <2>5. i # None
    BY NoneNoEntry
  <2>6. EffectOn(T, i, r, pMyClient(m), m, msg)
    BY Effect
  <2> HIDE DEF T, r
  <2> QED
    BY <2>1, <2>2, <2>3, <2>4, <2>5, <2>6 DEF EffectOn
<1>2. T = [i \in Entries |-> T[i]]
  BY DEF TableAfter
<1> QED
  BY <1>1, <1>2

LEMMA TypeNext == DhcpsTypeOK /\ [DhcpsNext]_dhcpsVars => DhcpsTypeOK'
<1> SUFFICES ASSUME DhcpsTypeOK, [DhcpsNext]_dhcpsVars PROVE DhcpsTypeOK'
  OBVIOUS
<1>1. ASSUME NEW m \in Macs, DHCPS_RecvCb(m) PROVE DhcpsTypeOK'
  <2>1. PICK msg \in Messages, ip \in ReqIps, sid \in ServerIds, lost \in BOOLEAN :
          /\ Clients' = TableAfter(m, msg, ip, sid)
          /\ lease' = [lease EXCEPT ![m] = Believed(m, msg, ip, sid, lost)]
    BY <1>1 DEF DHCPS_RecvCb
  <2>2. Clients' \in [Entries -> Entry]
    BY <2>1, TableType
  <2>3. Believed(m, msg, ip, sid, lost) \in Nat
    <3>1. Answer(m, msg, ip, sid) = "ACK" =>
            IpAddr(pReturnClient(m, msg, ip, sid)) \in Nat
      BY ReturnClient, MyClient, AddressType DEF Answer, Idle, Active
    <3> QED
      BY <3>1 DEF Believed, DhcpsTypeOK
  <2> QED
    BY <1>1, <2>1, <2>2, <2>3 DEF DHCPS_RecvCb, DhcpsTypeOK
<1>2. ASSUME NEW m \in Macs, DHCPS_ClientDelete(m) PROVE DhcpsTypeOK'
  BY <1>2 DEF DHCPS_ClientDelete, DhcpsTypeOK, Entry
<1>3. ASSUME NEW m \in Macs, StationJoins(m) PROVE DhcpsTypeOK'
  BY <1>3 DEF StationJoins, DhcpsTypeOK
<1>4. ASSUME NEW m \in Macs, StationLeaves(m) PROVE DhcpsTypeOK'
  BY <1>4 DEF StationLeaves, DhcpsTypeOK
<1>5. CASE DhcpTickHandle
  <2>1. ASSUME NEW c \in Entry PROVE TickEntry(c) \in Entry
    <3>1. Elapse(c) \in Entry
      BY DEF Elapse, Entry
    <3>2. FreeEntry \in Entry /\ [c EXCEPT !.State = "IDLE", !.Timer = 0] \in Entry
      BY DEF FreeEntry, Entry
    <3> QED
      BY <3>1, <3>2 DEF TickEntry
  <2> QED
    BY <1>5, <2>1 DEF DhcpTickHandle, DhcpsTypeOK
<1>6. CASE DHCPS_Start
  BY <1>6 DEF DHCPS_Start, DhcpsTypeOK, FreeTable, FreeEntry, Entry
<1>7. CASE DHCPS_Stop
  BY <1>7 DEF DHCPS_Stop, DhcpsTypeOK, FreeTable, FreeEntry, Entry
<1>8. CASE UNCHANGED dhcpsVars
  BY <1>8 DEF dhcpsVars, DhcpsTypeOK
<1> QED
  BY <1>1, <1>2, <1>3, <1>4, <1>5, <1>6, <1>7, <1>8 DEF DhcpsNext

(* The table and the stations' view of it are well typed at all times.     *)
THEOREM TypeCorrect == DhcpsSpec => []DhcpsTypeOK
  BY TypeInit, TypeNext, PTL DEF DhcpsSpec

-----------------------------------------------------------------------------
(* One entry per client.                                                   *)

LEMMA OneEntryInit == DhcpsInit => OneEntryPerClient
  BY DEF DhcpsInit, OneEntryPerClient, FreeTable, FreeEntry

LEMMA OneEntryRecv ==
  ASSUME DhcpsTypeOK, OneEntryPerClient, NEW m \in Macs, DHCPS_RecvCb(m)
  PROVE  OneEntryPerClient'
<1>1. PICK msg \in Messages, ip \in ReqIps, sid \in ServerIds :
        Clients' = TableAfter(m, msg, ip, sid)
  BY DEF DHCPS_RecvCb
<1>r. PICK r : r = pReturnClient(m, msg, ip, sid)
  OBVIOUS
<1>y. PICK y : y = pMyClient(m)
  OBVIOUS
<1>2. r = None \/ msg = "DISCOVER" \/ msg = "REQUEST"
  BY <1>r, ReturnClient
<1>3. y \notin Entries => \A i \in Active : Clients[i].MacAddr # m
  BY <1>y, MyClient DEF Active
<1>4. y \in Entries => Clients[y].State # "IDLE" /\ Clients[y].MacAddr = m
  BY <1>y, MyClient, NoneNoEntry DEF Active, Idle
<1>5. \A i \in Entries : i # y /\ Clients[i].MacAddr = m => Clients[i].State = "IDLE"
  <2> SUFFICES ASSUME NEW i \in Entries, i # y, Clients[i].MacAddr = m,
                      Clients[i].State # "IDLE"
               PROVE  FALSE
    OBVIOUS
  <2>1. y \in Entries
    BY <1>3 DEF Active, Idle
  <2>2. {Clients[i].State, Clients[y].State} = {"REQUEST", "IDLE"}
    BY <1>4, <2>1, DhcpServerAssumption DEF OneEntryPerClient
  <2> QED
    BY <1>4, <2>1, <2>2
<1>6. SUFFICES ASSUME NEW i \in Entries, NEW j \in Entries, i # j,
                      Clients'[i].MacAddr = Clients'[j].MacAddr,
                      Clients'[i].MacAddr # NoMac
               PROVE  {Clients'[i].State, Clients'[j].State} = {"REQUEST", "IDLE"}
  BY DEF OneEntryPerClient
<1>7. \A k, l \in Entries :
        k # l /\ Clients[k].MacAddr = Clients[l].MacAddr /\ Clients[k].MacAddr # NoMac
          => {Clients[k].State, Clients[l].State} = {"REQUEST", "IDLE"}
  BY DEF OneEntryPerClient
<1>8. i # None /\ j # None /\ m # NoMac
  BY NoneNoEntry, DhcpServerAssumption
<1>9. Clients[i] \in Entry /\ Clients[j] \in Entry
  BY DEF DhcpsTypeOK
<1>e. \A k \in Entries : EffectOn(Clients', k, r, y, m, msg)
  BY <1>1, <1>r, <1>y, Effect
<1>10. CASE r = None
  <2>1. \A k \in {i, j} : k # y => Clients'[k] = Clients[k]
    BY <1>e, <1>8, <1>10 DEF EffectOn
  <2>2. \A k \in {i, j} : k = y =>
          \/ Clients'[k] = Clients[k]
          \/ Clients'[k].MacAddr = NoMac
          \/ Clients[k].State = "BIND" /\ Clients'[k].MacAddr = Clients[k].MacAddr
    <3>1. \A k \in {i, j} : k = y =>
            Clients'[k] = Clients[k] \/ Clients'[k] = Dropped(Clients[k])
      BY <1>e, <1>8, <1>10 DEF EffectOn
    <3>2. ASSUME NEW c \in Entry
          PROVE  \/ Dropped(c).MacAddr = NoMac
                 \/ c.State = "BIND" /\ Dropped(c).MacAddr = c.MacAddr
      BY DEF Dropped, Entry
    <3> QED
      BY <1>9, <3>1, <3>2
  <2> QED
    BY <1>6, <1>7, <2>1, <2>2
<1>11. CASE r # None /\ msg = "DISCOVER"
  <2>1. \A k \in {i, j} : k = r => Clients'[k].State = "REQUEST" /\ Clients'[k].MacAddr = m
    BY <1>e, <1>11 DEF EffectOn
  <2>2. \A k \in {i, j} : k # r /\ k = y => Clients'[k].MacAddr = NoMac
    BY <1>e, <1>11 DEF EffectOn
  <2>3. \A k \in {i, j} : k # r /\ k # y => Clients'[k] = Clients[k]
    BY <1>e, <1>11 DEF EffectOn
  <2> QED
    BY <1>5, <1>6, <1>7, <2>1, <2>2, <2>3
<1>12. CASE r # None /\ msg = "REQUEST"
  <2>1. \A k \in {i, j} : k = r => Clients'[k].State = "BIND" /\ Clients'[k].MacAddr = m
    <3>1. \A k \in {i, j} : k = r =>
            Clients'[k] = [State |-> "BIND", MacAddr |-> m, Timer |-> LeaseTime]
      BY <1>e, <1>12 DEF EffectOn
    <3> QED
      BY <3>1
  <2>2. \A k \in {i, j} : k # r /\ k = y => Clients'[k].MacAddr = NoMac
    <3>1. \A k \in {i, j} : k # r /\ k = y =>
            Clients'[k] = [State |-> "IDLE", MacAddr |-> NoMac, Timer |-> 0]
      BY <1>e, <1>12 DEF EffectOn
    <3> QED
      BY <3>1
  <2>3. \A k \in {i, j} : k # r /\ k # y =>
          IF Clients[k].State = "IDLE" /\ Clients[k].MacAddr = m
          THEN Clients'[k].MacAddr = NoMac ELSE Clients'[k] = Clients[k]
    <3>1. \A k \in {i, j} : k # r /\ k # y =>
            Clients'[k] = IF Clients[k].State = "IDLE" /\ Clients[k].MacAddr = m
                          THEN [Clients[k] EXCEPT !.MacAddr = NoMac] ELSE Clients[k]
      BY <1>e, <1>12 DEF EffectOn
    <3> QED
      BY <1>9, <3>1 DEF Entry
  <2> QED
    BY <1>5, <1>6, <1>7, <2>1, <2>2, <2>3
<1> QED
  BY <1>2, <1>10, <1>11, <1>12

LEMMA OneEntryNext ==
  DhcpsTypeOK /\ OneEntryPerClient /\ [DhcpsNext]_dhcpsVars => OneEntryPerClient'
<1> SUFFICES ASSUME DhcpsTypeOK, OneEntryPerClient, [DhcpsNext]_dhcpsVars PROVE OneEntryPerClient'
  OBVIOUS
<1>1. ASSUME NEW m \in Macs, DHCPS_ClientDelete(m) PROVE OneEntryPerClient'
  <2>1. PICK k \in Entries : /\ Clients[k].State = "BIND"
                             /\ Clients' = [Clients EXCEPT ![k].State = "IDLE",
                                                           ![k].Timer = 0]
    <3> DEFINE S == {i \in Active : Clients[i].MacAddr = m}
    <3>1. First(S) \in Entries
      BY <1>1, FirstIn DEF DHCPS_ClientDelete, Active
    <3> QED
      BY <1>1, <3>1 DEF DHCPS_ClientDelete
  <2>2. \A i \in Entries : /\ Clients[i] \in Entry
                           /\ Clients'[i].MacAddr = Clients[i].MacAddr
                           /\ i # k => Clients'[i].State = Clients[i].State
    BY <2>1 DEF DhcpsTypeOK, Entry
  <2>3. ASSUME NEW i \in Entries, i # k, Clients[i].MacAddr = Clients[k].MacAddr
        PROVE  Clients[k].MacAddr = NoMac
    <3>1. {Clients[i].State, Clients[k].State} # {"REQUEST", "IDLE"}
      BY <2>1
    <3> QED
      BY <2>3, <3>1 DEF OneEntryPerClient
  <2>4. SUFFICES ASSUME NEW i \in Entries, NEW j \in Entries, i # j,
                        Clients'[i].MacAddr = Clients'[j].MacAddr,
                        Clients'[i].MacAddr # NoMac
                 PROVE  {Clients'[i].State, Clients'[j].State} = {"REQUEST", "IDLE"}
    BY DEF OneEntryPerClient
  <2>5. i # k /\ j # k
    BY <2>2, <2>3, <2>4
  <2> QED
    BY <2>2, <2>4, <2>5 DEF OneEntryPerClient
<1>2. CASE DhcpTickHandle
  <2>1. \A i \in Entries :
          \/ Clients'[i].MacAddr = NoMac
          \/ /\ Clients'[i].MacAddr = Clients[i].MacAddr
             /\ \/ Clients'[i].State = Clients[i].State
                \/ Clients[i].State = "BIND"
    <3>1. ASSUME NEW c \in Entry
          PROVE  \/ TickEntry(c).MacAddr = NoMac
                 \/ /\ TickEntry(c).MacAddr = c.MacAddr
                    /\ TickEntry(c).State = c.State \/ c.State = "BIND"
      <4>1. Elapse(c).MacAddr = c.MacAddr /\ Elapse(c).State = c.State
        BY DEF Elapse, Entry
      <4>2. FreeEntry.MacAddr = NoMac
        BY DEF FreeEntry
      <4>3. [c EXCEPT !.State = "IDLE", !.Timer = 0].MacAddr = c.MacAddr
        BY DEF Entry
      <4> QED
        BY <4>1, <4>2, <4>3 DEF TickEntry
    <3> QED
      BY <1>2, <3>1 DEF DhcpTickHandle, DhcpsTypeOK
  <2> QED
    BY <2>1 DEF OneEntryPerClient
<1>3. CASE DHCPS_Start
  BY <1>3 DEF DHCPS_Start, OneEntryPerClient, FreeTable, FreeEntry
<1>4. CASE DHCPS_Stop
  BY <1>4 DEF DHCPS_Stop, OneEntryPerClient, FreeTable, FreeEntry
<1>5. CASE UNCHANGED Clients
  BY <1>5 DEF OneEntryPerClient
<1>6. ASSUME NEW m \in Macs, StationJoins(m) \/ StationLeaves(m) PROVE UNCHANGED Clients
  BY <1>6 DEF StationJoins, StationLeaves
<1> QED
  BY <1>1, <1>2, <1>3, <1>4, <1>5, <1>6, OneEntryRecv DEF DhcpsNext, dhcpsVars

(* Whatever the stations send and in whatever order, no client ever has    *)
(* two negotiations or two idle addresses in the table.                    *)
THEOREM OneEntryCorrect == DhcpsSpec => []OneEntryPerClient
  BY OneEntryInit, OneEntryNext, TypeCorrect, PTL DEF DhcpsSpec

-----------------------------------------------------------------------------
(* No takeover.                                                            *)

LEMMA DroppedMac ==
  ASSUME NEW c \in Entry
  PROVE  Dropped(c).MacAddr \in {c.MacAddr, NoMac}
  BY DEF Dropped, Entry

LEMMA TakeoverStep ==
  DhcpsTypeOK /\ [DhcpsNext]_dhcpsVars =>
    [\A i \in Entries : Clients[i].State # "IDLE" =>
       Clients'[i].MacAddr \in {Clients[i].MacAddr, NoMac}]_dhcpsVars
<1> SUFFICES ASSUME DhcpsTypeOK, DhcpsNext, NEW i \in Entries, Clients[i].State # "IDLE"
             PROVE  Clients'[i].MacAddr \in {Clients[i].MacAddr, NoMac}
  OBVIOUS
<1>0. Clients[i] \in Entry
  BY DEF DhcpsTypeOK
<1>1. ASSUME NEW m \in Macs, DHCPS_RecvCb(m)
      PROVE  Clients'[i].MacAddr \in {Clients[i].MacAddr, NoMac}
  <2>1. PICK msg \in Messages, ip \in ReqIps, sid \in ServerIds :
          Clients' = TableAfter(m, msg, ip, sid)
    BY <1>1 DEF DHCPS_RecvCb
  <2>r. PICK r : r = pReturnClient(m, msg, ip, sid)
    OBVIOUS
  <2>y. PICK y : y = pMyClient(m)
    OBVIOUS
  <2>2. i = r => i = y
    BY <2>r, <2>y, ReturnClient, NoneNoEntry DEF Idle
  <2>3. i = y => Clients[i].MacAddr = m
    BY <2>y, MyClient, NoneNoEntry
  <2>4. i = r => msg \in {"DISCOVER", "REQUEST"}
    BY <2>r, ReturnClient, NoneNoEntry
  <2>e. EffectOn(Clients', i, r, y, m, msg)
    BY <2>1, <2>r, <2>y, Effect
  <2>5. CASE i = r
    <3>1. \/ Clients'[i] = [State |-> "REQUEST", MacAddr |-> m, Timer |-> OfferTimeout]
          \/ Clients'[i] = [State |-> "BIND", MacAddr |-> m, Timer |-> LeaseTime]
      BY <2>e, <2>4, <2>5 DEF EffectOn
    <3> QED
      BY <2>2, <2>3, <2>5, <3>1
  <2>6. CASE i # r /\ i = y
    <3>1. \/ Clients'[i] = [State |-> "IDLE", MacAddr |-> NoMac, Timer |-> 0]
          \/ Clients'[i] = Clients[i]
          \/ Clients'[i] = Dropped(Clients[i])
      BY <2>e, <2>6 DEF EffectOn
    <3> QED
      BY <1>0, <3>1, DroppedMac
  <2>7. CASE i # r /\ i # y
    <3>1. Clients'[i] = Clients[i]
      BY <2>e, <2>7 DEF EffectOn
    <3> QED
      BY <3>1
  <2> QED
    BY <2>5, <2>6, <2>7
<1>2. ASSUME NEW m \in Macs, DHCPS_ClientDelete(m)
      PROVE  Clients'[i].MacAddr = Clients[i].MacAddr
  BY <1>2 DEF DHCPS_ClientDelete, DhcpsTypeOK, Entry
<1>3. ASSUME NEW m \in Macs, StationJoins(m) \/ StationLeaves(m) PROVE UNCHANGED Clients
  BY <1>3 DEF StationJoins, StationLeaves
<1>4. CASE DhcpTickHandle
  <2>1. /\ Elapse(Clients[i]).MacAddr = Clients[i].MacAddr
        /\ FreeEntry.MacAddr = NoMac
        /\ [Clients[i] EXCEPT !.State = "IDLE", !.Timer = 0].MacAddr = Clients[i].MacAddr
    BY <1>0 DEF Elapse, FreeEntry, Entry
  <2>2. Clients'[i] = TickEntry(Clients[i])
    BY <1>4 DEF DhcpTickHandle
  <2> QED
    BY <2>1, <2>2 DEF TickEntry
<1>5. CASE DHCPS_Start \/ DHCPS_Stop
  BY <1>5 DEF DHCPS_Start, DHCPS_Stop, FreeTable, FreeEntry
<1> QED
  BY <1>1, <1>2, <1>3, <1>4, <1>5 DEF DhcpsNext

(* No step gives an entry in use to another client.                        *)
THEOREM NoTakeoverCorrect == DhcpsSpec => NoTakeover
  BY TypeCorrect, TakeoverStep, PTL DEF DhcpsSpec, NoTakeover

-----------------------------------------------------------------------------
(* Leases.  The pool must not wrap round the end of the subnet.            *)

PoolFits == ServerHost + NumClients < HostMask

LEMMA PoolDistinct ==
  ASSUME PoolFits
  PROVE  \A i, j \in Entries : IpAddr(i) # 0 /\ (IpAddr(i) = IpAddr(j) => i = j)
<1>1. \A h \in 1 .. HostMask - 1 : Wrap(h) = h
  BY DhcpServerAssumption DEF Wrap
<1>2. StartHost = ServerHost + 1
  BY <1>1, DhcpServerAssumption DEF PoolFits, StartHost
<1>3. \A i \in Entries : IpAddr(i) = ServerHost + 1 + i
  BY <1>1, <1>2, DhcpServerAssumption DEF PoolFits, IpAddr, Entries
<1> QED
  BY <1>3, DhcpServerAssumption DEF Entries

(* An address in use is bound to the station that uses it.                 *)
LeaseInv ==
  \A n \in Macs : lease[n] # 0 =>
    /\ Enable = 1
    /\ n \in assoc
    /\ \E i \in Entries : /\ Clients[i].State = "BIND"
                          /\ Clients[i].MacAddr = n
                          /\ IpAddr(i) = lease[n]

LEMMA LeaseInit == DhcpsInit => LeaseInv
  BY DEF DhcpsInit, LeaseInv

LEMMA LeaseRecv ==
  ASSUME PoolFits, DhcpsTypeOK, OneEntryPerClient, LeaseInv, NEW m \in Macs, DHCPS_RecvCb(m)
  PROVE  LeaseInv'
<1>1. PICK msg \in Messages, ip \in ReqIps, sid \in ServerIds, lost \in BOOLEAN :
        /\ Clients' = TableAfter(m, msg, ip, sid)
        /\ lease' = [lease EXCEPT ![m] = Believed(m, msg, ip, sid, lost)]
  BY DEF DHCPS_RecvCb
<1>r. PICK r : r = pReturnClient(m, msg, ip, sid)
  OBVIOUS
<1>y. PICK y : y = pMyClient(m)
  OBVIOUS
<1>e. \A k \in Entries : EffectOn(Clients', k, r, y, m, msg)
  BY <1>1, <1>r, <1>y, Effect
<1>2. SUFFICES ASSUME NEW n \in Macs, lease'[n] # 0
               PROVE  \E i \in Entries : /\ Clients'[i].State = "BIND"
                                         /\ Clients'[i].MacAddr = n
                                         /\ IpAddr(i) = lease'[n]
  <2>1. Enable' = 1 /\ assoc' = assoc /\ m \in assoc
    BY DEF DHCPS_RecvCb
  <2>2. \A n \in Macs : lease'[n] # 0 => n \in assoc
    BY <1>1, <2>1 DEF LeaseInv, DhcpsTypeOK
  <2> QED
    BY <2>1, <2>2 DEF LeaseInv
<1>3. CASE n # m
  <2>1. lease'[n] = lease[n]
    BY <1>1, <1>3 DEF DhcpsTypeOK
  <2>2. PICK i \in Entries : /\ Clients[i].State = "BIND"
                             /\ Clients[i].MacAddr = n
                             /\ IpAddr(i) = lease[n]
    BY <1>2, <2>1 DEF LeaseInv
  <2>3. i # y
    BY <1>3, <1>y, <2>2, MyClient, NoneNoEntry
  <2>4. i # r
    BY <1>r, <1>y, <2>2, <2>3, ReturnClient, NoneNoEntry DEF Idle
  <2>5. Clients'[i] = Clients[i]
    BY <1>e, <2>2, <2>3, <2>4 DEF EffectOn
  <2> QED
    BY <2>1, <2>2, <2>5
<1>4. CASE n = m /\ ~lost /\ Answer(m, msg, ip, sid) = "ACK"
  <2>1. r \in Entries
    BY <1>4, <1>r, ReturnClient, MyClient DEF Answer, Idle, Active
  <2>2. Clients'[r] = [State |-> "BIND", MacAddr |-> m, Timer |-> LeaseTime]
    BY <1>1, <1>r, <1>4, <2>1 DEF TableAfter
  <2>3. lease'[m] = IpAddr(r)
    BY <1>1, <1>r, <1>4 DEF Believed, DhcpsTypeOK
  <2> QED
    BY <1>4, <2>1, <2>2, <2>3
<1>5. CASE n = m /\ ~(~lost /\ Answer(m, msg, ip, sid) = "ACK")
  <2>1. lease'[m] = lease[m] /\ Keeps(m, msg, ip, sid)
    <3>1. lease'[m] = Believed(m, msg, ip, sid, lost)
      BY <1>1 DEF DhcpsTypeOK
    <3> QED
      BY <1>2, <1>5, <3>1 DEF Believed
  <2>2. PICK i \in Entries : /\ Clients[i].State = "BIND"
                             /\ Clients[i].MacAddr = m
                             /\ IpAddr(i) = lease[m]
    BY <1>2, <1>5, <2>1 DEF LeaseInv
  <2>3. i = y
    <3>1. y \in Entries /\ Clients[y].MacAddr = m
      BY <1>y, <2>2, MyClient DEF Active, Idle
    <3>2. {Clients[i].State, Clients[y].State} # {"REQUEST", "IDLE"}
      BY <2>2
    <3> QED
      BY <2>2, <3>1, <3>2, DhcpServerAssumption DEF OneEntryPerClient
  <2>4. CASE msg = "INFORM"
    <3>1. r = None /\ Answer(m, msg, ip, sid) = "NAK"
      BY <1>r, <2>4 DEF pReturnClient, Answer
    <3>2. ClientTableLookup(m, msg, ip, sid)[i] = Clients[i]
      BY <1>r, <2>4, <3>1, NoneNoEntry DEF ClientTableLookup, Mine
    <3>3. Clients'[i] = Clients[i]
      BY <1>1, <3>1, <3>2 DEF TableAfter
    <3> QED
      BY <1>5, <2>1, <2>2, <3>3
  <2>5. CASE msg = "REQUEST" /\ ip \in {0, lease[m]} /\ sid = "absent"
    <3>1. pReqClient(ip) = None
      <4>1. \A k \in Idle : IpAddr(k) # ip
        BY <2>2, <2>5, PoolDistinct DEF Idle
      <4> QED
        BY <4>1, ReqClient
    <3>2. ~IpUnavailable(m, ip)
      BY <2>2, <2>5, PoolDistinct DEF IpUnavailable, Active
    <3>3. r = i
      BY <1>r, <1>y, <2>3, <2>5, <3>1, <3>2 DEF pReturnClient, Prefer
    <3>4. Clients'[i] = [State |-> "BIND", MacAddr |-> m, Timer |-> LeaseTime]
      BY <1>e, <2>5, <3>3 DEF EffectOn
    <3> QED
      BY <1>5, <2>1, <2>2, <3>4
  <2> QED
    BY <2>1, <2>4, <2>5 DEF Keeps
<1> QED
  BY <1>3, <1>4, <1>5

LEMMA LeaseNext ==
  ASSUME PoolFits
  PROVE  DhcpsTypeOK /\ OneEntryPerClient /\ LeaseInv /\ [DhcpsNext]_dhcpsVars => LeaseInv'
<1> SUFFICES ASSUME DhcpsTypeOK, OneEntryPerClient, LeaseInv, [DhcpsNext]_dhcpsVars PROVE LeaseInv'
  OBVIOUS
<1>1. ASSUME NEW m \in Macs, DHCPS_ClientDelete(m) PROVE LeaseInv'
  <2>1. PICK k \in Entries : /\ Clients[k].MacAddr = m
                             /\ Clients' = [Clients EXCEPT ![k].State = "IDLE",
                                                           ![k].Timer = 0]
    <3> DEFINE S == {i \in Active : Clients[i].MacAddr = m}
    <3>1. S # {} /\ S \subseteq Entries
      BY <1>1 DEF DHCPS_ClientDelete, Active
    <3>2. First(S) \in S
      BY <3>1, FirstIn
    <3> QED
      BY <1>1, <3>1, <3>2 DEF DHCPS_ClientDelete
  <2>2. m \notin assoc /\ UNCHANGED <<Enable, assoc, lease>>
    BY <1>1 DEF DHCPS_ClientDelete
  <2>3. \A i \in Entries : i # k => Clients'[i] = Clients[i]
    BY <2>1 DEF DhcpsTypeOK
  <2>4. ASSUME NEW n \in Macs, lease[n] # 0
        PROVE  \E i \in Entries : /\ Clients'[i].State = "BIND"
                                  /\ Clients'[i].MacAddr = n
                                  /\ IpAddr(i) = lease[n]
    <3>1. PICK i \in Entries : /\ Clients[i].State = "BIND"
                               /\ Clients[i].MacAddr = n
                               /\ IpAddr(i) = lease[n]
      BY <2>4 DEF LeaseInv
    <3>2. n # m
      BY <2>2, <2>4 DEF LeaseInv
    <3>3. Clients'[i] = Clients[i]
      BY <2>1, <2>3, <3>1, <3>2
    <3> QED
      BY <3>1, <3>3
  <2> QED
    BY <2>2, <2>4 DEF LeaseInv
<1>2. CASE DhcpTickHandle
  <2> SUFFICES ASSUME NEW n \in Macs, lease'[n] # 0
               PROVE  /\ Enable' = 1
                      /\ n \in assoc'
                      /\ \E i \in Entries : /\ Clients'[i].State = "BIND"
                                            /\ Clients'[i].MacAddr = n
                                            /\ IpAddr(i) = lease'[n]
    BY DEF LeaseInv
  <2>1. /\ lease'[n] = lease[n]
        /\ \A i \in Entries : Clients[i].State = "BIND" /\ Clients[i].MacAddr = n
                                => Clients[i].Timer # 1
    BY <1>2 DEF DhcpTickHandle
  <2>2. PICK i \in Entries : /\ Clients[i].State = "BIND"
                             /\ Clients[i].MacAddr = n
                             /\ IpAddr(i) = lease[n]
    BY <2>1 DEF LeaseInv
  <2>3. n \in assoc
    BY <2>1 DEF LeaseInv
  <2>4. Clients'[i] = Elapse(Clients[i])
    BY <1>2, <2>1, <2>2, <2>3 DEF DhcpTickHandle, TickEntry
  <2>5. Clients'[i].State = "BIND" /\ Clients'[i].MacAddr = n
    BY <2>2, <2>4 DEF Elapse, DhcpsTypeOK, Entry
  <2> QED
    BY <1>2, <2>1, <2>2, <2>3, <2>5 DEF DhcpTickHandle
<1>3. CASE DHCPS_Start
  BY <1>3 DEF DHCPS_Start, LeaseInv
<1>4. CASE DHCPS_Stop
  BY <1>4 DEF DHCPS_Stop, LeaseInv
<1>5. ASSUME NEW m \in Macs, StationJoins(m) PROVE LeaseInv'
  BY <1>5 DEF StationJoins, LeaseInv
<1>6. ASSUME NEW m \in Macs, StationLeaves(m) PROVE LeaseInv'
  BY <1>6 DEF StationLeaves, LeaseInv, DhcpsTypeOK
<1>7. CASE UNCHANGED dhcpsVars
  BY <1>7 DEF dhcpsVars, LeaseInv
<1> QED
  BY <1>1, <1>2, <1>3, <1>4, <1>5, <1>6, <1>7, LeaseRecv DEF DhcpsNext

(* When the pool fits between the server's address and the end of the      *)
(* subnet, two stations never use the same address: not after lost         *)
(* answers, expired leases, restarted negotiations or stations that left.  *)
THEOREM NoSharedLeaseCorrect ==
  ASSUME PoolFits
  PROVE  DhcpsSpec => []NoSharedLease
<1>1. LeaseInv => NoSharedLease
  <2> SUFFICES ASSUME LeaseInv, NEW m \in Macs, NEW n \in Macs,
                      lease[m] = lease[n], lease[m] # 0
               PROVE  m = n
    BY DEF NoSharedLease
  <2>1. PICK i \in Entries : Clients[i].MacAddr = m /\ IpAddr(i) = lease[m]
    BY DEF LeaseInv
  <2>2. PICK j \in Entries : Clients[j].MacAddr = n /\ IpAddr(j) = lease[n]
    BY DEF LeaseInv
  <2> QED
    BY <2>1, <2>2, PoolDistinct
<1>2. DhcpsTypeOK /\ OneEntryPerClient /\ LeaseInv /\ [DhcpsNext]_dhcpsVars => LeaseInv'
  BY LeaseNext
<1> QED
  BY <1>1, <1>2, LeaseInit, TypeCorrect, OneEntryCorrect, PTL DEF DhcpsSpec
=============================================================================
