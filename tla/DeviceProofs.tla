---------------------------- MODULE DeviceProofs ----------------------------
(***************************************************************************)
(* Proofs about the parts of DeviceParts: the NTP client, the servers of   *)
(* the soft AP, the resolver, the ring buffer, which implements Fifo, and  *)
(* the heap of os_dmem.c.                                                  *)
(***************************************************************************)
EXTENDS DeviceParts, Extrema, FiniteSetTheorems, SequenceTheorems, TLAPS

-----------------------------------------------------------------------------
(* The NTP client.                                                         *)

(* What the ticks of whole seconds are, with and without overflow.         *)
LEMMA WholeSeconds ==
  ASSUME NEW n \in Nat, NEW m \in Nat, NEW T \in Nat \ {0}
  PROVE  /\ n * T \in Nat
         /\ (n + 1) * T = n * T + T
         /\ (n * T) \div T = n
         /\ (n + m) * T >= m * T
<1>1. n * T \in Nat /\ m * T \in Nat /\ (n + 1) * T = n * T + T
  BY SMT
<1>2. (n + m) * T = n * T + m * T
  BY SMT
<1>3. (n * T) \div T = n
  BY SMT
<1> QED BY <1>1, <1>2, <1>3, SMT

(* The remainder of a number is the number itself below the modulus.       *)
LEMMA SmallMod ==
  ASSUME NEW a \in Nat, NEW m \in Nat \ {0}
  PROVE  /\ a < m => a % m = a
         /\ a % m \in 0 .. m - 1
BY SMT

(* Who holds which descriptor, at each place of the NTP task.              *)
NtpSockets ==
  /\ ntp \in {"loop", "create", "failed"} => \A f \in Fd : fdOwner[f] # "ntp"
  /\ ntp \in {"select", "recv", "close"} =>
       sockfd \in Fd /\ \A f \in Fd : fdOwner[f] = "ntp" <=> f = sockfd
  /\ ntp = "failed" => recvFailed /\ sockfd \in Fd
  /\ foreign => recvFailed

(* The counter of tries runs over only once the task is back in the loop.  *)
NtpTries == ntp # "loop" => ntp_count <= MaxTries

(* Seconds from the epoch to the time the clock should show.               *)
Elapsed == synced.time - Epoch + synced.since

(* As long as the ticks since the epoch fit the counter, it holds them.    *)
NtpClock ==
  synced # NotSynced =>
    /\ synced \in [time : Nat, since : Nat] /\ synced.time >= Epoch
    /\ Elapsed * TicksPerSec < TickMod => OSTime = Elapsed * TicksPerSec

(* The inductive invariant of the NTP client.                              *)
NtpInv == NtpTypeOK /\ NtpTries /\ NtpSockets /\ NtpClock

(* The invariant holds at first, and every step keeps it, layer by layer.  *)
LEMMA NtpInvInit == NtpInit => NtpInv
<1> SUFFICES ASSUME NtpInit PROVE NtpInv
  OBVIOUS
<1> USE NtpAssumption DEF NtpInit
<1>1. recvFailed \in BOOLEAN /\ foreign \in BOOLEAN
  BY Zenon
<1>2. NtpTypeOK
  BY <1>1, SMT DEF NtpTypeOK
<1>3. NtpTries /\ NtpSockets /\ NtpClock
  BY SMT DEF NtpTries, NtpSockets, NtpClock
<1> QED BY <1>2, <1>3 DEF NtpInv

LEMMA NtpTypeStep == NtpTypeOK /\ NtpTries /\ NtpSockets /\ [NtpNext]_ntpVars => NtpTypeOK' /\ NtpTries'
<1> SUFFICES ASSUME NtpTypeOK, NtpTries, NtpSockets, [NtpNext]_ntpVars
             PROVE  NtpTypeOK' /\ NtpTries'
  OBVIOUS
<1> USE NtpAssumption DEF NtpTypeOK, NtpTries, NtpSockets, SocketClosed, NtpReturned, clockVars
<1>1. CASE NtpTry
  BY <1>1 DEF NtpTry
<1>2. CASE CreateNtpClientSockfd
  BY <1>2 DEF CreateNtpClientSockfd
<1>3. CASE SelectTimeout
  BY <1>3 DEF SelectTimeout
<1>4. CASE SelectReady
  BY <1>4 DEF SelectReady
<1>5. CASE RecvNtpPacked
  <2>1. PICK t \in ServerTime : OSTime' = ModifyLocalTime(t)
    BY <1>5 DEF RecvNtpPacked
  <2>2. (t - Epoch) * TicksPerSec \in Nat
    <3>1. t - Epoch \in Nat
      BY SMT
    <3> QED BY <3>1, WholeSeconds
  <2>3. OSTime' \in 0 .. TickMod - 1
    BY <2>1, <2>2, SmallMod DEF ModifyLocalTime
  <2> QED BY <1>5, <2>3 DEF RecvNtpPacked
<1>6. CASE RecvFailed
  BY <1>6 DEF RecvFailed
<1>7. CASE CloseSockfd
  BY <1>7 DEF CloseSockfd
<1>8. CASE OtherOpens
  BY <1>8 DEF OtherOpens
<1>9. CASE OtherCloses
  BY <1>9 DEF OtherCloses
<1>10. CASE ClockSecond
  BY <1>10 DEF ClockSecond
<1>11. CASE UNCHANGED ntpVars
  BY <1>11 DEF ntpVars
<1> QED
  BY <1>1, <1>2, <1>3, <1>4, <1>5, <1>6, <1>7, <1>8, <1>9, <1>10, <1>11 DEF NtpNext, NtpTask

LEMMA NtpSocketsStep == NtpTypeOK /\ NtpSockets /\ [NtpNext]_ntpVars => NtpSockets'
<1> SUFFICES ASSUME NtpTypeOK, NtpSockets, [NtpNext]_ntpVars
             PROVE  NtpSockets'
  OBVIOUS
<1> USE NtpAssumption DEF NtpTypeOK, NtpSockets, SocketClosed, NtpReturned, clockVars
<1>1. CASE NtpTry
  BY <1>1 DEF NtpTry
<1>2. CASE CreateNtpClientSockfd
  BY <1>2 DEF CreateNtpClientSockfd
<1>3. CASE SelectTimeout
  BY <1>3 DEF SelectTimeout
<1>4. CASE SelectReady
  BY <1>4 DEF SelectReady
<1>5. CASE RecvNtpPacked
  BY <1>5 DEF RecvNtpPacked
<1>6. CASE RecvFailed
  BY <1>6 DEF RecvFailed
<1>7. CASE CloseSockfd
  BY <1>7 DEF CloseSockfd
<1>8. CASE OtherOpens
  BY <1>8 DEF OtherOpens
<1>9. CASE OtherCloses
  BY <1>9 DEF OtherCloses
<1>10. CASE ClockSecond
  BY <1>10 DEF ClockSecond
<1>11. CASE UNCHANGED ntpVars
  BY <1>11 DEF ntpVars
<1> QED
  BY <1>1, <1>2, <1>3, <1>4, <1>5, <1>6, <1>7, <1>8, <1>9, <1>10, <1>11 DEF NtpNext, NtpTask

LEMMA NtpClockStep == NtpTypeOK /\ NtpClock /\ [NtpNext]_ntpVars => NtpClock'
<1> SUFFICES ASSUME NtpTypeOK, NtpClock, [NtpNext]_ntpVars
             PROVE  NtpClock'
  OBVIOUS
<1>1. CASE RecvNtpPacked
  <2>1. PICK t \in ServerTime : /\ OSTime' = ModifyLocalTime(t)
                                /\ synced' = [time |-> t, since |-> 0]
    BY <1>1 DEF RecvNtpPacked
  <2>2. t \in Nat /\ t >= Epoch /\ Epoch \in Nat /\ TicksPerSec \in Nat \ {0} /\ TickMod \in Nat \ {0}
    BY NtpAssumption
  <2>3. (t - Epoch) * TicksPerSec \in Nat
    <3>1. t - Epoch \in Nat
      BY <2>2, SMT
    <3> QED BY <3>1, <2>2, WholeSeconds
  <2>4. Elapsed' = t - Epoch
    BY <2>1, <2>2 DEF Elapsed
  <2>5. Elapsed' * TicksPerSec < TickMod => OSTime' = Elapsed' * TicksPerSec
    BY <2>1, <2>2, <2>3, <2>4, SmallMod DEF ModifyLocalTime
  <2> QED BY <2>1, <2>2, <2>5 DEF NtpClock
<1>2. CASE ClockSecond
  <2>1. CASE synced = NotSynced
    BY <1>2, <2>1 DEF ClockSecond, NtpClock
  <2>2. CASE synced # NotSynced
    <3> USE <2>2
    <3>1. /\ synced \in [time : Nat, since : Nat] /\ synced.time >= Epoch
          /\ Elapsed * TicksPerSec < TickMod => OSTime = Elapsed * TicksPerSec
      BY DEF NtpClock
    <3>2. Epoch \in Nat /\ TicksPerSec \in Nat \ {0} /\ TickMod \in Nat \ {0}
      BY NtpAssumption
    <3>3. synced.time - Epoch \in Nat /\ synced.since \in Nat /\ Elapsed \in Nat
      BY <3>1, <3>2, SMT DEF Elapsed
    <3>4. CASE synced.since * TicksPerSec >= TickMod
      <4>1. synced' = synced
        BY <1>2, <3>4 DEF ClockSecond
      <4>2. Elapsed * TicksPerSec >= synced.since * TicksPerSec
        BY <3>2, <3>3, WholeSeconds DEF Elapsed
      <4>3. Elapsed * TicksPerSec \in Nat /\ synced.since * TicksPerSec \in Nat
        BY <3>2, <3>3, WholeSeconds
      <4>4. ~(Elapsed * TicksPerSec < TickMod)
        BY <3>2, <3>4, <4>2, <4>3, SMT
      <4> QED BY <3>1, <4>1, <4>4 DEF NtpClock, Elapsed
    <3>5. CASE ~(synced.since * TicksPerSec >= TickMod)
      <4>1. synced' = [synced EXCEPT !.since = @ + 1] /\ OSTime' = (OSTime + TicksPerSec) % TickMod
        BY <1>2, <3>5 DEF ClockSecond
      <4>2. synced'.time = synced.time /\ synced'.since = synced.since + 1
            /\ synced' \in [time : Nat, since : Nat]
        BY <3>1, <4>1
      <4>3. Elapsed' = Elapsed + 1
        BY <3>1, <3>2, <4>2 DEF Elapsed
      <4>4. Elapsed * TicksPerSec \in Nat /\ Elapsed' * TicksPerSec = Elapsed * TicksPerSec + TicksPerSec
        BY <3>2, <3>3, <4>3, WholeSeconds
      <4>5. ASSUME Elapsed' * TicksPerSec < TickMod
            PROVE  OSTime' = Elapsed' * TicksPerSec
        <5>1. OSTime = Elapsed * TicksPerSec
          BY <3>1, <3>2, <4>4, <4>5, SMT
        <5>2. OSTime + TicksPerSec = Elapsed' * TicksPerSec /\ OSTime + TicksPerSec \in Nat
          BY <3>2, <4>4, <5>1
        <5> QED BY <3>2, <4>1, <4>5, <5>2, SmallMod
      <4> QED BY <3>1, <4>2, <4>5 DEF NtpClock
    <3> QED BY <3>4, <3>5
  <2> QED BY <2>1, <2>2
<1>3. CASE UNCHANGED clockVars
  BY <1>3 DEF NtpClock, Elapsed, clockVars
<1> QED
  BY <1>1, <1>2, <1>3 DEF NtpNext, NtpTask, NtpTry, CreateNtpClientSockfd, SelectTimeout,
     SelectReady, RecvFailed, CloseSockfd, OtherOpens, OtherCloses, ntpVars, clockVars

(* The invariant is strong enough.                                         *)
LEMMA NtpInvSound == NtpInv => NtpSound
<1> SUFFICES ASSUME NtpInv PROVE NtpSound
  OBVIOUS
<1>1. SocketsReturned
  BY DEF NtpInv, NtpSockets, SocketsReturned
<1>2. ClockKept
  <2> DEFINE now == synced.time + synced.since
  <2> SUFFICES ASSUME synced # NotSynced /\ (now - Epoch) * TicksPerSec < TickMod
               PROVE  GetLocalTime = now + Zone
    BY Zenon DEF ClockKept
  <2>1. Epoch \in Nat /\ Zone \in Nat /\ TicksPerSec \in Nat \ {0}
    BY NtpAssumption
  <2>2. /\ synced.time \in Nat /\ synced.since \in Nat /\ synced.time >= Epoch
        /\ Elapsed * TicksPerSec < TickMod => OSTime = Elapsed * TicksPerSec
    BY DEF NtpInv, NtpClock
  <2>3. Elapsed \in Nat /\ Elapsed = now - Epoch
    BY <2>1, <2>2, SMT DEF Elapsed
  <2>4. OSTime \div TicksPerSec = Elapsed
    BY <2>1, <2>2, <2>3, WholeSeconds
  <2> QED BY <2>1, <2>2, <2>3, <2>4 DEF GetLocalTime
<1> QED BY <1>1, <1>2 DEF NtpSound

(* For every server time, tick rate and width of the tick counter: the     *)
(* clock ModifyLocalTime sets shows the server's time until the counter    *)
(* overflows, start_ntp returns its socket on every path, and it closes    *)
(* another task's socket only after a failed recvfrom().                   *)
THEOREM NtpCorrect == NtpSpec => []NtpSound
<1>1. NtpInv /\ [NtpNext]_ntpVars => NtpInv'
  BY NtpTypeStep, NtpSocketsStep, NtpClockStep DEF NtpInv
<1> QED BY <1>1, NtpInvInit, NtpInvSound, PTL DEF NtpSpec

-----------------------------------------------------------------------------
(* The servers of the soft AP.                                             *)

(* The servers that run, only while the link is up, hold different PCBs    *)
(* that no task holds.                                                     *)
ServersApart ==
  /\ ~linkUp => services = {}
  /\ DhcpPcb \notin others /\ DnsPcb \notin others
  /\ DhcpPcb = DnsPcb => DnsPcb = NoPcb

(* What DNSS_RecvCb holds at each of its steps.                            *)
BlocksHeld ==
  /\ stackAt \in {"idle", "tick", "rearm", "dhcp"} => dnssBlocks = {}
  /\ stackAt \in {"dns", "reply", "free"} => dnssBlocks = {"msg"}
  /\ stackAt = "send" => dnssBlocks = {"msg", "reply"}

(* A query is answered at its last step but one.                           *)
AnsweredLate == stackAt # "free" => answer = "none"

(* The inductive invariant of the soft AP's servers.                       *)
LinkInv == LinkTypeOK /\ PcbsAccounted /\ ServersApart /\ BlocksHeld /\ AnsweredLate

(* The invariant holds before the first link is up ...                     *)
LEMMA LinkInvInit == LinkInit => LinkInv
<1> SUFFICES ASSUME LinkInit PROVE LinkInv
  OBVIOUS
<1> USE LinkAssumption DEF LinkInit
<1>1. linkUp \in BOOLEAN /\ dhcps \in [Enable : BOOLEAN, Socket : Pcb \cup {NoPcb}]
  BY Zenon
<1>2. DOMAIN pcbs = {}
  OBVIOUS
<1>3. LinkTypeOK
  <2>1. query \in Queries \cup {Root}
    BY Zenon
  <2> QED BY <1>1, <1>2, <2>1, SMT DEF LinkTypeOK
<1>4. DhcpPcb = NoPcb /\ DnsPcb = NoPcb
  BY DEF DhcpPcb, DnsPcb
<1>5. PcbsAccounted /\ ServersApart /\ BlocksHeld /\ AnsweredLate
  BY <1>2, <1>4 DEF PcbsAccounted, ServersApart, BlocksHeld, AnsweredLate
<1> QED BY <1>3, <1>5 DEF LinkInv

(* What a PCB taken or given back does to the set of those in use.         *)
LEMMA UdpDomains ==
  ASSUME NEW P, NEW p, NEW port
  PROVE  /\ DOMAIN udp_bind(P, p, port) = DOMAIN P \cup {p}
         /\ DOMAIN udp_remove(P, p) = DOMAIN P \ {p}
BY DEF udp_bind, udp_remove

(* udp_new returns a PCB that is not in use, or none.                      *)
LEMMA UdpNew ==
  ASSUME NEW P, NEW p \in udp_new(P)
  PROVE  /\ p \in Pcb \cup {NoPcb}
         /\ p # NoPcb => p \in Pcb /\ p \notin DOMAIN P
BY DEF udp_new

(* ... and every step of the two threads keeps it.                         *)
LEMMA LinkStep == LinkInv /\ [LinkNext]_linkVars => LinkInv'
<1> SUFFICES ASSUME LinkInv, [LinkNext]_linkVars PROVE LinkInv'
  OBVIOUS
<1> USE LinkAssumption DEF LinkInv
<1>1. CASE L2LinkUp
  <2>1. PICK d \in IF "dhcp" \in services' THEN udp_new(pcbs) ELSE {NoPcb} :
          LET P == IF d = NoPcb THEN pcbs ELSE udp_bind(pcbs, d, DHCP_SERVER_UDP_PORT)
          IN  /\ dhcps' = IF "dhcp" \in services' THEN [Enable |-> d # NoPcb, Socket |-> d]
                          ELSE dhcps
              /\ ticks' = IF d = NoPcb THEN ticks ELSE ticks + 1
              /\ \E n \in IF "dns" \in services' THEN udp_new(P) ELSE {NoPcb} :
                   /\ dnss' = IF "dns" \in services' THEN n ELSE dnss
                   /\ pcbs' = IF n = NoPcb THEN P ELSE udp_bind(P, n, DNS_SERVER_PORT)
    BY <1>1, Zenon DEF L2LinkUp
  <2> DEFINE P == IF d = NoPcb THEN pcbs ELSE udp_bind(pcbs, d, DHCP_SERVER_UDP_PORT)
  <2>2. PICK n \in IF "dns" \in services' THEN udp_new(P) ELSE {NoPcb} :
          /\ dnss' = IF "dns" \in services' THEN n ELSE dnss
          /\ pcbs' = IF n = NoPcb THEN P ELSE udp_bind(P, n, DNS_SERVER_PORT)
    BY <2>1, Zenon
  <2>3. DOMAIN P = DOMAIN pcbs \cup ({d} \ {NoPcb})
    <3>1. DOMAIN udp_bind(pcbs, d, DHCP_SERVER_UDP_PORT) = DOMAIN pcbs \cup {d}
      BY UdpDomains, Zenon
    <3> QED BY <3>1
  <2> HIDE DEF P
  <2>4. DOMAIN pcbs' = DOMAIN P \cup ({n} \ {NoPcb})
    <3>1. DOMAIN udp_bind(P, n, DNS_SERVER_PORT) = DOMAIN P \cup {n}
      BY UdpDomains, Zenon
    <3> QED BY <2>2, <3>1
  <2>5. /\ d \in Pcb \cup {NoPcb} /\ (d # NoPcb => d \in Pcb /\ d \notin DOMAIN pcbs)
        /\ n \in Pcb \cup {NoPcb} /\ (n # NoPcb => n \in Pcb /\ n \notin DOMAIN P)
    BY UdpNew
  <2>6. DhcpPcb' = d /\ DnsPcb' = n
    BY <2>1, <2>2 DEF DhcpPcb, DnsPcb
  <2>7. /\ dhcps' \in [Enable : BOOLEAN, Socket : Pcb \cup {NoPcb}] /\ dnss' \in Pcb \cup {NoPcb}
        /\ services' \subseteq {"dhcp", "dns"}
    <3>1. [Enable |-> d # NoPcb, Socket |-> d] \in [Enable : BOOLEAN, Socket : Pcb \cup {NoPcb}]
      BY <2>5
    <3>2. services' \subseteq {"dhcp", "dns"}
      BY <1>1 DEF L2LinkUp
    <3> QED BY <2>1, <2>2, <2>5, <3>1, <3>2 DEF LinkTypeOK
  <2>8. DOMAIN pcbs = others /\ others \subseteq Pcb /\ ~linkUp /\ linkUp' = TRUE /\ others' = others
    BY <1>1 DEF L2LinkUp, PcbsAccounted, ServersApart, DhcpPcb, DnsPcb, LinkTypeOK
  <2>9. ticks' \in 0 .. MaxTicks
    BY <1>1, <2>1 DEF L2LinkUp, LinkTypeOK
  <2>10. LinkTypeOK'
    <3>1. DOMAIN pcbs' \subseteq Pcb /\ others' \subseteq DOMAIN pcbs'
      BY <2>3, <2>4, <2>5, <2>8
    <3> QED BY <1>1, <2>7, <2>8, <2>9, <3>1 DEF L2LinkUp, LinkTypeOK
  <2>11. PcbsAccounted'
    BY <2>3, <2>4, <2>6, <2>8 DEF PcbsAccounted
  <2>12. ServersApart'
    BY <2>3, <2>5, <2>6, <2>8 DEF ServersApart
  <2>13. BlocksHeld' /\ AnsweredLate'
    BY <1>1 DEF L2LinkUp, BlocksHeld, AnsweredLate
  <2> QED BY <2>10, <2>11, <2>12, <2>13
<1>2. CASE L2LinkDown
  <2>1. /\ linkUp' = FALSE /\ services' = {} /\ others' = others /\ dnss' = dnss
        /\ DhcpPcb' = NoPcb /\ DnsPcb' = NoPcb
    BY <1>2 DEF L2LinkDown, DhcpPcb, DnsPcb
  <2>2. DOMAIN pcbs' = DOMAIN pcbs \ ({DhcpPcb, DnsPcb} \ {NoPcb})
    <3> DEFINE P == IF DhcpPcb = NoPcb THEN pcbs ELSE udp_remove(pcbs, DhcpPcb)
    <3>1. pcbs' = IF DnsPcb = NoPcb THEN P ELSE udp_remove(P, DnsPcb)
      BY <1>2 DEF L2LinkDown
    <3>2. DOMAIN udp_remove(pcbs, DhcpPcb) = DOMAIN pcbs \ {DhcpPcb}
      BY UdpDomains, Zenon
    <3>3. DOMAIN P = DOMAIN pcbs \ ({DhcpPcb} \ {NoPcb})
      BY <3>2
    <3> HIDE DEF P
    <3>4. DOMAIN udp_remove(P, DnsPcb) = DOMAIN P \ {DnsPcb}
      BY UdpDomains, Zenon
    <3> QED BY <3>1, <3>3, <3>4
  <2>3. dhcps' \in [Enable : BOOLEAN, Socket : Pcb \cup {NoPcb}] /\ linkUp' \in BOOLEAN
    <3>1. [Enable |-> FALSE, Socket |-> NoPcb] \in [Enable : BOOLEAN, Socket : Pcb \cup {NoPcb}]
      BY Zenon
    <3>2. dhcps' \in {dhcps, [Enable |-> FALSE, Socket |-> NoPcb]}
      BY <1>2 DEF L2LinkDown, DHCPS_Stop
    <3> QED BY <2>1, <3>1, <3>2 DEF LinkTypeOK
  <2>4. ticks' \in 0 .. MaxTicks
    BY <1>2 DEF L2LinkDown, DHCPS_Stop, LinkTypeOK
  <2>5. DOMAIN pcbs' = others
    <3>1. others \subseteq Pcb /\ NoPcb \notin others
      BY DEF LinkTypeOK
    <3> QED BY <2>1, <2>2, <3>1 DEF PcbsAccounted, ServersApart
  <2>6. LinkTypeOK'
    BY <1>2, <2>1, <2>3, <2>4, <2>5 DEF L2LinkDown, LinkTypeOK
  <2>7. PcbsAccounted' /\ ServersApart'
    <3>1. NoPcb \notin others
      BY DEF LinkTypeOK
    <3> QED BY <2>1, <2>5, <3>1 DEF PcbsAccounted, ServersApart
  <2>8. BlocksHeld' /\ AnsweredLate'
    BY <1>2 DEF L2LinkDown, BlocksHeld, AnsweredLate
  <2> QED BY <2>6, <2>7, <2>8
<1>3. CASE OtherTakes
  <2>1. PICK p \in udp_new(pcbs) \ {NoPcb} :
          pcbs' = udp_bind(pcbs, p, 0) /\ others' = others \cup {p}
    BY <1>3 DEF OtherTakes
  <2>2. DOMAIN pcbs' = DOMAIN pcbs \cup {p} /\ p \in Pcb /\ p \notin DOMAIN pcbs
    BY <2>1, UdpDomains, UdpNew
  <2>3. LinkTypeOK' /\ BlocksHeld' /\ AnsweredLate'
    BY <1>3, <2>1, <2>2 DEF OtherTakes, LinkTypeOK, BlocksHeld, AnsweredLate
  <2>4. /\ linkUp' = linkUp /\ services' = services /\ DhcpPcb' = DhcpPcb /\ DnsPcb' = DnsPcb
        /\ others \subseteq Pcb /\ others \subseteq DOMAIN pcbs
    BY <1>3 DEF OtherTakes, DhcpPcb, DnsPcb, LinkTypeOK
  <2>5. PcbsAccounted' /\ ServersApart'
    BY <2>1, <2>2, <2>4 DEF PcbsAccounted, ServersApart
  <2> QED BY <2>3, <2>5
<1>4. CASE OtherGives
  <2>1. PICK p \in others : pcbs' = udp_remove(pcbs, p) /\ others' = others \ {p}
    BY <1>4 DEF OtherGives
  <2>2. DOMAIN pcbs' = DOMAIN pcbs \ {p}
    BY <2>1, UdpDomains
  <2>3. LinkTypeOK' /\ BlocksHeld' /\ AnsweredLate'
    BY <1>4, <2>1, <2>2 DEF OtherGives, LinkTypeOK, BlocksHeld, AnsweredLate
  <2>4. /\ linkUp' = linkUp /\ services' = services /\ DhcpPcb' = DhcpPcb /\ DnsPcb' = DnsPcb
        /\ others \subseteq Pcb /\ others \subseteq DOMAIN pcbs
    BY <1>4 DEF OtherGives, DhcpPcb, DnsPcb, LinkTypeOK
  <2>5. PcbsAccounted' /\ ServersApart'
    BY <2>1, <2>2, <2>4 DEF PcbsAccounted, ServersApart
  <2> QED BY <2>3, <2>5
<1>5. CASE StackThread
  <2>1. UNCHANGED serverVars
    BY <1>5 DEF StackThread, TickThread, TickExpires, TickHandle, TickRearm, DhcpDelivered,
                DhcpAnswers, DnsDelivered, DnsFilters, GenReply, SendReply, DnsDone
  <2>2. PcbsAccounted' /\ ServersApart'
    BY <2>1 DEF serverVars, PcbsAccounted, ServersApart, DhcpPcb, DnsPcb
  <2> SUFFICES LinkTypeOK' /\ BlocksHeld' /\ AnsweredLate'
    BY <2>2
  <2> USE <2>1 DEF serverVars, LinkTypeOK, BlocksHeld, AnsweredLate
  <2>3. CASE TickThread
    <3>1. CASE TickExpires
      BY <3>1 DEF TickExpires
    <3>2. CASE TickHandle
      <4>1. stackAt' \in {"rearm", "idle"}
        BY <3>2 DEF TickHandle
      <4> QED BY <3>2, <4>1 DEF TickHandle
    <3>3. CASE TickRearm
      BY <3>3 DEF TickRearm
    <3> QED BY <2>3, <3>1, <3>2, <3>3 DEF TickThread
  <2>4. CASE DhcpDelivered \/ DhcpAnswers
    BY <2>4 DEF DhcpDelivered, Delivered, DhcpAnswers
  <2>5. CASE DnsDelivered
    BY <2>5 DEF DnsDelivered, Delivered
  <2>6. CASE DnsFilters
    BY <2>6 DEF DnsFilters
  <2>7. CASE GenReply
    BY <2>7 DEF GenReply
  <2>8. CASE SendReply
    BY <2>8 DEF SendReply
  <2>9. CASE DnsDone
    BY <2>9 DEF DnsDone
  <2> QED
    BY <1>5, <2>3, <2>4, <2>5, <2>6, <2>7, <2>8, <2>9 DEF StackThread
<1>6. CASE UNCHANGED linkVars
  BY <1>6 DEF linkVars, LinkTypeOK, PcbsAccounted, ServersApart, DhcpPcb, DnsPcb, BlocksHeld,
                  AnsweredLate
<1> QED BY <1>1, <1>2, <1>3, <1>4, <1>5, <1>6 DEF LinkNext

-----------------------------------------------------------------------------
(* The name server's comparison.                                           *)

(* f tells where each of the first m + 1 labels of q begins, if a dot      *)
(* follows each label.                                                     *)
Begins(f, q, m) ==
  /\ f \in [0 .. m -> Nat \ {0}] /\ f[0] = 1
  /\ \A i \in 1 .. m : f[i] = f[i - 1] + Len(q[i]) + 1
  /\ \A j \in 0 .. m : \A i \in 0 .. j : f[i] <= f[j]

(* There is such a function, by the least number of labels without one.   *)
LEMMA BeginsExists ==
  ASSUME NEW n \in Nat, NEW q, \A k \in 1 .. n : Len(q[k]) \in Nat
  PROVE  \E f : Begins(f, q, n)
<1> DEFINE T == {m \in 0 .. n : ~ \E f : Begins(f, q, m)}
<1>0. n \in 0 .. n
  OBVIOUS
<1> SUFFICES ASSUME T # {} PROVE FALSE
  BY <1>0, Zenon
<1>1. T \subseteq Nat
  OBVIOUS
<1>2. PICK m \in T : \A j \in T : m <= j
  <2> HIDE DEF T
  <2> QED BY <1>1, LeastElement
<1>3. m \in 0 .. n /\ m \in Nat
  OBVIOUS
<1>4. CASE m = 0
  <2>1. Begins([j \in 0 .. 0 |-> 1], q, 0)
    BY DEF Begins
  <2> QED BY <1>4, <2>1
<1>5. CASE m # 0
  <2>1. m - 1 \in 0 .. n /\ m \in 1 .. n /\ ~(m <= m - 1)
    BY <1>3, <1>5
  <2>2. m - 1 \notin T
    BY <1>2, <2>1
  <2>3. PICK f : Begins(f, q, m - 1)
    BY <2>1, <2>2
  <2> DEFINE g == [j \in 0 .. m |-> IF j = m THEN f[m - 1] + Len(q[m]) + 1 ELSE f[j]]
  <2>4. /\ f \in [0 .. m - 1 -> Nat \ {0}] /\ f[0] = 1 /\ Len(q[m]) \in Nat
        /\ \A i \in 1 .. m - 1 : f[i] = f[i - 1] + Len(q[i]) + 1
        /\ \A j \in 0 .. m - 1 : \A i \in 0 .. j : f[i] <= f[j]
    BY <2>1, <2>3 DEF Begins
  <2>5. g \in [0 .. m -> Nat \ {0}] /\ g[0] = 1
    BY <1>3, <1>5, <2>4
  <2>6. \A i \in 1 .. m : g[i] = g[i - 1] + Len(q[i]) + 1
    BY <1>3, <1>5, <2>4
  <2>7. ASSUME NEW j \in 0 .. m, NEW i \in 0 .. j PROVE g[i] <= g[j]
    <3>1. f[m - 1] \in Nat /\ g[m] = f[m - 1] + Len(q[m]) + 1 /\ m - 1 \in 0 .. m - 1
      BY <1>3, <1>5, <2>4
    <3>2. \A x \in 0 .. m - 1 : g[x] = f[x] /\ f[x] \in Nat
      BY <1>3, <2>4
    <3> HIDE DEF g
    <3>3. CASE j # m
      <4>1. j \in 0 .. m - 1 /\ i \in 0 .. m - 1
        BY <1>3, <3>3
      <4> QED BY <2>4, <3>2, <4>1
    <3>4. CASE j = m /\ i # m
      <4>1. i \in 0 .. m - 1
        BY <1>3, <3>4
      <4>2. f[i] <= f[m - 1] /\ g[i] = f[i] /\ f[i] \in Nat
        BY <2>4, <3>1, <3>2, <4>1
      <4> QED BY <2>4, <3>1, <3>4, <4>2
    <3>5. CASE j = m /\ i = m
      BY <2>4, <3>1, <3>5
    <3> QED BY <3>3, <3>4, <3>5
  <2>8. Begins(g, q, m)
    <3> HIDE DEF g
    <3> QED BY <2>5, <2>6, <2>7 DEF Begins
  <2> QED BY <2>8
<1> QED BY <1>4, <1>5

(* After is that function.                                                 *)
LEMMA AfterIs ==
  ASSUME NEW q, Len(q) \in Nat, NEW f, Begins(f, q, Len(q))
  PROVE  \A k \in 0 .. Len(q) : After(q, k) = f[k]
<1> DEFINE n == Len(q)
           Eq(g) == g = [j \in 0 .. n |-> IF j = 0 THEN 1 ELSE g[j - 1] + Len(q[j]) + 1]
           pos == CHOOSE g : Eq(g)
<1>1. f \in [0 .. n -> Nat \ {0}] /\ f[0] = 1 /\ \A i \in 1 .. n : f[i] = f[i - 1] + Len(q[i]) + 1
  BY DEF Begins
<1>2. Eq(f)
  BY <1>1
<1>3. Eq(pos)
  <2> HIDE DEF Eq
  <2> QED BY <1>2
<1>4. \A k \in 0 .. n : After(q, k) = pos[k]
  BY DEF After
<1> HIDE DEF pos
<1>5. pos[0] = 1 /\ \A i \in 1 .. n : pos[i] = pos[i - 1] + Len(q[i]) + 1
  BY <1>3
<1> DEFINE T == {i \in 0 .. n : pos[i] # f[i]}
<1>6. T = {}
  <2> SUFFICES ASSUME T # {} PROVE FALSE
    OBVIOUS
  <2>1. T \subseteq Nat
    OBVIOUS
  <2>2. PICK k \in T : \A j \in T : k <= j
    <3> HIDE DEF T
    <3> QED BY <2>1, LeastElement
  <2>3. k # 0 /\ k \in 1 .. n /\ k - 1 \in 0 .. n /\ ~(k <= k - 1)
    BY <1>1, <1>5
  <2>4. pos[k - 1] = f[k - 1]
    BY <2>2, <2>3
  <2> QED BY <1>1, <1>5, <2>3, <2>4
<1> QED BY <1>4, <1>6

(* s holds the first k labels of q with sep between them.                  *)
Laid(s, q, f, sep, k) ==
  /\ s \in Seq(Char \cup {sep}) /\ Len(s) = f[k] - 2
  /\ \A j \in 1 .. k : \A i \in 1 .. Len(q[j]) : s[f[j - 1] + i - 1] = q[j][i]
  /\ \A p \in 1 .. Len(s) :
       \/ \E j \in 1 .. k : \E i \in 1 .. Len(q[j]) : p = f[j - 1] + i - 1
       \/ s[p] = sep

(* The first label alone ...                                               *)
LEMMA LaidFirst ==
  ASSUME NEW q, Len(q) \in Nat \ {0}, q[1] \in Seq(Char), NEW f, Begins(f, q, Len(q)), NEW sep
  PROVE  Laid(q[1], q, f, sep, 1)
<1>1. f[0] = 1 /\ f[1] = Len(q[1]) + 2
  BY DEF Begins
<1>2. q[1] \in Seq(Char \cup {sep})
  OBVIOUS
<1>3. Len(q[1]) \in Nat /\ \A j \in 1 .. 1 : j = 1 /\ j - 1 = 0
  OBVIOUS
<1>4. \A p \in 1 .. Len(q[1]) : p = f[0] + p - 1
  BY <1>1
<1>5. \A j \in 1 .. 1 : \A i \in 1 .. Len(q[j]) : q[1][f[j - 1] + i - 1] = q[j][i]
  BY <1>3, <1>4
<1>6. 1 \in 1 .. 1 /\ 1 - 1 = 0
  OBVIOUS
<1>7. \A p \in 1 .. Len(q[1]) : \E j \in 1 .. 1 : \E i \in 1 .. Len(q[j]) : p = f[j - 1] + i - 1
  BY <1>4, <1>6
<1> QED BY <1>1, <1>2, <1>3, <1>5, <1>7 DEF Laid

(* The places of a label are inside what ends no earlier than it.          *)
LEMMA Inside ==
  ASSUME NEW a \in Nat, NEW i \in Nat, NEW l \in Nat, NEW c \in Nat, NEW n \in Nat,
         a >= 1, 1 <= i, i <= l, a + l + 1 <= c, n = c - 2
  PROVE  a + i - 1 \in 1 .. n /\ a + i - 1 \in 1 .. n + 1
OBVIOUS

(* c is a followed by b.                                                   *)
Follows(c, a, b, C) ==
  /\ c \in Seq(C) /\ Len(c) = Len(a) + Len(b)
  /\ \A p \in 1 .. Len(a) : c[p] = a[p]
  /\ \A i \in 1 .. Len(b) : c[Len(a) + i] = b[i]

LEMMA ConcatFollows ==
  ASSUME NEW C, NEW a \in Seq(C), NEW b \in Seq(C)
  PROVE  Follows(a \o b, a, b, C)
BY DEF Follows

(* ... and one label more.                                                 *)
LEMMA LaidNext ==
  ASSUME NEW q, NEW f, NEW sep, NEW k \in Nat \ {0, 1}, NEW s, Laid(s, q, f, sep, k - 1),
         q[k] \in Seq(Char), \A j \in 0 .. k : f[j] \in Nat, f[k] = f[k - 1] + Len(q[k]) + 1,
         \A j \in 1 .. k - 1 : f[j - 1] >= 1 /\ f[j] = f[j - 1] + Len(q[j]) + 1 /\ f[j] <= f[k - 1]
                               /\ Len(q[j]) \in Nat
  PROVE  Laid(s \o <<sep>> \o q[k], q, f, sep, k)
<1> DEFINE t == s \o <<sep>>
           u == t \o q[k]
           C == Char \cup {sep}
<1>1. /\ s \in Seq(C) /\ Len(s) = f[k - 1] - 2 /\ Len(s) \in Nat
      /\ \A j \in 1 .. k - 1 : \A i \in 1 .. Len(q[j]) : s[f[j - 1] + i - 1] = q[j][i]
      /\ \A p \in 1 .. Len(s) :
           \/ \E j \in 1 .. k - 1 : \E i \in 1 .. Len(q[j]) : p = f[j - 1] + i - 1
           \/ s[p] = sep
  BY DEF Laid
<1>2. t \in Seq(C) /\ Len(t) = Len(s) + 1 /\ t[Len(s) + 1] = sep
      /\ \A p \in 1 .. Len(s) : t[p] = s[p]
  <2> DEFINE b == <<sep>>
  <2>1. b \in Seq(C) /\ Len(b) = 1 /\ b[1] = sep /\ 1 \in 1 .. 1
    OBVIOUS
  <2> HIDE DEF b, C
  <2>2. Follows(s \o b, s, b, C)
    BY ONLY <1>1, <2>1, ConcatFollows, Zenon
  <2>3. t = s \o b
    BY DEF b
  <2> HIDE DEF t
  <2> QED BY <2>1, <2>2, <2>3 DEF Follows
<1> HIDE DEF t, C
<1>3. q[k] \in Seq(C) /\ Len(q[k]) \in Nat /\ f[k - 1] \in Nat
  BY DEF C
<1>4. /\ u \in Seq(C) /\ Len(u) = Len(t) + Len(q[k])
      /\ \A p \in 1 .. Len(t) : u[p] = t[p]
      /\ \A i \in 1 .. Len(q[k]) : u[Len(t) + i] = q[k][i]
  <2>1. t \in Seq(C) /\ q[k] \in Seq(C)
    BY <1>2, <1>3
  <2>2. u = t \o q[k]
    OBVIOUS
  <2> HIDE DEF u
  <2>3. Follows(t \o q[k], t, q[k], C)
    BY ONLY <2>1, ConcatFollows, Zenon
  <2> QED BY ONLY <2>2, <2>3, Zenon DEF Follows
<1> HIDE DEF u
<1>5. Len(u) = f[k] - 2 /\ Len(t) = f[k - 1] - 1
  <2>1. Len(t) = f[k - 1] - 1
    BY <1>1, <1>2, <1>3
  <2>2. Len(u) = f[k - 1] - 1 + Len(q[k])
    BY <1>4, <2>1
  <2>3. f[k] = f[k - 1] + Len(q[k]) + 1
    OBVIOUS
  <2>4. Len(u) = f[k] - 2
    BY ONLY <1>3, <2>2, <2>3
  <2> QED BY ONLY <2>1, <2>4
<1>6. ASSUME NEW j \in 1 .. k, NEW i \in 1 .. Len(q[j]) PROVE u[f[j - 1] + i - 1] = q[j][i]
  <2>1. CASE j = k
    <3>1. f[k - 1] + i - 1 = Len(t) + i
      BY <1>3, <1>5, <2>1
    <3> QED BY <1>4, <2>1, <3>1
  <2>2. CASE j # k
    <3>1. j \in 1 .. k - 1
      BY <2>2
    <3>2. f[j - 1] + i - 1 \in 1 .. Len(s) /\ f[j - 1] + i - 1 \in 1 .. Len(t)
      <4>1. f[j - 1] \in Nat /\ f[j - 1] >= 1 /\ f[j] = f[j - 1] + Len(q[j]) + 1
            /\ f[j] <= f[k - 1] /\ Len(q[j]) \in Nat
        BY <3>1
      <4>2. i \in Nat /\ 1 <= i /\ i <= Len(q[j])
        BY <4>1
      <4>3. f[j - 1] + i - 1 \in 1 .. Len(s) /\ f[j - 1] + i - 1 \in 1 .. Len(s) + 1
        <5>1. f[j - 1] + Len(q[j]) + 1 <= f[k - 1]
          BY <4>1
        <5>2. Len(s) \in Nat /\ Len(s) = f[k - 1] - 2 /\ f[k - 1] \in Nat
          BY <1>1, <1>3
        <5> QED BY ONLY <4>1, <4>2, <5>1, <5>2, Inside
      <4> QED BY <1>2, <4>3
    <3> DEFINE x == f[j - 1] + i - 1
    <3>3. s[x] = q[j][i]
      BY <1>1, <3>1
    <3>4. x \in 1 .. Len(s) /\ x \in 1 .. Len(t)
      BY <3>2
    <3> HIDE DEF x
    <3>5. u[x] = t[x] /\ t[x] = s[x]
      BY ONLY <1>2, <1>4, <3>4, Zenon
    <3> QED BY <3>3, <3>5 DEF x
  <2> QED BY <2>1, <2>2
<1>7. ASSUME NEW p \in 1 .. Len(u)
      PROVE  \/ \E j \in 1 .. k : \E i \in 1 .. Len(q[j]) : p = f[j - 1] + i - 1
             \/ u[p] = sep
  <2>1. CASE p \in 1 .. Len(s)
    <3>1. p \in 1 .. Len(t) /\ u[p] = s[p]
      <4>1. Len(s) \in Nat /\ Len(t) = Len(s) + 1
        BY <1>1, <1>2
      <4>2. p \in 1 .. Len(t)
        BY ONLY <2>1, <4>1
      <4>3. u[p] = t[p]
        BY ONLY <1>4, <4>2, Zenon
      <4>4. t[p] = s[p]
        BY ONLY <1>2, <2>1, Zenon
      <4> QED BY ONLY <4>2, <4>3, <4>4
    <3>2. \A j \in 1 .. k - 1 : j \in 1 .. k
      OBVIOUS
    <3> QED BY <1>1, <2>1, <3>1, <3>2
  <2>2. CASE p = Len(s) + 1
    <3>1. p \in 1 .. Len(t)
      BY <1>1, <1>2, <2>2
    <3> QED BY <1>2, <1>4, <2>2, <3>1
  <2>3. CASE p > Len(s) + 1
    <3>1. Len(t) \in Nat /\ p \in Nat /\ p <= Len(t) + Len(q[k]) /\ p > Len(t)
      BY <1>1, <1>2, <1>3, <1>4, <2>3
    <3>2. p - Len(t) \in 1 .. Len(q[k]) /\ k \in 1 .. k
      BY <1>3, <3>1
    <3>3. p = f[k - 1] + (p - Len(t)) - 1
      BY <1>3, <1>5, <3>1
    <3> QED BY <3>2, <3>3
  <2>4. Len(u) \in Nat
    BY <1>1, <1>2, <1>3, <1>4
  <2> QED BY <1>1, <2>1, <2>2, <2>3, <2>4
<1>8. Laid(u, q, f, sep, k)
  BY <1>4, <1>5, <1>6, <1>7 DEF Laid, C
<1> QED BY <1>8 DEF t, u

(* The recursive definition of NameOf has a solution.                      *)
JoinsTo(g, q, sep, m) ==
  g = [k \in 1 .. m |-> IF k = 1 THEN q[1] ELSE g[k - 1] \o <<sep>> \o q[k]]

(* By the least number of labels without one.                              *)
LEMMA JoinsExist ==
  ASSUME NEW n \in Nat \ {0}, NEW q, NEW sep
  PROVE  \E g : JoinsTo(g, q, sep, n)
<1> DEFINE T == {m \in 1 .. n : ~ \E g : JoinsTo(g, q, sep, m)}
<1>0. n \in 1 .. n
  OBVIOUS
<1> SUFFICES ASSUME T # {} PROVE FALSE
  BY <1>0, Zenon
<1>1. T \subseteq Nat
  OBVIOUS
<1>2. PICK m \in T : \A j \in T : m <= j
  <2> HIDE DEF T
  <2> QED BY <1>1, LeastElement
<1>3. m \in 1 .. n /\ m \in Nat
  OBVIOUS
<1>4. CASE m = 1
  <2>1. JoinsTo([k \in 1 .. 1 |-> q[1]], q, sep, 1)
    BY DEF JoinsTo
  <2> QED BY <1>4, <2>1
<1>5. CASE m # 1
  <2>1. m - 1 \in 1 .. n /\ ~(m <= m - 1)
    BY <1>3, <1>5
  <2>2. m - 1 \notin T
    BY <1>2, <2>1
  <2>3. PICK h : JoinsTo(h, q, sep, m - 1)
    BY <2>1, <2>2
  <2> DEFINE g == [k \in 1 .. m |-> IF k = m THEN h[m - 1] \o <<sep>> \o q[m] ELSE h[k]]
  <2>4. g[m] = h[m - 1] \o <<sep>> \o q[m] /\ \A k \in 1 .. m - 1 : g[k] = h[k]
    <3>1. m \in 1 .. m /\ \A k \in 1 .. m - 1 : k \in 1 .. m /\ k # m
      BY <1>3
    <3> QED BY <3>1, Zenon
  <2>5. \A k \in 1 .. m - 1 : h[k] = IF k = 1 THEN q[1] ELSE h[k - 1] \o <<sep>> \o q[k]
    BY <2>3 DEF JoinsTo
  <2>6. g = [k \in 1 .. m |-> g[k]]
    OBVIOUS
  <2> HIDE DEF g
  <2>7. ASSUME NEW k \in 1 .. m
        PROVE  g[k] = IF k = 1 THEN q[1] ELSE g[k - 1] \o <<sep>> \o q[k]
    <3>1. CASE k = m
      <4>1. m - 1 \in 1 .. m - 1
        BY <1>3, <1>5
      <4> QED BY <1>5, <2>4, <3>1, <4>1
    <3>2. CASE k # m
      <4>1. k \in 1 .. m - 1 /\ (k # 1 => k - 1 \in 1 .. m - 1)
        BY <1>3, <3>2
      <4> QED BY <2>4, <2>5, <4>1
    <3> QED BY <3>1, <3>2
  <2>8. JoinsTo(g, q, sep, m)
    BY <2>6, <2>7 DEF JoinsTo
  <2> QED BY <2>8
<1> QED BY <1>4, <1>5

(* The labels of a name, at least one.                                     *)
Labels(q) == q \in Seq(Seq(Char) \ {<<>>}) /\ q # <<>>

(* So NameOf lays out the whole name.                                      *)
LEMMA NameLaid ==
  ASSUME NEW q, Labels(q), NEW f, Begins(f, q, Len(q)), NEW sep
  PROVE  Laid(NameOf(q, sep), q, f, sep, Len(q))
<1> DEFINE n == Len(q)
           g == CHOOSE h : JoinsTo(h, q, sep, n)
           T == {k \in 1 .. n : ~Laid(g[k], q, f, sep, k)}
<1>1. n \in Nat \ {0} /\ \A k \in 1 .. n : q[k] \in Seq(Char) /\ Len(q[k]) \in Nat
  <2>1. q \in Seq(Seq(Char) \ {<<>>}) /\ q # <<>>
    BY DEF Labels
  <2>2. \A k \in 1 .. n : q[k] \in Seq(Char)
    BY <2>1
  <2> QED BY <2>1, <2>2
<1>2. /\ f \in [0 .. n -> Nat \ {0}] /\ f[0] = 1
      /\ \A i \in 1 .. n : f[i] = f[i - 1] + Len(q[i]) + 1
      /\ \A j \in 0 .. n : \A i \in 0 .. j : f[i] <= f[j]
  BY DEF Begins
<1>3. JoinsTo(g, q, sep, n)
  BY <1>1, JoinsExist
<1>4. NameOf(q, sep) = g[n]
  BY DEF NameOf, JoinsTo
<1> HIDE DEF g
<1>5. \A k \in 1 .. n : g[k] = IF k = 1 THEN q[1] ELSE g[k - 1] \o <<sep>> \o q[k]
  BY <1>3 DEF JoinsTo
<1>6. T = {}
  <2> SUFFICES ASSUME T # {} PROVE FALSE
    OBVIOUS
  <2>1. T \subseteq Nat
    OBVIOUS
  <2>2. PICK k \in T : \A j \in T : k <= j
    <3> HIDE DEF T
    <3> QED BY <2>1, LeastElement
  <2>3. k \in 1 .. n /\ ~Laid(g[k], q, f, sep, k)
    OBVIOUS
  <2>4. CASE k = 1
    <3>1. Laid(q[1], q, f, sep, 1)
      BY <1>1, <2>3, <2>4, LaidFirst
    <3> QED BY <1>5, <2>3, <2>4, <3>1
  <2>5. CASE k # 1
    <3>1. k - 1 \in 1 .. n /\ ~(k <= k - 1) /\ k \in Nat \ {0, 1}
      BY <2>3, <2>5
    <3>2. Laid(g[k - 1], q, f, sep, k - 1)
      BY <2>2, <3>1
    <3>3. q[k] \in Seq(Char) /\ f[k] = f[k - 1] + Len(q[k]) + 1
      BY <1>1, <1>2, <2>3
    <3>4. \A j \in 0 .. k : f[j] \in Nat
      BY <1>2, <2>3
    <3>5. \A j \in 1 .. k - 1 : f[j - 1] >= 1 /\ f[j] = f[j - 1] + Len(q[j]) + 1
                                /\ f[j] <= f[k - 1] /\ Len(q[j]) \in Nat
      <4>1. ASSUME NEW j \in 1 .. k - 1
            PROVE  j \in 1 .. n /\ j - 1 \in 0 .. n /\ k - 1 \in 0 .. n /\ j \in 0 .. k - 1
        BY <2>3, <3>1
      <4> QED BY <1>1, <1>2, <4>1
    <3>6. Laid(g[k - 1] \o <<sep>> \o q[k], q, f, sep, k)
      BY <3>1, <3>2, <3>3, <3>4, <3>5, LaidNext
    <3> QED BY <1>5, <2>3, <2>5, <3>6
  <2> QED BY <2>4, <2>5
<1>7. n \in 1 .. n
  BY <1>1
<1> QED BY <1>4, <1>6, <1>7

(* A part of the name is a label exactly if it is so place by place.       *)
LEMMA CharsAre ==
  ASSUME NEW a \in Nat \ {0}, NEW l \in Seq(Char), a + Len(l) - 1 <= Len(DnsName)
  PROVE  Chars(a, Len(l)) = l <=> \A i \in 1 .. Len(l) : DnsName[a + i - 1] = l[i]
<1> DEFINE c == SubSeq(DnsName, a, a + Len(l) - 1)
<1>1. DnsName \in Seq(Char) /\ Len(DnsName) \in Nat /\ Len(l) \in Nat
  BY LinkAssumption
<1>2. Chars(a, Len(l)) = c
  BY <1>1 DEF Chars
<1>3. c = [i \in 1 .. Len(l) |-> DnsName[a + i - 1]]
  <2>1. c = [i \in 1 .. ((a + Len(l) - 1) + 1) - a |-> DnsName[(i + a) - 1]]
    BY <1>1
  <2>2. ((a + Len(l) - 1) + 1) - a = Len(l) /\ \A i \in 1 .. Len(l) : (i + a) - 1 = a + i - 1
    BY <1>1
  <2> QED BY <2>1, <2>2
<1>4. l = [i \in 1 .. Len(l) |-> l[i]]
  OBVIOUS
<1> HIDE DEF c
<1>5. ASSUME \A i \in 1 .. Len(l) : DnsName[a + i - 1] = l[i] PROVE c = l
  BY <1>3, <1>4, <1>5, Zenon
<1>6. ASSUME c = l PROVE \A i \in 1 .. Len(l) : DnsName[a + i - 1] = l[i]
  BY <1>3, <1>6, Zenon
<1> QED BY <1>2, <1>5, <1>6

(* What _DnsCompareName computes of the labels.                            *)
LEMMA CompareIs ==
  ASSUME NEW q, Labels(q)
  PROVE  SameName(q) <=> AlmostOwn(q)
<1> DEFINE n == Len(q)
           name == NameOf(q, AnyChar)
<1>1. n \in Nat \ {0} /\ DOMAIN q = 1 .. n
      /\ \A k \in 1 .. n : q[k] \in Seq(Char) /\ q[k] # <<>> /\ Len(q[k]) \in Nat
  <2>1. q \in Seq(Seq(Char) \ {<<>>}) /\ q # <<>>
    BY DEF Labels
  <2>2. \A k \in 1 .. n : q[k] \in Seq(Char) \ {<<>>}
    BY <2>1
  <2> QED BY <2>1, <2>2
<1>2. PICK f : Begins(f, q, n)
  BY <1>1, BeginsExists
<1>3. /\ f \in [0 .. n -> Nat \ {0}] /\ f[0] = 1
      /\ \A i \in 1 .. n : f[i] = f[i - 1] + Len(q[i]) + 1
      /\ \A j \in 0 .. n : \A i \in 0 .. j : f[i] <= f[j]
  BY <1>2 DEF Begins
<1>4. \A k \in 0 .. n : After(q, k) = f[k]
  BY <1>1, <1>2, AfterIs
<1>5. /\ name \in Seq(Char \cup {AnyChar}) /\ Len(name) = f[n] - 2
      /\ \A j \in 1 .. n : \A i \in 1 .. Len(q[j]) : name[f[j - 1] + i - 1] = q[j][i]
      /\ \A p \in 1 .. Len(name) :
           \/ \E j \in 1 .. n : \E i \in 1 .. Len(q[j]) : p = f[j - 1] + i - 1
           \/ name[p] = AnyChar
  <2>1. Laid(name, q, f, AnyChar, n)
    BY <1>2, NameLaid
  <2> HIDE DEF name
  <2> QED BY <2>1 DEF Laid
<1> HIDE DEF name
<1>6. DnsName \in Seq(Char) /\ Len(DnsName) \in Nat /\ AnyChar \notin Char /\ f[n] \in Nat
  <2>1. n \in 0 .. n
    BY <1>1
  <2>2. f[n] \in Nat
    BY <1>3, <2>1
  <2> QED BY <2>2, LinkAssumption
<1>7. SameName(q) <=>
        /\ \A k \in 1 .. n : Chars(f[k - 1], Len(q[k])) = q[k]
        /\ f[n] = Len(DnsName) + 2
  <2>1. n \in 0 .. n /\ \A k \in 1 .. n : k - 1 \in 0 .. n
    BY <1>1
  <2> QED BY <1>1, <1>4, <2>1, Zenon DEF SameName
<1>8. f[n] = Len(DnsName) + 2 <=> Len(name) = Len(DnsName)
  BY <1>5, <1>6
<1>9. ASSUME Len(name) = Len(DnsName)
      PROVE  (\A k \in 1 .. n : Chars(f[k - 1], Len(q[k])) = q[k])
               <=> \A p \in 1 .. Len(name) : name[p] \in {DnsName[p], AnyChar}
  <2>1. ASSUME NEW k \in 1 .. n
        PROVE  /\ f[k - 1] \in Nat \ {0} /\ f[k - 1] + Len(q[k]) - 1 <= Len(DnsName)
               /\ Chars(f[k - 1], Len(q[k])) = q[k]
                    <=> \A i \in 1 .. Len(q[k]) : DnsName[f[k - 1] + i - 1] = q[k][i]
    <3>1. f[k - 1] \in Nat \ {0} /\ f[k] = f[k - 1] + Len(q[k]) + 1 /\ f[k] <= f[n]
          /\ Len(q[k]) \in Nat
      <4>1. k - 1 \in 0 .. n /\ n \in 0 .. n /\ k \in 0 .. n
        BY <1>1
      <4> QED BY <1>1, <1>3, <4>1
    <3>2. f[k - 1] + Len(q[k]) - 1 <= Len(DnsName)
      <4> DEFINE a == f[k - 1]
                 m == Len(q[k])
                 z == f[n]
                 y == Len(DnsName)
      <4>1. a \in Nat /\ m \in Nat /\ z \in Nat /\ y \in Nat
        BY <1>6, <3>1
      <4>2. y = z - 2
        BY <1>5, <1>9
      <4>3. a + m + 1 <= z
        BY <3>1
      <4> HIDE DEF a, m, z, y
      <4>4. a + m - 1 <= y
        BY ONLY <4>1, <4>2, <4>3
      <4> QED BY <4>4 DEF a, m, y
    <3> QED BY <1>1, <3>1, <3>2, CharsAre
  <2>2. ASSUME NEW k \in 1 .. n, NEW i \in 1 .. Len(q[k])
        PROVE  f[k - 1] + i - 1 \in 1 .. Len(name) /\ q[k][i] \in Char
    <3>1. f[k - 1] \in Nat \ {0} /\ f[k - 1] + Len(q[k]) - 1 <= Len(DnsName) /\ Len(q[k]) \in Nat
      BY <1>1, <2>1
    <3>2. f[k - 1] + i - 1 \in 1 .. Len(DnsName)
      BY <1>6, <3>1
    <3> QED BY <1>1, <1>9, <3>2
  <2>3. ASSUME \A k \in 1 .. n : \A i \in 1 .. Len(q[k]) : DnsName[f[k - 1] + i - 1] = q[k][i],
               NEW p \in 1 .. Len(name)
        PROVE  name[p] \in {DnsName[p], AnyChar}
    BY <1>5, <2>3
  <2>4. ASSUME \A p \in 1 .. Len(name) : name[p] \in {DnsName[p], AnyChar},
               NEW k \in 1 .. n, NEW i \in 1 .. Len(q[k])
        PROVE  DnsName[f[k - 1] + i - 1] = q[k][i]
    <3>1. name[f[k - 1] + i - 1] = q[k][i] /\ q[k][i] # AnyChar
      BY <1>5, <1>6, <2>2
    <3> QED BY <2>2, <2>4, <3>1
  <2> QED BY <2>1, <2>3, <2>4
<1>10. AlmostOwn(q) <=> Len(name) = Len(DnsName)
                        /\ \A p \in 1 .. Len(name) : name[p] \in {DnsName[p], AnyChar}
  BY DEF AlmostOwn, name, Labels
<1> QED BY <1>7, <1>8, <1>9, <1>10

(* What _DnsCompareName can return for a query.                            *)
LEMMA ResultsAre ==
  ASSUME NEW q \in Queries \cup {Root}, NEW own \in DnsCompareName(q)
  PROVE  /\ own \in BOOLEAN
         /\ ~q.pointer => (own <=> AlmostOwn(q.labels))
         /\ own => q.labels = <<>> \/ AlmostOwn(q.labels)
<1>1. q.labels \in Seq(Seq(Char) \ {<<>>}) /\ q.pointer \in BOOLEAN
  <2>1. CASE q = Root
    <3>1. q.labels = <<>> /\ q.pointer = FALSE
      BY <2>1 DEF Root
    <3>2. <<>> \in Seq(Seq(Char) \ {<<>>})
      OBVIOUS
    <3> HIDE DEF Root
    <3> QED BY ONLY <3>1, <3>2, Zenon
  <2>2. CASE q # Root
    <3>1. q \in [labels : Seq(Seq(Char) \ {<<>>}), pointer : BOOLEAN]
      BY <2>2, LinkAssumption
    <3> HIDE DEF Root
    <3> QED BY ONLY <3>1, Zenon
  <2> QED BY <2>1, <2>2
<1>2. CASE q.labels = <<>>
  <2>1. ~AlmostOwn(q.labels)
    BY <1>2 DEF AlmostOwn
  <2>2. own \in BOOLEAN
    BY <1>2 DEF DnsCompareName
  <2>3. ~q.pointer => ~own
    BY <1>2 DEF DnsCompareName, NameTooLong
  <2> QED BY <1>2, <2>1, <2>2, <2>3
<1>3. CASE q.labels # <<>>
  <2>1. SameName(q.labels) <=> AlmostOwn(q.labels)
    BY <1>1, <1>3, CompareIs DEF Labels
  <2>2. CASE ~NameTooLong(q)
    <3>1. own = SameName(q.labels)
      BY <1>3, <2>2, Zenon DEF DnsCompareName
    <3>2. own \in BOOLEAN
      BY <3>1, Zenon DEF SameName
    <3> QED BY <2>1, <3>1, <3>2, Zenon
  <2>3. CASE NameTooLong(q)
    <3>1. own = FALSE
      BY <2>3 DEF DnsCompareName
    <3>2. ~q.pointer => ~SameName(q.labels)
      <4> SUFFICES ASSUME ~q.pointer, SameName(q.labels) PROVE FALSE
        OBVIOUS
      <4>1. After(q.labels, Len(q.labels)) = Len(DnsName) + 2
        BY Zenon DEF SameName
      <4>2. After(q.labels, Len(q.labels)) - 2 + 0 > NameSize
        BY <1>3, <2>3 DEF NameTooLong
      <4> QED BY <4>1, <4>2, LinkAssumption
    <3> QED BY <2>1, <3>1, <3>2
  <2> QED BY <2>2, <2>3
<1> QED BY <1>2, <1>3

(* Every step keeps the answer right.                                      *)
LEMMA NameStep == LinkInv /\ NameCompared /\ [LinkNext]_linkVars => NameCompared'
<1> SUFFICES ASSUME LinkInv, NameCompared, [LinkNext]_linkVars PROVE NameCompared'
  OBVIOUS
<1>1. \/ answer' = answer /\ query' = query
      \/ answer' = "none"
      \/ /\ query' = query
         /\ \E own \in DnsCompareName(query) : answer' = IF own THEN "name" ELSE "error"
  <2>1. CASE DnsDelivered
    BY <2>1 DEF DnsDelivered, Delivered, LinkInv, AnsweredLate
  <2>2. CASE SendReply
    BY <2>2 DEF SendReply
  <2>3. CASE DnsDone
    BY <2>3 DEF DnsDone
  <2> QED
    BY <2>1, <2>2, <2>3
    DEF LinkNext, linkVars, L2LinkUp, L2LinkDown, OtherTakes, OtherGives, StackThread, TickThread,
        TickExpires, TickHandle, TickRearm, DhcpDelivered, DhcpAnswers, DnsFilters, GenReply
<1>2. CASE answer' = answer /\ query' = query
  BY <1>2 DEF NameCompared
<1>3. CASE answer' = "none"
  BY <1>3 DEF NameCompared
<1>4. ASSUME query' = query, NEW own \in DnsCompareName(query),
             answer' = IF own THEN "name" ELSE "error"
      PROVE  NameCompared'
  <2>1. query \in Queries \cup {Root}
    BY DEF LinkInv, LinkTypeOK
  <2>2. /\ own \in BOOLEAN
        /\ ~query.pointer => (own <=> AlmostOwn(query.labels))
        /\ own => query.labels = <<>> \/ AlmostOwn(query.labels)
    BY <2>1, ResultsAre
  <2>3. answer' = "name" <=> own
    BY <1>4, <2>2
  <2> QED BY <1>4, <2>2, <2>3 DEF NameCompared
<1> QED BY <1>1, <1>2, <1>3, <1>4

(* For every pool of PCBs, every name and every interleaving of the        *)
(* management task with the thread of the stack: L2LinkUp and L2LinkDown   *)
(* lose no PCB, DNSS_RecvCb frees what it allocated on every path, and it  *)
(* gives its address exactly for its name, but for the dots; of a          *)
(* compressed name, only if the labels before the pointer are its name or  *)
(* there are none.                                                         *)
THEOREM ServersCorrect == LinkSpec => []ServersSound
<1> DEFINE Inv == LinkInv /\ NameCompared
<1>1. LinkInit => Inv
  BY LinkInvInit DEF LinkInit, NameCompared
<1>2. Inv /\ [LinkNext]_linkVars => Inv'
  BY LinkStep, NameStep
<1>3. Inv => ServersSound
  BY DEF LinkInv, ServersSound, BlocksFreed, BlocksHeld
<1> QED BY <1>1, <1>2, <1>3, PTL DEF LinkSpec

-----------------------------------------------------------------------------
(* The resolver.                                                           *)

(* The entries of the resolver's table.                                    *)
DnsEntry == [state : {"UNUSED", "NEW", "ASKING", "DONE"},
             numdns : 0 .. Servers - 1, tmr : (0 .. MaxRetries) \cup {LongTmr},
             retries : 0 .. MaxRetries, seqno : 0 .. SeqnoMod - 1,
             ttl : 0 .. MaxTtl, ipaddr : Addr \cup {NoAddr}, found : BOOLEAN]

(* An entry with no retry left is given up at once: its timer has run out. *)
RetryLeft(e) == e.retries < MaxRetries \/ e.tmr \in {0, LongTmr}


(* What a step of dns_check_entry leaves true of an entry.                 *)
Checked(e, o) ==
  /\ o.entry \in DnsEntry /\ RetryLeft(o.entry)
  /\ o.timeout \in BOOLEAN /\ o.sends \in BOOLEAN
  /\ o.entry.state = "DONE" => e.state = "DONE"

(* The record dns_check_entry is modelled with.                            *)
LEMMA CheckedOutcome ==
  ASSUME NEW e, NEW x \in DnsEntry, NEW t \in BOOLEAN, NEW s \in BOOLEAN, RetryLeft(x),
         x.state = "DONE" => e.state = "DONE"
  PROVE  Checked(e, CheckOutcome(x, t, s))
BY DEF Checked, CheckOutcome

(* The constants the code assigns are in range.                            *)
LEMMA DnsRanges ==
  /\ 0 \in 0 .. Servers - 1 /\ 0 \in 0 .. SeqnoMod - 1 /\ 0 \in 0 .. MaxTtl
  /\ 0 \in 0 .. MaxRetries /\ 1 \in 0 .. MaxRetries /\ 0 < MaxRetries
BY DnsAssumption

(* Flushing an entry keeps its type, its retries and its timer.            *)
LEMMA FlushedEntry ==
  ASSUME NEW e \in DnsEntry
  PROVE  /\ Flushed(e) \in DnsEntry /\ Flushed(e).state = "UNUSED"
         /\ Flushed(e).retries = e.retries /\ Flushed(e).tmr = e.tmr
<1> DEFINE x == [e EXCEPT !.state = "UNUSED", !.found = FALSE]
<1>1. x \in DnsEntry /\ x.state = "UNUSED" /\ x.retries = e.retries /\ x.tmr = e.tmr
  BY Zenon DEF DnsEntry
<1> DEFINE y == [x EXCEPT !.seqno = 0, !.ttl = 0, !.ipaddr = NoAddr]
<1> HIDE DEF x
<1>2. y \in DnsEntry /\ y.state = "UNUSED" /\ y.retries = e.retries /\ y.tmr = e.tmr
  <2>1. NoAddr \in Addr \cup {NoAddr}
    OBVIOUS
  <2> QED BY <1>1, <2>1, DnsRanges, Zenon DEF DnsEntry
<1>3. Flushed(e) = y
  BY DEF Flushed, x
<1> HIDE DEF y
<1> QED BY <1>2, <1>3

(* dns_check_entry keeps an entry's type, never completes a question and   *)
(* never counts retries past the limit.                                    *)
LEMMA CheckedEntry ==
  ASSUME NEW e \in DnsEntry, RetryLeft(e)
  PROVE  Checked(e, dns_check_entry(e))
<1>1. CASE e.state = "NEW"
  <2> DEFINE x == [e EXCEPT !.state = "ASKING", !.numdns = 0, !.tmr = 1, !.retries = 0]
  <2>1. x \in DnsEntry /\ x.state = "ASKING" /\ x.tmr = 1 /\ x.retries = 0
    BY DnsRanges, Zenon DEF DnsEntry
  <2>2. dns_check_entry(e) = CheckOutcome(x, FALSE, TRUE)
    BY <1>1 DEF dns_check_entry
  <2> HIDE DEF x
  <2>3. RetryLeft(x)
    BY <2>1, DnsRanges DEF RetryLeft
  <2> QED BY <2>1, <2>2, <2>3, CheckedOutcome
<1>2. CASE e.state = "ASKING"
  <2> DEFINE left == [e EXCEPT !.tmr = Ticked(@)]
  <2>1. dns_check_entry(e) = CheckAsking(e)
    BY <1>2 DEF dns_check_entry
  <2>2. /\ left \in DnsEntry /\ left.state = "ASKING"
        /\ left.retries = e.retries /\ left.numdns = e.numdns
        /\ left.tmr = 0 => e.retries < MaxRetries
        /\ RetryLeft(left)
    BY <1>2, DnsAssumption DEF DnsEntry, RetryLeft, Ticked, LongTmr
  <2>3. CASE left.tmr # 0
    <3>1. CheckAsking(e) = CheckOutcome(left, FALSE, FALSE)
      BY <2>3 DEF CheckAsking
    <3> HIDE DEF left
    <3> QED BY <2>1, <2>2, <3>1, CheckedOutcome
  <2>4. CASE left.tmr = 0 /\ e.retries + 1 = MaxRetries /\ e.numdns + 1 < Servers
    <3> DEFINE x == [left EXCEPT !.numdns = @ + 1, !.tmr = 1, !.retries = 0]
    <3>1. CheckAsking(e) = CheckOutcome(x, FALSE, FALSE)
      BY <2>4 DEF CheckAsking
    <3> HIDE DEF left
    <3>2. left.numdns + 1 \in 0 .. Servers - 1
      BY <2>2, <2>4, DnsAssumption DEF DnsEntry
    <3>3. x \in DnsEntry /\ x.state = "ASKING" /\ x.tmr = 1 /\ x.retries = 0
      BY <2>2, <3>2, DnsRanges, Zenon DEF DnsEntry
    <3> HIDE DEF x
    <3>4. RetryLeft(x)
      BY <3>3, DnsRanges DEF RetryLeft
    <3> QED BY <2>1, <3>1, <3>3, <3>4, CheckedOutcome
  <2>5. CASE left.tmr = 0 /\ e.retries + 1 = MaxRetries /\ ~(e.numdns + 1 < Servers)
    <3> DEFINE x == [left EXCEPT !.retries = @ + 1]
    <3>1. CheckAsking(e) = CheckOutcome(Flushed(x), TRUE, FALSE)
      BY <2>5 DEF CheckAsking
    <3> HIDE DEF left
    <3>2. x \in DnsEntry /\ RetryLeft(x)
      BY <2>2, <2>5, DnsAssumption DEF DnsEntry, RetryLeft
    <3> HIDE DEF x
    <3>3. Flushed(x) \in DnsEntry /\ RetryLeft(Flushed(x)) /\ Flushed(x).state = "UNUSED"
      BY <3>2, FlushedEntry DEF RetryLeft
    <3> QED BY <2>1, <3>1, <3>3, CheckedOutcome
  <2>6. CASE left.tmr = 0 /\ e.retries + 1 # MaxRetries
    <3> DEFINE x == [left EXCEPT !.retries = @ + 1, !.tmr = e.retries + 1]
    <3>1. CheckAsking(e) = CheckOutcome(x, FALSE, TRUE)
      BY <2>6 DEF CheckAsking
    <3> HIDE DEF left
    <3>2. e.retries + 1 \in 0 .. MaxRetries /\ left.retries + 1 \in 0 .. MaxRetries
          /\ left.retries + 1 < MaxRetries
      BY <2>2, <2>6, DnsAssumption DEF DnsEntry
    <3>3. x \in DnsEntry /\ x.state = "ASKING" /\ x.retries = left.retries + 1
      BY <2>2, <3>2, Zenon DEF DnsEntry
    <3> HIDE DEF x
    <3>4. RetryLeft(x)
      BY <3>2, <3>3 DEF RetryLeft
    <3> QED BY <2>1, <3>1, <3>3, <3>4, CheckedOutcome
  <2> HIDE DEF left
  <2> QED BY <2>3, <2>4, <2>5, <2>6
<1>3. CASE e.state = "DONE"
  <2> DEFINE x == IF e.ttl = 1 THEN Flushed(e)
                  ELSE [e EXCEPT !.ttl = IF @ = 0 THEN MaxTtl ELSE @ - 1]
  <2>1. dns_check_entry(e) = CheckOutcome(x, FALSE, FALSE)
    BY <1>3 DEF dns_check_entry, CheckDone
  <2>2. x \in DnsEntry /\ RetryLeft(x)
    <3>1. CASE e.ttl = 1
      BY <3>1, FlushedEntry DEF RetryLeft
    <3>2. CASE e.ttl # 1
      <4>1. x = [e EXCEPT !.ttl = IF @ = 0 THEN MaxTtl ELSE @ - 1]
        BY <3>2
      <4> HIDE DEF x
      <4> QED BY <3>2, <4>1, DnsAssumption DEF DnsEntry, RetryLeft
    <3> HIDE DEF x
    <3> QED BY <3>1, <3>2
  <2> HIDE DEF x
  <2> QED BY <1>3, <2>1, <2>2, CheckedOutcome
<1>4. CASE e.state = "UNUSED"
  <2>1. dns_check_entry(e) = CheckOutcome(e, FALSE, FALSE)
    BY <1>4 DEF dns_check_entry
  <2> QED BY <1>4, <2>1, CheckedOutcome
<1> QED BY <1>1, <1>2, <1>3, <1>4 DEF DnsEntry

(* Unless an answer was missed, an address has come in whenever one can be  *)
(* handed on.                                                              *)
AddressKnown ==
  missed \/ /\ \A i \in Slots : dns_table[i].state = "DONE" => domain_ipaddr # NoAddr
            /\ domain_flag => domain_ipaddr # NoAddr
            /\ hostAddr # NoAddr

(* The inductive invariant of the resolver and the cloud task.             *)
DnsInv == DnsTypeOK /\ (\A i \in Slots : RetryLeft(dns_table[i])) /\ AddressKnown

(* The table's type, by the name of its entries.                           *)
LEMMA DnsTableType == DnsTypeOK => dns_table \in [Slots -> DnsEntry]
BY DEF DnsTypeOK, DnsEntry

(* The invariant holds before the first question ...                       *)
LEMMA DnsInvInit == DnsInit => DnsInv
<1> SUFFICES ASSUME DnsInit PROVE DnsInv
  OBVIOUS
<1>1. UnusedEntry \in DnsEntry /\ RetryLeft(UnusedEntry) /\ UnusedEntry.state = "UNUSED"
  <2>1. UnusedEntry \in DnsEntry
    BY DnsRanges, Zenon DEF UnusedEntry, DnsEntry
  <2> QED BY <2>1, DnsRanges DEF UnusedEntry, RetryLeft
<1>2. dns_table \in [Slots -> DnsEntry]
      /\ \A i \in Slots : RetryLeft(dns_table[i]) /\ dns_table[i].state = "UNUSED"
  BY <1>1 DEF DnsInit
<1>3. domain_flag \in BOOLEAN /\ missed \in BOOLEAN
  BY Zenon DEF DnsInit
<1>4. 0 \in Slots /\ 0 \in 0 .. MaxSem
  BY DnsAssumption DEF Slots
<1>5. DnsTypeOK
  BY <1>2, <1>3, <1>4, DnsRanges DEF DnsTypeOK, DnsInit, DnsEntry
<1>6. AddressKnown
  BY <1>2, DnsAssumption DEF AddressKnown, DnsInit
<1> QED BY <1>2, <1>5, <1>6 DEF DnsInv

(* What the callback may do to the two variables of the cloud task.        *)
LEMMA FoundTypes ==
  ASSUME DnsTypeOK, NEW n \in Nat, NEW a \in Addr \cup {NoAddr}, NuAgent_ServerFound(n, a)
  PROVE  /\ pdomainSem' \in 0 .. MaxSem
         /\ domain_flag' \in BOOLEAN /\ domain_ipaddr' \in Addr \cup {NoAddr}
         /\ domain_ipaddr # NoAddr => domain_ipaddr' # NoAddr
         /\ (domain_flag => domain_ipaddr # NoAddr) => (domain_flag' => domain_ipaddr' # NoAddr)
         /\ a # NoAddr /\ n # 0 => domain_ipaddr' # NoAddr
<1>1. pdomainSem' \in 0 .. MaxSem
  BY DnsAssumption DEF NuAgent_ServerFound, DnsTypeOK
<1>2. CASE n = 0
  BY <1>1, <1>2 DEF NuAgent_ServerFound, dnsFound, DnsTypeOK
<1>3. CASE n # 0
  <2>1. /\ domain_flag' = (a # NoAddr)
        /\ domain_ipaddr' = IF a # NoAddr THEN a ELSE domain_ipaddr
    BY <1>3 DEF NuAgent_ServerFound
  <2>2. domain_flag' \in BOOLEAN
    BY <2>1, Zenon
  <2> QED BY <1>1, <1>3, <2>1, <2>2 DEF DnsTypeOK
<1> QED BY <1>2, <1>3

(* The search of dns_enqueue ends at an entry of the table.                *)
LEMMA SlotChosen == DnsTypeOK => ChosenSlot \in Slots
<1> SUFFICES ASSUME DnsTypeOK PROVE ChosenSlot \in Slots
  OBVIOUS
<1>1. 0 \in Slots /\ Slots \subseteq Nat
  BY DnsAssumption DEF Slots
<1>2. CASE FreeSlots # {}
  <2>1. FreeSlots \subseteq Nat /\ FreeSlots \subseteq Slots
    BY <1>1 DEF FreeSlots
  <2>2. \E i \in FreeSlots : \A j \in FreeSlots : i <= j
    BY <1>2, <2>1, LeastElement
  <2> QED BY <1>2, <2>1, <2>2 DEF ChosenSlot
<1>3. CASE FreeSlots = {}
  <2> DEFINE done == {i \in Slots : dns_table[i].state = "DONE" /\ dns_seqno > dns_table[i].seqno}
             seqnos == {dns_table[i].seqno : i \in done}
  <2>1. CASE done = {}
    BY <1>1, <1>3, <2>1 DEF ChosenSlot, Oldest
  <2>2. CASE done # {}
    <3>1. \A i \in Slots : dns_table[i].seqno \in Nat
      BY DnsTableType, DnsAssumption DEF DnsEntry
    <3>2. seqnos \subseteq Nat /\ seqnos # {}
      BY <2>2, <3>1, Zenon
    <3>3. PICK m \in seqnos : \A k \in seqnos : m <= k
      <4> HIDE DEF seqnos
      <4> QED BY <3>2, LeastElement
    <3> DEFINE first == {i \in done : dns_table[i].seqno = m}
    <3>4. first \subseteq Nat /\ first # {}
      BY <1>1, <3>3
    <3>5. PICK i \in first : \A j \in first : i <= j
      <4> HIDE DEF first
      <4> QED BY <3>4, LeastElement
    <3>6. i \in done /\ \A j \in done : \/ dns_table[j].seqno > dns_table[i].seqno
                                        \/ dns_table[j].seqno = dns_table[i].seqno /\ i <= j
      BY <3>1, <3>2, <3>3, <3>5
    <3>7. Oldest = CHOOSE k \in done : \A j \in done :
                     \/ dns_table[j].seqno > dns_table[k].seqno
                     \/ dns_table[j].seqno = dns_table[k].seqno /\ k <= j
      BY <2>2, Zenon DEF Oldest
    <3>8. Oldest \in done
      <4> HIDE DEF done
      <4> QED BY <3>6, <3>7, Zenon
    <3> QED BY <1>3, <3>8 DEF ChosenSlot
  <2> QED BY <2>1, <2>2
<1> QED BY <1>2, <1>3

(* ... and every step keeps it.                                            *)
LEMMA DnsStep == DnsInv /\ [DnsNext]_dnsVars => DnsInv'
<1> SUFFICES ASSUME DnsInv, [DnsNext]_dnsVars PROVE DnsInv'
  OBVIOUS
<1>0. /\ DnsTypeOK /\ AddressKnown
      /\ dns_table \in [Slots -> DnsEntry] /\ \A i \in Slots : RetryLeft(dns_table[i])
  BY DnsTableType DEF DnsInv
<1>t. ASSUME dns_table' \in [Slots -> DnsEntry],
             dns_seqno' \in 0 .. SeqnoMod - 1,
             domain_flag' \in BOOLEAN, domain_ipaddr' \in Addr \cup {NoAddr},
             pdomainSem' \in 0 .. MaxSem,
             asker' \in {"idle", "new", "fill", "check", "start", "pend"},
             dnsSlot' \in Slots, hostAddr' \in Addr \cup {NoAddr, "failed"},
             openQueries' \subseteq Slots, missed' \in BOOLEAN
      PROVE  DnsTypeOK'
  BY <1>t, Zenon DEF DnsTypeOK, DnsEntry
<1>1. CASE LookupCached \/ TableFull \/ WaitFound
  <2>1. UNCHANGED <<dnsStack, dnsFound, dnsSlot>>
    BY <1>1 DEF LookupCached, TableFull, WaitFound
  <2>2. pdomainSem' \in 0 .. MaxSem
    BY <1>0, <1>1, DnsAssumption DEF LookupCached, TableFull, WaitFound, DnsTypeOK
  <2>3. hostAddr' \in Addr \cup {NoAddr, "failed"} /\ asker' \in {"idle", "pend"}
    BY <1>0, <1>1 DEF LookupCached, TableFull, WaitFound, DnsTypeOK
  <2>4. DnsTypeOK'
    BY <1>0, <2>1, <2>2, <2>3 DEF DnsTypeOK, dnsStack, dnsFound
  <2>5. AddressKnown'
    <3>1. CASE LookupCached
      <4>1. \E i \in Slots : dns_table[i].state = "DONE"
        BY <3>1 DEF LookupCached, Cached, dns_lookup, Completed
      <4> QED BY <1>0, <2>1, <3>1, <4>1 DEF LookupCached, AddressKnown, dnsStack, dnsFound
    <3>2. CASE TableFull \/ WaitFound
      BY <1>0, <2>1, <3>2, DnsAssumption DEF TableFull, WaitFound, AddressKnown, dnsStack, dnsFound
    <3> QED BY <1>1, <3>1, <3>2
  <2> QED BY <1>0, <2>1, <2>4, <2>5 DEF DnsInv, dnsStack
<1>2. CASE ChooseSlot
  <2>1. ChosenSlot \in Slots
    BY <1>0, SlotChosen
  <2>2. hostAddr' = "failed" /\ "failed" # NoAddr
    BY <1>2, DnsAssumption DEF ChooseSlot
  <2> QED BY <1>0, <1>2, <2>1, <2>2
          DEF ChooseSlot, DnsInv, DnsTypeOK, AddressKnown, dnsStack, dnsFound
<1>3. CASE SetNew \/ FillSlot \/ CheckNew \/ StartAsking
  <2>1. /\ dns_table' \in [Slots -> DnsEntry] /\ \A i \in Slots : RetryLeft(dns_table'[i])
        /\ \A i \in Slots : dns_table'[i].state = "DONE" => dns_table[i].state = "DONE"
    <3>0. dnsSlot \in Slots /\ dns_seqno \in 0 .. SeqnoMod - 1
      BY <1>0 DEF DnsTypeOK
    <3> DEFINE old == dns_table[dnsSlot]
    <3>1. CASE SetNew
      <4> DEFINE x == [old EXCEPT !.state = "NEW", !.ipaddr = NoAddr]
      <4>1. NoAddr \in Addr \cup {NoAddr}
        OBVIOUS
      <4>2. x \in DnsEntry /\ x.state = "NEW" /\ x.retries = old.retries /\ x.tmr = old.tmr
        BY <1>0, <3>0, <4>1, Zenon DEF DnsEntry
      <4>3. dns_table' = [dns_table EXCEPT ![dnsSlot] = x]
        BY <3>1 DEF SetNew
      <4> HIDE DEF x
      <4> QED BY <1>0, <3>0, <4>2, <4>3 DEF RetryLeft
    <3>4. CASE CheckNew
      <4> DEFINE x == [old EXCEPT !.state = "ASKING"]
      <4>1. x \in DnsEntry /\ x.state = "ASKING" /\ x.retries = old.retries /\ x.tmr = old.tmr
        BY <1>0, <3>0, Zenon DEF DnsEntry
      <4>2. dns_table' = [dns_table EXCEPT ![dnsSlot] = x]
        BY <3>4 DEF CheckNew
      <4> HIDE DEF x
      <4> QED BY <1>0, <3>0, <4>1, <4>2 DEF RetryLeft
    <3>2. CASE FillSlot
      <4> DEFINE x == [old EXCEPT !.seqno = dns_seqno, !.found = TRUE]
      <4>1. x \in DnsEntry /\ x.state = old.state /\ x.retries = old.retries /\ x.tmr = old.tmr
        BY <1>0, <3>0, Zenon DEF DnsEntry
      <4>2. dns_table' = [dns_table EXCEPT ![dnsSlot] = x]
        BY <3>2 DEF FillSlot
      <4> HIDE DEF x
      <4> QED BY <1>0, <3>0, <4>1, <4>2 DEF RetryLeft
    <3>3. CASE StartAsking
      <4> DEFINE x == [old EXCEPT !.numdns = 0, !.tmr = 1, !.retries = 0]
      <4>1. x \in DnsEntry /\ x.state = old.state /\ x.retries = 0
        BY <1>0, <3>0, DnsRanges, Zenon DEF DnsEntry
      <4>2. dns_table' = [dns_table EXCEPT ![dnsSlot] = x]
        BY <3>3 DEF StartAsking
      <4> HIDE DEF x
      <4> QED BY <1>0, <3>0, <4>1, <4>2, DnsRanges DEF RetryLeft
    <3> QED BY <1>3, <3>1, <3>2, <3>3, <3>4
  <2>2. UNCHANGED <<missed, dnsFound, pdomainSem, dnsSlot, hostAddr>>
    BY <1>3 DEF SetNew, FillSlot, CheckNew, StartAsking
  <2>3. openQueries' \subseteq Slots /\ asker' \in {"fill", "check", "start", "pend"}
        /\ dns_seqno' \in 0 .. SeqnoMod - 1
    BY <1>0, <1>3, DnsAssumption DEF SetNew, FillSlot, CheckNew, StartAsking, DnsTypeOK
  <2>4. DnsTypeOK'
    BY <1>0, <1>t, <2>1, <2>2, <2>3 DEF DnsTypeOK, dnsFound
  <2> QED BY <1>0, <2>1, <2>2, <2>4 DEF DnsInv, AddressKnown, dnsFound
<1>4. CASE CheckOther
  <2> DEFINE o == dns_check_entry(dns_table[dnsSlot])
             n == IF o.timeout THEN 1 ELSE 0
  <2>1. /\ dns_table' = [dns_table EXCEPT ![dnsSlot] = o.entry]
        /\ NuAgent_ServerFound(n, NoAddr)
        /\ openQueries' \in {openQueries, IF o.sends THEN openQueries \cup {dnsSlot} ELSE openQueries}
        /\ asker' = "pend" /\ UNCHANGED <<dns_seqno, missed, dnsSlot, hostAddr>>
    BY <1>4, Zenon DEF CheckOther
  <2>2. dnsSlot \in Slots /\ openQueries \subseteq Slots
    BY <1>0 DEF DnsTypeOK
  <2>3. Checked(dns_table[dnsSlot], o)
    BY <1>0, <2>2, CheckedEntry
  <2>4. n \in Nat
    BY SMT
  <2> HIDE DEF o, n
  <2>5. /\ dns_table' \in [Slots -> DnsEntry] /\ \A i \in Slots : RetryLeft(dns_table'[i])
        /\ \A i \in Slots : dns_table'[i].state = "DONE" => dns_table[i].state = "DONE"
    BY <1>0, <2>1, <2>2, <2>3 DEF Checked
  <2>6. openQueries' \subseteq Slots
    BY <2>1, <2>2
  <2>7. /\ pdomainSem' \in 0 .. MaxSem
        /\ domain_flag' \in BOOLEAN /\ domain_ipaddr' \in Addr \cup {NoAddr}
        /\ domain_ipaddr # NoAddr => domain_ipaddr' # NoAddr
        /\ (domain_flag => domain_ipaddr # NoAddr) => (domain_flag' => domain_ipaddr' # NoAddr)
    BY <1>0, <2>1, <2>4, FoundTypes, Zenon
  <2>8. DnsTypeOK'
    BY <1>0, <1>t, <2>1, <2>5, <2>6, <2>7 DEF DnsTypeOK
  <2> QED BY <1>0, <2>1, <2>5, <2>7, <2>8 DEF DnsInv, AddressKnown
<1>5. CASE dns_tmr
  <2> DEFINE o == [i \in Slots |-> dns_check_entry(dns_table[i])]
             called == {i \in Slots : o[i].timeout /\ dns_table[i].found}
             lost == {i \in Slots : o[i].timeout /\ ~dns_table[i].found}
  <2>1. /\ dns_table' = [i \in Slots |-> o[i].entry]
        /\ NuAgent_ServerFound(Cardinality(called), NoAddr)
        /\ \E s \in SUBSET {i \in Slots : o[i].sends} : openQueries' = openQueries \cup s
        /\ missed' = (missed \/ lost # {})
        /\ UNCHANGED <<dns_seqno, asker, dnsSlot, hostAddr>>
    BY <1>5, Zenon DEF dns_tmr
  <2>2. \A i \in Slots : Checked(dns_table[i], o[i])
    BY <1>0, CheckedEntry
  <2>3. Cardinality(called) \in Nat
    <3>1. IsFiniteSet(Slots)
      <4>1. 0 \in Int /\ TableSize - 1 \in Int
        BY DnsAssumption
      <4> QED BY <4>1, FS_Interval, Zenon DEF Slots
    <3> QED BY <3>1, FS_Subset, FS_CardinalityType
  <2> HIDE DEF o, called, lost
  <2>4. missed' \in BOOLEAN /\ (missed => missed')
    BY <1>0, <2>1, Zenon DEF DnsTypeOK
  <2>5. /\ dns_table' \in [Slots -> DnsEntry] /\ \A i \in Slots : RetryLeft(dns_table'[i])
        /\ \A i \in Slots : dns_table'[i].state = "DONE" => dns_table[i].state = "DONE"
    BY <1>0, <2>1, <2>2 DEF Checked
  <2>6. openQueries' \subseteq Slots
    BY <1>0, <2>1 DEF DnsTypeOK
  <2>7. /\ pdomainSem' \in 0 .. MaxSem
        /\ domain_flag' \in BOOLEAN /\ domain_ipaddr' \in Addr \cup {NoAddr}
        /\ domain_ipaddr # NoAddr => domain_ipaddr' # NoAddr
        /\ (domain_flag => domain_ipaddr # NoAddr) => (domain_flag' => domain_ipaddr' # NoAddr)
    BY <1>0, <2>1, <2>3, FoundTypes, Zenon
  <2>8. DnsTypeOK'
    BY <1>0, <1>t, <2>1, <2>4, <2>5, <2>6, <2>7 DEF DnsTypeOK
  <2> QED BY <1>0, <2>1, <2>4, <2>5, <2>7, <2>8 DEF DnsInv, AddressKnown
<1>6. CASE dns_recv
  <2>1. PICK i \in openQueries :
          /\ openQueries' \in {openQueries, openQueries \ {i}}
          /\ IF dns_table[i].state = "ASKING"
             THEN \/ DnsAnswerError(i)
                  \/ \E a \in Addr \cup {NoAddr}, ttl \in 0 .. MaxTtl : DnsAnswer(i, a, ttl)
             ELSE UNCHANGED <<dns_table, dnsFound, pdomainSem, missed>>
          /\ UNCHANGED <<dns_seqno, asker, dnsSlot, hostAddr>>
    BY <1>6 DEF dns_recv
  <2>2. i \in Slots /\ openQueries' \subseteq Slots /\ dns_table[i] \in DnsEntry
    BY <1>0, <2>1 DEF DnsTypeOK
  <2> DEFINE n == IF dns_table[i].found THEN 1 ELSE 0
  <2>3. n \in Nat /\ dns_table[i].found \in BOOLEAN /\ (n # 0 <=> dns_table[i].found)
    BY <2>2 DEF DnsEntry
  <2>4. CASE UNCHANGED <<dns_table, dnsFound, pdomainSem, missed>>
    <3>1. DnsTypeOK'
      BY <1>0, <2>1, <2>2, <2>4 DEF DnsTypeOK, dnsFound
    <3> QED BY <1>0, <2>1, <2>4, <3>1 DEF DnsInv, AddressKnown, dnsFound
  <2>5. CASE DnsAnswerError(i)
    <3>1. dns_table' = [dns_table EXCEPT ![i] = Flushed(dns_table[i])]
          /\ NuAgent_ServerFound(n, NoAddr) /\ missed' = (missed \/ ~dns_table[i].found)
      BY <2>5, Zenon DEF DnsAnswerError
    <3> HIDE DEF n
    <3>2. missed' \in BOOLEAN /\ (missed => missed')
      BY <1>0, <3>1, Zenon DEF DnsTypeOK
    <3>3. /\ dns_table' \in [Slots -> DnsEntry] /\ \A j \in Slots : RetryLeft(dns_table'[j])
          /\ \A j \in Slots : dns_table'[j].state = "DONE" => dns_table[j].state = "DONE"
      BY <1>0, <2>2, <3>1, FlushedEntry DEF RetryLeft
    <3>4. /\ pdomainSem' \in 0 .. MaxSem
          /\ domain_flag' \in BOOLEAN /\ domain_ipaddr' \in Addr \cup {NoAddr}
          /\ domain_ipaddr # NoAddr => domain_ipaddr' # NoAddr
          /\ (domain_flag => domain_ipaddr # NoAddr) => (domain_flag' => domain_ipaddr' # NoAddr)
      BY <1>0, <2>3, <3>1, FoundTypes, Zenon
    <3>5. DnsTypeOK'
      BY <1>0, <1>t, <2>1, <2>2, <3>2, <3>3, <3>4 DEF DnsTypeOK
    <3> QED BY <1>0, <2>1, <3>2, <3>3, <3>4, <3>5 DEF DnsInv, AddressKnown
  <2>6. ASSUME NEW a \in Addr \cup {NoAddr}, NEW ttl \in 0 .. MaxTtl, DnsAnswer(i, a, ttl)
        PROVE  DnsInv'
    <3> DEFINE x == [dns_table[i] EXCEPT !.state = "DONE", !.ttl = ttl, !.ipaddr = a]
    <3>1. dns_table' = [dns_table EXCEPT ![i] = x]
      BY <2>6 DEF DnsAnswer
    <3>2. NuAgent_ServerFound(n, a) /\ missed' = (missed \/ ~dns_table[i].found \/ a = NoAddr)
      BY <2>6, Zenon DEF DnsAnswer
    <3>3. x \in DnsEntry /\ x.retries = dns_table[i].retries /\ x.tmr = dns_table[i].tmr
      BY <2>2, Zenon DEF DnsEntry
    <3> HIDE DEF n, x
    <3>4. missed' \in BOOLEAN /\ (missed => missed') /\ (~dns_table[i].found => missed')
          /\ (a = NoAddr => missed')
      BY <1>0, <3>2, Zenon DEF DnsTypeOK
    <3>5. /\ dns_table' \in [Slots -> DnsEntry] /\ \A j \in Slots : RetryLeft(dns_table'[j])
      BY <1>0, <2>2, <3>1, <3>3 DEF RetryLeft
    <3>6. /\ pdomainSem' \in 0 .. MaxSem
          /\ domain_flag' \in BOOLEAN /\ domain_ipaddr' \in Addr \cup {NoAddr}
          /\ (domain_flag => domain_ipaddr # NoAddr) => (domain_flag' => domain_ipaddr' # NoAddr)
          /\ a # NoAddr /\ n # 0 => domain_ipaddr' # NoAddr
      BY <1>0, <2>3, <3>2, FoundTypes, Zenon
    <3>7. missed' \/ domain_ipaddr' # NoAddr
      BY <2>3, <3>4, <3>6
    <3>8. DnsTypeOK'
      BY <1>0, <1>t, <2>1, <2>2, <3>4, <3>5, <3>6 DEF DnsTypeOK
    <3> QED BY <1>0, <2>1, <3>4, <3>5, <3>6, <3>7, <3>8 DEF DnsInv, AddressKnown
  <2> QED BY <2>1, <2>4, <2>5, <2>6
<1>7. CASE UNCHANGED dnsVars
  BY <1>7 DEF dnsVars, dnsStack, dnsFound, DnsInv, DnsTypeOK, AddressKnown
<1> QED BY <1>1, <1>2, <1>3, <1>4, <1>5, <1>6, <1>7 DEF DnsNext, Asker

(* For every table size, number of retries and servers, and every          *)
(* interleaving of the cloud task with the thread of the stack:            *)
(* NuAgent_GetHostByName hands on an address only after the server has     *)
(* given one, unless an answer came before the entry was filled or was     *)
(* 0.0.0.0.                                                                *)
THEOREM AddressCorrect == DnsSpec => []AddressGiven
<1>1. DnsInv => AddressGiven
  BY DEF DnsInv, AddressKnown, AddressGiven
<1> QED BY <1>1, DnsInvInit, DnsStep, PTL DEF DnsSpec

-----------------------------------------------------------------------------
(* The ring buffer: the bytes between two indices of a buffer.             *)

Count(h, t) == IF t >= h THEN t - h ELSE RingSize + t - h

Contents(b, h, t) == [k \in 1 .. Count(h, t) |-> b[(h + k - 1) % RingSize]]

LEMMA StoredIsContents ==
  /\ ring_buf_cnt(tail, tail) = Count(head, tail)
  /\ Stored = Contents(buffer, head, tail)
  BY DEF Stored, Contents, ring_buf_cnt, Count

(* One place stays empty, so that a full buffer is told from an empty one. *)
LEMMA CountInRange ==
  ASSUME NEW h \in Indices, NEW t \in Indices
  PROVE  Count(h, t) \in 0 .. RingSize - 1
  BY RingAssumption DEF Count, Indices

(* What % does to an index at most one turn ahead.                         *)
LEMMA ModIsWrapped ==
  ASSUME NEW i \in 0 .. 2 * RingSize - 1
  PROVE  i % RingSize = Wrapped(i) /\ Wrapped(i) \in Indices
<1>1. CASE i < RingSize
  BY <1>1, RingAssumption DEF Wrapped, Indices
<1>2. CASE i >= RingSize
  BY <1>2, RingAssumption DEF Wrapped, Indices
<1> QED
  BY <1>1, <1>2, RingAssumption

LEMMA ContentsType ==
  ASSUME NEW h \in Indices, NEW t \in Indices, NEW b \in [Indices -> Byte]
  PROVE  /\ Contents(b, h, t) \in Seq(Byte)
         /\ Len(Contents(b, h, t)) = Count(h, t)
<1>0. Count(h, t) \in 0 .. RingSize - 1
  BY CountInRange
<1>1. \A k \in 1 .. Count(h, t) : b[(h + k - 1) % RingSize] \in Byte
  <2> TAKE k \in 1 .. Count(h, t)
  <2>1. h + k - 1 \in 0 .. 2 * RingSize - 1
    BY <1>0, RingAssumption DEF Indices
  <2> QED
    BY <2>1, ModIsWrapped
<1> QED
  BY <1>0, <1>1, RingAssumption DEF Contents

(* The c places from the tail on are free, and follow those in use.        *)
LEMMA FreePlaces ==
  ASSUME NEW h \in Indices, NEW t \in Indices, NEW n \in Nat, n = Count(h, t),
         NEW c \in Nat, n + c < RingSize, t + c <= RingSize
  PROVE  /\ Wrapped(t + c) \in Indices
         /\ Count(h, Wrapped(t + c)) = n + c
         /\ \A k \in 1 .. n : (h + k - 1) % RingSize \in Indices \ (t .. t + c - 1)
         /\ \A k \in 1 .. c : /\ (h + (n + k) - 1) % RingSize = t + k - 1
                              /\ t + k - 1 \in Indices \cap (t .. t + c - 1)
<1> RingSize \in Nat /\ RingSize > 1
  BY RingAssumption
<1>1. Wrapped(t + c) \in Indices /\ Count(h, Wrapped(t + c)) = n + c
  <2>1. CASE t + c < RingSize
    BY <2>1 DEF Wrapped, Indices, Count
  <2>2. CASE t + c = RingSize
    BY <2>2 DEF Wrapped, Indices, Count
  <2> QED
    BY <2>1, <2>2 DEF Indices
<1>2. ASSUME NEW k \in 1 .. n
      PROVE  (h + k - 1) % RingSize \in Indices \ (t .. t + c - 1)
  <2>1. h + k - 1 \in 0 .. 2 * RingSize - 1
    BY DEF Indices
  <2>2. Wrapped(h + k - 1) \notin t .. t + c - 1
    BY DEF Wrapped, Indices, Count
  <2> QED
    BY <2>1, <2>2, ModIsWrapped
<1>3. ASSUME NEW k \in 1 .. c
      PROVE  /\ (h + (n + k) - 1) % RingSize = t + k - 1
             /\ t + k - 1 \in Indices \cap (t .. t + c - 1)
  <2>1. h + (n + k) - 1 \in 0 .. 2 * RingSize - 1
    BY DEF Indices
  <2>2. Wrapped(h + (n + k) - 1) = t + k - 1
    BY DEF Wrapped, Indices, Count
  <2>3. t + k - 1 \in Indices \cap (t .. t + c - 1)
    BY DEF Indices
  <2> QED
    BY <2>1, <2>2, <2>3, ModIsWrapped
<1> QED
  BY <1>1, <1>2, <1>3

(* A sequence is a concatenation if its first and its last elements are    *)
(* those of the two parts.                                                 *)
LEMMA IsConcat ==
  ASSUME NEW S, NEW q \in Seq(S), NEW s \in Seq(S), NEW r \in Seq(S),
         Len(r) = Len(q) + Len(s),
         \A k \in 1 .. Len(q) : r[k] = q[k],
         \A k \in 1 .. Len(s) : r[Len(q) + k] = s[k]
  PROVE  r = q \o s
<1>1. /\ q \o s \in Seq(S) /\ Len(q \o s) = Len(q) + Len(s)
      /\ \A i \in 1 .. Len(q) + Len(s) :
            (q \o s)[i] = IF i <= Len(q) THEN q[i] ELSE s[i - Len(q)]
  BY ConcatProperties
<1>2. Len(q) \in Nat /\ Len(s) \in Nat
  OBVIOUS
<1>3. ASSUME NEW i \in 1 .. Len(r)
      PROVE  r[i] = (q \o s)[i]
  <2>1. CASE i <= Len(q)
    BY <1>1, <1>2, <2>1
  <2>2. CASE i > Len(q)
    <3> DEFINE k == i - Len(q)
    <3>1. k \in 1 .. Len(s) /\ Len(q) + k = i /\ ~(i <= Len(q))
      BY <1>2, <2>2
    <3> HIDE DEF k
    <3>2. r[i] = s[k]
      BY <3>1
    <3> QED
      BY <1>1, <3>1, <3>2 DEF k
  <2> QED
    BY <1>2, <2>1, <2>2
<1> QED
  BY <1>1, <1>3, SeqEqual

(* A buffer with the first c bytes of s stored from place t on.            *)
StoredAt(b, t, s, c) ==
  [i \in Indices |-> IF i \in t .. t + c - 1 THEN s[i - t + 1] ELSE b[i]]

LEMMA StoredAtPlaces ==
  ASSUME NEW t \in Indices, NEW b \in [Indices -> Byte], NEW s \in Seq(Byte),
         NEW c \in Nat, c <= Len(s), t + c <= RingSize
  PROVE  /\ StoredAt(b, t, s, c) \in [Indices -> Byte]
         /\ \A i \in Indices \ (t .. t + c - 1) : StoredAt(b, t, s, c)[i] = b[i]
         /\ \A k \in 1 .. c : StoredAt(b, t, s, c)[t + k - 1] = s[k]
<1> RingSize \in Nat /\ RingSize > 1
  BY RingAssumption
<1>1. ASSUME NEW i \in t .. t + c - 1
      PROVE  s[i - t + 1] \in Byte
  <2>1. i - t + 1 \in 1 .. Len(s)
    BY DEF Indices
  <2> QED
    BY <2>1
<1>2. ASSUME NEW k \in 1 .. c
      PROVE  StoredAt(b, t, s, c)[t + k - 1] = s[k]
  <2>1. /\ t + k - 1 \in Indices \cap (t .. t + c - 1)
        /\ (t + k - 1) - t + 1 = k
    BY DEF Indices
  <2> QED
    BY <2>1 DEF StoredAt
<1> QED
  BY <1>1, <1>2 DEF StoredAt

(* Bytes stored from the tail on, in places that are free, are appended.   *)
LEMMA AppendBytes ==
  ASSUME NEW h \in Indices, NEW t \in Indices, NEW b \in [Indices -> Byte],
         NEW s \in Seq(Byte), NEW c \in Nat, c <= Len(s),
         Count(h, t) + c < RingSize, t + c <= RingSize
  PROVE  /\ Wrapped(t + c) \in Indices
         /\ Count(h, Wrapped(t + c)) = Count(h, t) + c
         /\ Contents(StoredAt(b, t, s, c), h, Wrapped(t + c)) =
              Contents(b, h, t) \o SubSeq(s, 1, c)
<1> DEFINE b2 == StoredAt(b, t, s, c)
           d  == SubSeq(s, 1, c)
           n  == Count(h, t)
<1>1. n \in Nat
  BY CountInRange, RingAssumption
<1>2. /\ b2 \in [Indices -> Byte]
      /\ \A i \in Indices \ (t .. t + c - 1) : b2[i] = b[i]
      /\ \A k \in 1 .. c : b2[t + k - 1] = s[k]
  BY StoredAtPlaces
<1>3. d \in Seq(Byte) /\ Len(d) = c /\ \A k \in 1 .. c : d[k] = s[k]
  OBVIOUS
<1> DEFINE t2 == Wrapped(t + c)
           q == Contents(b, h, t)
           r == Contents(b2, h, t2)
<1>4. /\ t2 \in Indices /\ Count(h, t2) = n + c
      /\ \A k \in 1 .. n : (h + k - 1) % RingSize \in Indices \ (t .. t + c - 1)
      /\ \A k \in 1 .. c : (h + (n + k) - 1) % RingSize = t + k - 1
  BY <1>1, FreePlaces
<1>5. /\ q \in Seq(Byte) /\ Len(q) = n
      /\ r \in Seq(Byte) /\ Len(r) = n + c
  BY <1>2, <1>4, ContentsType
<1>6. \A k \in 1 .. n : r[k] = q[k]
  <2> HIDE DEF n, b2, t2
  <2> TAKE k \in 1 .. n
  <2>1. k \in 1 .. n + c
    BY <1>1
  <2>2. q[k] = b[(h + k - 1) % RingSize] /\ r[k] = b2[(h + k - 1) % RingSize]
    BY <1>4, <2>1 DEF Contents, n
  <2> QED
    BY <1>2, <1>4, <2>2
<1>7. \A k \in 1 .. c : r[n + k] = d[k]
  <2> HIDE DEF n, b2, t2, d
  <2> TAKE k \in 1 .. c
  <2>1. n + k \in 1 .. n + c
    BY <1>1
  <2>2. r[n + k] = b2[(h + (n + k) - 1) % RingSize]
    BY <1>4, <2>1 DEF Contents
  <2> QED
    BY <1>2, <1>3, <1>4, <2>2
<1>8. r = q \o d
  <2> HIDE DEF q, r, d, n
  <2>1. /\ Len(r) = Len(q) + Len(d)
        /\ \A k \in 1 .. Len(q) : r[k] = q[k]
        /\ \A k \in 1 .. Len(d) : r[Len(q) + k] = d[k]
    BY <1>3, <1>5, <1>6, <1>7
  <2> QED
    BY ONLY <1>3, <1>5, <2>1, IsConcat
<1> QED
  BY <1>4, <1>8

-----------------------------------------------------------------------------
(* Writing.                                                                *)

(* The space to the end is free, and does not pass the end.                *)
LEMMA SpaceIsFree ==
  ASSUME NEW h \in Indices, NEW t \in Indices, NEW c \in Nat,
         c <= ring_buf_space_to_end(h, t)
  PROVE  Count(h, t) + c < RingSize /\ t + c <= RingSize
<1> RingSize \in Nat /\ RingSize > 1
  BY RingAssumption
<1> QED
  BY DEF ring_buf_space_to_end, Count, Indices

(* The state of the loop of ring_buf_write.                                *)
WriteState == [b : [Indices -> Byte], t : Indices, s : Seq(Byte)]

(* What one record of the loop makes of another: some bytes are appended.  *)
Appended(st, st2) ==
  \E d \in Seq(Byte) :
    /\ Count(head, st.t) + Len(d) < RingSize
    /\ Count(head, st2.t) = Count(head, st.t) + Len(d)
    /\ Contents(st2.b, head, st2.t) = Contents(st.b, head, st.t) \o d

LEMMA RoundAppends ==
  ASSUME NEW st \in WriteState, head \in Indices
  PROVE  WriteRound(st) \in WriteState /\ Appended(st, WriteRound(st))
<1> RingSize \in Nat /\ RingSize > 1
  BY RingAssumption
<1> DEFINE c == Least(Len(st.s), ring_buf_space_to_end(head, st.t))
           n == Count(head, st.t)
           st2 == WriteRound(st)
<1>0. st.b \in [Indices -> Byte] /\ st.t \in Indices /\ st.s \in Seq(Byte)
  BY DEF WriteState
<1>1. n \in 0 .. RingSize - 1
  BY <1>0, CountInRange
<1>2. c \in Int /\ c <= Len(st.s) /\ c <= ring_buf_space_to_end(head, st.t)
  <2>1. Len(st.s) \in Nat /\ ring_buf_space_to_end(head, st.t) \in Int
    BY <1>0 DEF ring_buf_space_to_end, Indices
  <2> QED
    BY <2>1 DEF Least
<1>3. CASE c <= 0
  <2>1. st2 = st
    BY <1>3 DEF WriteRound
  <2> DEFINE d == <<>>
  <2>2. Contents(st.b, head, st.t) = Contents(st.b, head, st.t) \o d
    BY <1>0, ContentsType, ConcatEmptySeq
  <2>3. d \in Seq(Byte) /\ Len(d) = 0
    OBVIOUS
  <2> HIDE DEF st2, c, d
  <2>4. Appended(st, st)
    <3>1. /\ Count(head, st.t) + Len(d) < RingSize
          /\ Count(head, st.t) = Count(head, st.t) + Len(d)
      BY <1>1, <2>3
    <3> QED
      BY ONLY <2>2, <2>3, <3>1, Zenon DEF Appended
  <2> QED
    BY <2>1, <2>4 DEF st2
<1>4. CASE c > 0
  <2> DEFINE b2 == StoredAt(st.b, st.t, st.s, c)
             s2 == SubSeq(st.s, c + 1, Len(st.s))
             d  == SubSeq(st.s, 1, c)
  <2>1. st2 = [b |-> b2, t |-> Wrapped(st.t + c), s |-> s2]
    <3>1. ~(c <= 0)
      BY <1>2, <1>4
    <3> QED
      BY <3>1 DEF WriteRound, StoredAt
  <2> HIDE DEF st2, c
  <2>2. c \in Nat \ {0} /\ n + c < RingSize /\ st.t + c <= RingSize
    BY <1>0, <1>2, <1>4, SpaceIsFree
  <2>3. /\ d \in Seq(Byte) /\ Len(d) = c
        /\ s2 \in Seq(Byte)
    BY <1>0, <1>2, <2>2
  <2>4. b2 \in [Indices -> Byte]
    BY <1>0, <1>2, <2>2, StoredAtPlaces
  <2>6. /\ Wrapped(st.t + c) \in Indices
        /\ Count(head, Wrapped(st.t + c)) = n + c
        /\ Contents(b2, head, Wrapped(st.t + c)) = Contents(st.b, head, st.t) \o d
    <3>1. c \in Nat /\ c <= Len(st.s) /\ n + c < RingSize /\ st.t + c <= RingSize
      BY <1>2, <2>2
    <3> QED
      BY ONLY head \in Indices, <1>0, <3>1, AppendBytes, Zenon
  <2> HIDE DEF b2, s2, d
  <2>7. st2 \in WriteState
    BY <2>1, <2>3, <2>4, <2>6 DEF WriteState
  <2>8. Appended(st, st2)
    BY <2>1, <2>2, <2>3, <2>6 DEF Appended
  <2> QED
    BY <2>7, <2>8 DEF st2
<1> QED
  BY <1>2, <1>3, <1>4

LEMMA AppendedTrans ==
  ASSUME NEW st1 \in WriteState, NEW st2 \in WriteState, NEW st3 \in WriteState,
         head \in Indices, Appended(st1, st2), Appended(st2, st3)
  PROVE  Appended(st1, st3)
<1> DEFINE n(st) == Count(head, st.t)
           q(st) == Contents(st.b, head, st.t)
<1>1. PICK d1 \in Seq(Byte) :
        n(st1) + Len(d1) < RingSize /\ n(st2) = n(st1) + Len(d1) /\ q(st2) = q(st1) \o d1
  BY Zenon DEF Appended
<1>2. PICK d2 \in Seq(Byte) :
        n(st2) + Len(d2) < RingSize /\ n(st3) = n(st2) + Len(d2) /\ q(st3) = q(st2) \o d2
  BY Zenon DEF Appended
<1> DEFINE d == d1 \o d2
<1>3. d \in Seq(Byte) /\ Len(d) = Len(d1) + Len(d2)
  BY ConcatProperties
<1>4. n(st1) \in Nat
  BY CountInRange, RingAssumption DEF WriteState
<1>5. n(st1) + Len(d) < RingSize /\ n(st3) = n(st1) + Len(d)
  <2> HIDE DEF n, d
  <2> QED
    BY <1>1, <1>2, <1>3, <1>4
<1>6. q(st1) \in Seq(Byte)
  BY ContentsType DEF WriteState
<1>7. q(st3) = q(st1) \o d
  <2> HIDE DEF q
  <2> QED
    BY <1>1, <1>2, <1>6, ConcatAssociative
<1> QED
  BY ONLY <1>3, <1>5, <1>7, Zenon DEF Appended

(* Some bytes are appended by the writer, or none.                         *)
BytesAppended ==
  /\ tail' \in Indices /\ buffer' \in [Indices -> Byte]
  /\ \E d \in Seq(Byte) :
       /\ Count(head, tail) + Len(d) < RingSize
       /\ Count(head, tail') = Count(head, tail) + Len(d)
       /\ Contents(buffer', head, tail') = Contents(buffer, head, tail) \o d

LEMMA WriteAppends ==
  ASSUME NEW s \in Seq(Byte), RingTypeOK, ring_buf_write(s)
  PROVE  BytesAppended
<1> DEFINE st1 == [b |-> buffer, t |-> tail, s |-> s]
           st2 == WriteRound(st1)
           st3 == WriteRound(st2)
<1>0. head \in Indices
  BY DEF RingTypeOK
<1>1. st1 \in WriteState /\ st1.b = buffer /\ st1.t = tail
  BY DEF RingTypeOK, WriteState
<1>2. buffer' = st3.b /\ tail' = st3.t
  BY DEF ring_buf_write
<1> HIDE DEF st1
<1>3. st2 \in WriteState /\ Appended(st1, st2)
  BY <1>0, <1>1, RoundAppends
<1> HIDE DEF st2
<1>4. st3 \in WriteState /\ Appended(st2, st3)
  BY <1>0, <1>3, RoundAppends
<1> HIDE DEF st3
<1>5. Appended(st1, st3)
  BY <1>0, <1>1, <1>3, <1>4, AppendedTrans
<1>6. st3.t \in Indices /\ st3.b \in [Indices -> Byte]
  BY <1>4 DEF WriteState
<1> QED
  BY ONLY <1>1, <1>2, <1>5, <1>6, Zenon DEF Appended, BytesAppended

LEMMA WriteCharAppends ==
  ASSUME NEW x \in Byte, RingTypeOK, ring_buf_write_char(x)
  PROVE  BytesAppended
<1> RingSize \in Nat /\ RingSize > 1
  BY RingAssumption
<1>0. head \in Indices /\ tail \in Indices /\ buffer \in [Indices -> Byte]
  BY DEF RingTypeOK
<1>1. Count(head, tail) \in 0 .. RingSize - 1
  BY <1>0, CountInRange
<1>2. CASE ring_buf_full
  <2> DEFINE d == <<>>
  <2>1. buffer' = buffer /\ tail' = tail
    BY <1>2 DEF ring_buf_write_char
  <2>2. Contents(buffer, head, tail) = Contents(buffer, head, tail) \o d
    BY <1>0, ContentsType, ConcatEmptySeq
  <2>3. d \in Seq(Byte) /\ Len(d) = 0
    OBVIOUS
  <2> HIDE DEF d
  <2>4. /\ Count(head, tail) + Len(d) < RingSize
        /\ Count(head, tail) = Count(head, tail) + Len(d)
    BY <1>1, <2>3
  <2> QED
    BY ONLY <1>0, <2>1, <2>2, <2>3, <2>4, Zenon DEF BytesAppended
<1>3. CASE ~ ring_buf_full
  <2> DEFINE s == <<x>>
             d == SubSeq(s, 1, 1)
  <2>1. s \in Seq(Byte) /\ Len(s) = 1 /\ s[1] = x
    OBVIOUS
  <2> HIDE DEF s
  <2>2. d \in Seq(Byte) /\ Len(d) = 1
    BY <2>1
  <2>3. buffer' = StoredAt(buffer, tail, s, 1) /\ tail' = Wrapped(tail + 1)
    <3>1. buffer' = [buffer EXCEPT ![tail] = x] /\ tail' = Wrapped(tail + 1)
      BY <1>3 DEF ring_buf_write_char
    <3>2. \A i \in Indices : i \in tail .. tail + 1 - 1 <=> i = tail
      BY <1>0 DEF Indices
    <3>3. tail - tail + 1 = 1
      BY <1>0 DEF Indices
    <3> QED
      BY <1>0, <2>1, <3>1, <3>2, <3>3 DEF StoredAt
  <2>4. Count(head, tail) + 1 < RingSize /\ tail + 1 <= RingSize
    <3>1. tail + 1 \in 0 .. 2 * RingSize - 1
      BY <1>0 DEF Indices
    <3>2. Wrapped(tail + 1) # head
      BY <1>3, <3>1, ModIsWrapped DEF ring_buf_full
    <3> QED
      BY <1>0, <3>2 DEF Wrapped, Count, Indices
  <2>5. 1 \in Nat /\ 1 <= Len(s)
    BY <2>1
  <2>6. /\ tail' \in Indices
        /\ Count(head, tail') = Count(head, tail) + 1
        /\ Contents(buffer', head, tail') = Contents(buffer, head, tail) \o d
    <3>1. /\ Wrapped(tail + 1) \in Indices
          /\ Count(head, Wrapped(tail + 1)) = Count(head, tail) + 1
          /\ Contents(StoredAt(buffer, tail, s, 1), head, Wrapped(tail + 1))
               = Contents(buffer, head, tail) \o SubSeq(s, 1, 1)
      BY ONLY <1>0, <2>1, <2>4, <2>5, AppendBytes
    <3> QED BY ONLY <2>3, <3>1, Zenon DEF d
  <2>7. buffer' \in [Indices -> Byte]
    BY <1>0, <2>1, <2>3, <2>4, <2>5, StoredAtPlaces
  <2> HIDE DEF d
  <2> QED
    BY ONLY <2>2, <2>4, <2>6, <2>7, Zenon DEF BytesAppended
<1> QED
  BY <1>2, <1>3

-----------------------------------------------------------------------------
(* Reading.                                                                *)

(* When the head is moved over c bytes, those are dropped from the front.  *)
LEMMA DropBytes ==
  ASSUME NEW h \in Indices, NEW t \in Indices, NEW b \in [Indices -> Byte],
         NEW c \in Nat, c <= Count(h, t), h + c <= RingSize
  PROVE  /\ Wrapped(h + c) \in Indices
         /\ Contents(b, Wrapped(h + c), t) =
              SubSeq(Contents(b, h, t), c + 1, Len(Contents(b, h, t)))
<1> RingSize \in Nat /\ RingSize > 1
  BY RingAssumption
<1> DEFINE h2 == Wrapped(h + c)
           n  == Count(h, t)
           q  == Contents(b, h, t)
           r  == Contents(b, h2, t)
           u  == SubSeq(q, c + 1, Len(q))
<1>1. h2 \in Indices
  BY DEF Wrapped, Indices
<1>2. Count(h2, t) = n - c
  <2>1. CASE h + c < RingSize
    BY <2>1 DEF Wrapped, Indices, Count
  <2>2. CASE h + c = RingSize
    BY <2>2 DEF Wrapped, Indices, Count
  <2> QED
    BY <2>1, <2>2 DEF Indices
<1>3. n \in 0 .. RingSize - 1
  BY CountInRange
<1>4. ASSUME NEW k \in 1 .. n - c
      PROVE  (h2 + k - 1) % RingSize = (h + (c + k) - 1) % RingSize
  <2>1. h2 + k - 1 \in 0 .. 2 * RingSize - 1 /\ h + (c + k) - 1 \in 0 .. 2 * RingSize - 1
    BY <1>3 DEF Wrapped, Indices
  <2>2. Wrapped(h2 + k - 1) = Wrapped(h + (c + k) - 1)
    BY <1>3 DEF Wrapped, Indices
  <2> QED
    BY <2>1, <2>2, ModIsWrapped
<1>5. /\ q \in Seq(Byte) /\ Len(q) = n
      /\ r \in Seq(Byte) /\ Len(r) = n - c
  BY <1>1, <1>2, ContentsType
<1>6. /\ u \in Seq(Byte) /\ Len(u) = n - c
      /\ \A k \in 1 .. n - c : u[k] = q[c + k]
  <2> HIDE DEF q, n
  <2> QED
    BY ONLY <1>3, <1>5, c \in 0 .. n DEF u
<1>7. \A k \in 1 .. n - c : r[k] = u[k]
  <2> HIDE DEF u, h2, n
  <2> TAKE k \in 1 .. n - c
  <2>1. c + k \in 1 .. n
    BY <1>3
  <2>2. q[c + k] = b[(h + (c + k) - 1) % RingSize] /\ r[k] = b[(h2 + k - 1) % RingSize]
    BY <1>2, <2>1 DEF Contents, n
  <2> QED
    BY <1>4, <1>6, <2>2
<1>8. r = u
  <2> HIDE DEF r, u, n
  <2> QED
    BY <1>5, <1>6, <1>7, SeqEqual
<1> QED
  BY <1>1, <1>8

(* What ring_buf_cnt_to_end returns is there to be read and does not pass  *)
(* the end, whichever value of tail its second read gets: since the first  *)
(* read the handler can only have moved tail further away from head.       *)
LEMMA PieceIsStored ==
  ASSUME head \in Indices, tail \in Indices, seen \in Indices,
         Count(head, seen) <= Count(head, tail),
         NEW t \in {seen, tail},
         ring_buf_cnt_to_end(seen, t) > 0
  PROVE  /\ ring_buf_cnt_to_end(seen, t) \in Nat
         /\ ring_buf_cnt_to_end(seen, t) <= Count(head, tail)
         /\ head + ring_buf_cnt_to_end(seen, t) <= RingSize
<1> RingSize \in Nat /\ RingSize > 1
  BY RingAssumption
<1>1. CASE t = seen
  BY <1>1 DEF ring_buf_cnt_to_end, Count, Indices
<1>2. CASE t = tail
  BY <1>2 DEF ring_buf_cnt_to_end, Count, Indices
<1> QED
  BY <1>1, <1>2

-----------------------------------------------------------------------------
(* The inductive invariant.                                                *)

(* Between its reads of tail the task knows a lower bound of the count;    *)
(* the piece it has copied is still the front of the queue when it moves   *)
(* the head.  recv_size, which may come out far too large when tail is     *)
(* read twice, is not bounded by the count.                                *)
SeenBehind == uartTask \in {"sub", "end2"} => Count(head, seen) <= Count(head, tail)

PieceInFront ==
  uartTask = "copied" =>
    /\ Len(piece) \in 1 .. remaining
    /\ Len(piece) <= Count(head, tail)
    /\ head + Len(piece) <= RingSize
    /\ \A k \in 1 .. Len(piece) : piece[k] = Contents(buffer, head, tail)[k]

RingInv == RingTypeOK /\ SeenBehind /\ PieceInFront

(* What the writer does leaves the invariant alone.                        *)
LEMMA AppendKeepsInv ==
  ASSUME RingInv, BytesAppended, UNCHANGED <<head, taskVars, recvTimer>>,
         recv_sem' \in 0 .. MaxPosts
  PROVE  RingInv'
<1> DEFINE q == Contents(buffer, head, tail)
           n == Count(head, tail)
<1>0. /\ head \in Indices /\ tail \in Indices /\ buffer \in [Indices -> Byte]
      /\ seen \in Indices
  BY DEF RingInv, RingTypeOK
<1>1. PICK d \in Seq(Byte) : /\ n + Len(d) < RingSize
                             /\ Count(head, tail') = n + Len(d)
                             /\ Contents(buffer', head, tail') = q \o d
  BY Zenon DEF BytesAppended
<1>2. UNCHANGED <<head, uartTask, seen, remaining, piece, taken, recvTimer>>
  BY DEF taskVars
<1>3. RingTypeOK'
  BY <1>2, RingAssumption DEF RingInv, RingTypeOK, BytesAppended, Indices
<1>4. n \in Nat /\ Count(head, seen) \in Nat /\ Len(d) \in Nat
  BY <1>0, CountInRange, RingAssumption
<1>5. SeenBehind'
  <2>1. Count(head, seen)' = Count(head, seen) /\ Count(head, tail)' = n + Len(d)
    BY <1>1, <1>2 DEF Count
  <2> HIDE DEF n
  <2> QED
    BY <1>2, <1>4, <2>1 DEF RingInv, SeenBehind, n
<1>6. PieceInFront'
  <2> SUFFICES ASSUME uartTask = "copied"
               PROVE  /\ Len(piece) \in 1 .. remaining
                      /\ Len(piece) <= n + Len(d)
                      /\ head + Len(piece) <= RingSize
                      /\ \A k \in 1 .. Len(piece) : piece[k] = (q \o d)[k]
    <3>1. Count(head, tail)' = n + Len(d) /\ Contents(buffer, head, tail)' = q \o d
      BY <1>1, <1>2 DEF Count, Contents
    <3> HIDE DEF n, q
    <3> QED
      BY <1>2, <3>1 DEF PieceInFront
  <2>1. /\ Len(piece) \in 1 .. remaining /\ Len(piece) <= n
        /\ head + Len(piece) <= RingSize
        /\ \A k \in 1 .. Len(piece) : piece[k] = q[k]
    BY DEF RingInv, PieceInFront
  <2>2. q \in Seq(Byte) /\ Len(q) = n
    BY <1>0, ContentsType
  <2>3. Len(piece) \in Nat
    BY DEF RingInv, RingTypeOK
  <2> HIDE DEF q, n
  <2>4. \A k \in 1 .. Len(piece) : (q \o d)[k] = q[k]
    BY <1>4, <2>1, <2>2, <2>3
  <2>5. Len(piece) <= n + Len(d)
    BY <1>4, <2>1, <2>3
  <2> QED
    BY ONLY <2>1, <2>4, <2>5, Zenon
<1> QED
  BY <1>3, <1>5, <1>6 DEF RingInv

LEMMA InitInv == RingInit => RingInv
<1> SUFFICES ASSUME RingInit PROVE RingInv
  OBVIOUS
<1>1. RingTypeOK
  BY RingAssumption DEF RingInit, RingTypeOK, Indices
<1> QED
  BY <1>1 DEF RingInit, RingInv, SeenBehind, PieceInFront

LEMMA PostedInRange ==
  ASSUME RingTypeOK
  PROVE  Posted \in 0 .. MaxPosts
  BY RingAssumption DEF RingTypeOK, Posted, Least

(* The handler and the timer callback.                                     *)
LEMMA HandlerKeepsInv ==
  ASSUME RingInv, uart_data_recv \/ BlockReceived
  PROVE  RingInv' /\ BytesAppended /\ UNCHANGED <<head, taken>>
<1>0. RingTypeOK /\ recv_sem \in 0 .. MaxPosts /\ Posted \in 0 .. MaxPosts
  BY PostedInRange DEF RingInv, RingTypeOK
<1>1. CASE uart_data_recv
  <2>1. PICK x \in Byte : ring_buf_write_char(x)
    BY <1>1 DEF uart_data_recv
  <2>2. BytesAppended
    BY <1>0, <2>1, WriteCharAppends
  <2>3. UNCHANGED <<head, taskVars, recvTimer>> /\ recv_sem' \in 0 .. MaxPosts
    BY <1>0, <1>1 DEF uart_data_recv
  <2> QED
    BY <2>2, <2>3, AppendKeepsInv DEF taskVars
<1>2. CASE BlockReceived
  <2>1. PICK s \in [1 .. 2 -> Byte] : ring_buf_write(s)
    BY <1>2 DEF BlockReceived
  <2>2. s \in Seq(Byte)
    BY ONLY s \in [1 .. 2 -> Byte], 2 \in Nat, SeqDef
  <2>3. BytesAppended
    BY <1>0, <2>1, <2>2, WriteAppends
  <2>4. UNCHANGED <<head, taskVars, recvTimer>> /\ recv_sem' \in 0 .. MaxPosts
    BY <1>0, <1>2 DEF BlockReceived
  <2> QED
    BY <2>3, <2>4, AppendKeepsInv DEF taskVars
<1> QED
  BY <1>1, <1>2

LEMMA TimerKeepsInv ==
  ASSUME RingInv, UartTimer
  PROVE  RingInv' /\ UNCHANGED <<head, tail, buffer, taken>>
<1>1. /\ UNCHANGED <<head, tail, buffer, uartTask, seen, remaining, piece, taken>>
      /\ recvTimer' \in Indices \cup {NoTail}
      /\ recv_sem' \in 0 .. MaxPosts
  <2>1. RingTypeOK /\ Posted \in 0 .. MaxPosts
    BY PostedInRange DEF RingInv
  <2>2. CASE TimerReads
    BY <2>1, <2>2 DEF TimerReads, RingTypeOK, ringVars, taskVars
  <2>3. CASE TimerPosts
    BY <2>1, <2>3 DEF TimerPosts, RingTypeOK, ringVars, taskVars
  <2> QED
    BY <2>2, <2>3 DEF UartTimer
<1>2. RingTypeOK'
  BY <1>1 DEF RingInv, RingTypeOK
<1> QED
  BY <1>1, <1>2 DEF RingInv, SeenBehind, PieceInFront, Count, Contents

(* The steps of the task.                                                  *)
LEMMA ReadsKeepInv ==
  ASSUME RingInv, PendRecv \/ FirstRead \/ CountBytes
  PROVE  RingInv' /\ UNCHANGED <<head, tail, buffer, taken>>
<1> USE DEF RingInv
<1>1. CASE PendRecv
  <2>1. UNCHANGED <<head, tail, buffer, seen, remaining, piece, taken, recvTimer>>
    BY <1>1 DEF PendRecv, ringVars
  <2>2. recv_sem' \in 0 .. MaxPosts /\ uartTask' = "cnt"
    BY <1>1, RingAssumption DEF PendRecv, RingTypeOK
  <2> QED
    BY <2>1, <2>2 DEF RingTypeOK, SeenBehind, PieceInFront
<1>2. CASE FirstRead
  <2>1. UNCHANGED <<head, tail, buffer, recv_sem, remaining, piece, taken, recvTimer>>
    BY <1>2 DEF FirstRead, ringVars
  <2>2. seen' = tail /\ uartTask' \in {"sub", "end2"}
    BY <1>2 DEF FirstRead
  <2>3. SeenBehind'
    <3>1. Count(head, tail) \in Int
      BY CountInRange DEF RingTypeOK
    <3>2. Count(head, seen)' = Count(head, tail) /\ Count(head, tail)' = Count(head, tail)
      BY <2>1, <2>2 DEF Count
    <3> QED
      BY <3>1, <3>2 DEF SeenBehind
  <2> QED
    BY <2>1, <2>2, <2>3 DEF RingTypeOK, PieceInFront
<1>3. CASE CountBytes
  <2>1. UNCHANGED <<head, tail, buffer, recv_sem, seen, piece, taken, recvTimer>>
    BY <1>3 DEF CountBytes, ringVars
  <2>2. uartTask' \in {"end", "pend"}
    BY <1>3 DEF CountBytes
  <2>3. remaining' \in 0 .. WordSize - 1
    <3>1. PICK t \in {seen, tail} : remaining' = ring_buf_cnt(seen, t) % WordSize
      BY <1>3 DEF CountBytes
    <3>2. ring_buf_cnt(seen, t) \in Int
      BY RingAssumption DEF ring_buf_cnt, RingTypeOK, Indices
    <3>3. WordSize \in Nat \ {0}
      BY RingAssumption
    <3> HIDE DEF RingInv
    <3> QED
      BY ONLY <3>1, <3>2, <3>3
  <2> QED
    BY <2>1, <2>2, <2>3 DEF RingTypeOK, SeenBehind, PieceInFront
<1> QED
  BY <1>1, <1>2, <1>3

LEMMA CopyKeepsInv ==
  ASSUME RingInv, CopyPiece
  PROVE  RingInv' /\ UNCHANGED <<head, tail, buffer, taken>>
<1> RingSize \in Nat /\ RingSize > 1
  BY RingAssumption
<1>0. /\ head \in Indices /\ tail \in Indices /\ seen \in Indices
      /\ buffer \in [Indices -> Byte] /\ remaining \in 0 .. WordSize - 1
      /\ Count(head, tail) \in 0 .. RingSize - 1
  BY CountInRange DEF RingInv, RingTypeOK
<1>1. UNCHANGED <<head, tail, buffer, recv_sem, seen, taken, recvTimer>>
  BY DEF CopyPiece, ringVars
<1>2. PICK t \in {seen, tail} :
        LET c == Least(remaining, ring_buf_cnt_to_end(seen, t))
        IN  IF c <= 0
            THEN uartTask' = "pend" /\ remaining' = 0 /\ UNCHANGED piece
            ELSE /\ piece' = [k \in 1 .. c |-> buffer[head + k - 1]]
                 /\ uartTask' = "copied" /\ UNCHANGED remaining
  BY DEF CopyPiece
<1> DEFINE c == Least(remaining, ring_buf_cnt_to_end(seen, t))
<1>3. CASE c <= 0
  <2>1. uartTask' = "pend" /\ remaining' = 0 /\ piece' = piece
    BY <1>2, <1>3
  <2>2. 0 \in 0 .. WordSize - 1
    BY RingAssumption
  <2> QED
    BY <1>1, <2>1, <2>2 DEF RingInv, RingTypeOK, SeenBehind, PieceInFront
<1>4. CASE ~(c <= 0)
  <2>1. /\ piece' = [k \in 1 .. c |-> buffer[head + k - 1]]
        /\ uartTask' = "copied" /\ remaining' = remaining
    BY <1>2, <1>4
  <2>2. ring_buf_cnt_to_end(seen, t) \in Int
    BY <1>0 DEF ring_buf_cnt_to_end, Indices
  <2>3. /\ c \in Nat \ {0} /\ c <= remaining
        /\ ring_buf_cnt_to_end(seen, t) > 0 /\ c <= ring_buf_cnt_to_end(seen, t)
    BY <1>0, <1>4, <2>2 DEF Least
  <2> HIDE DEF c
  <2>4. Count(head, seen) <= Count(head, tail)
    BY DEF RingInv, SeenBehind, CopyPiece, TaskAt
  <2>5. c <= Count(head, tail) /\ head + c <= RingSize
    <3>1. /\ ring_buf_cnt_to_end(seen, t) <= Count(head, tail)
          /\ head + ring_buf_cnt_to_end(seen, t) <= RingSize
      BY <1>0, <2>3, <2>4, PieceIsStored
    <3> QED
      BY <1>0, <2>2, <2>3, <3>1 DEF Indices
  <2>6. ASSUME NEW k \in 1 .. c
        PROVE  /\ head + k - 1 \in Indices
               /\ buffer[head + k - 1] \in Byte
               /\ Contents(buffer, head, tail)[k] = buffer[head + k - 1]
    <3>1. /\ head + k - 1 \in Indices /\ k \in 1 .. Count(head, tail)
          /\ head + k - 1 \in 0 .. 2 * RingSize - 1
      BY <1>0, <2>3, <2>5 DEF Indices
    <3>2. (head + k - 1) % RingSize = head + k - 1
      BY <3>1, ModIsWrapped DEF Wrapped, Indices
    <3> QED
      BY <1>0, <3>1, <3>2 DEF Contents
  <2>7. piece' \in Seq(Byte) /\ Len(piece') = c
    <3>1. \A k \in 1 .. c : buffer[head + k - 1] \in Byte
      BY <2>6
    <3> QED
      BY ONLY <2>1, <2>3, <3>1
  <2>8. Len(piece') < RingSize
    BY <1>0, <2>3, <2>5, <2>7
  <2>9. RingTypeOK'
    BY <1>1, <2>1, <2>7, <2>8 DEF RingInv, RingTypeOK
  <2>10. PieceInFront'
    <3>1. Count(head, tail)' = Count(head, tail)
      BY <1>1 DEF Count
    <3>2. Contents(buffer, head, tail)' = Contents(buffer, head, tail)
      BY <1>1, <3>1 DEF Contents
    <3>3. \A k \in 1 .. c : piece'[k] = Contents(buffer, head, tail)[k]
      BY <2>1, <2>6
    <3>4. Len(piece') \in 1 .. remaining /\ Len(piece') <= Count(head, tail)
          /\ head + Len(piece') <= RingSize
      BY <1>0, <2>3, <2>5, <2>7
    <3> QED
      BY <1>1, <2>1, <2>7, <3>1, <3>2, <3>3, <3>4 DEF PieceInFront
  <2>11. SeenBehind'
    BY <2>1 DEF SeenBehind
  <2> QED
    BY <1>1, <2>9, <2>10, <2>11 DEF RingInv
<1> QED
  BY <1>3, <1>4

LEMMA AdvanceKeepsInv ==
  ASSUME RingInv, AdvanceHead
  PROVE  RingInv' /\ RingFifo!Get
<1> DEFINE q == Contents(buffer, head, tail)
           n == Len(piece)
<1>0. /\ head \in Indices /\ tail \in Indices /\ buffer \in [Indices -> Byte]
      /\ remaining \in 0 .. WordSize - 1
      /\ piece \in Seq(Byte) /\ n \in Nat /\ n < RingSize
  BY DEF RingInv, RingTypeOK
<1>1. /\ n \in 1 .. remaining /\ n <= Count(head, tail) /\ head + n <= RingSize
      /\ \A k \in 1 .. n : piece[k] = q[k]
  BY DEF RingInv, PieceInFront, AdvanceHead, TaskAt
<1>2. /\ head' = Wrapped(head + n) /\ remaining' = remaining - n
      /\ taken' = piece /\ uartTask' = "end"
      /\ UNCHANGED <<tail, buffer, recv_sem, seen, piece, recvTimer>>
  BY DEF AdvanceHead
<1>3. /\ Wrapped(head + n) \in Indices
      /\ Contents(buffer, Wrapped(head + n), tail) = SubSeq(q, n + 1, Len(q))
  BY <1>0, <1>1, DropBytes
<1>4. RingInv'
  <2>1. remaining' \in 0 .. WordSize - 1
    BY <1>0, <1>1, <1>2, RingAssumption
  <2>2. RingTypeOK'
    BY <1>0, <1>2, <1>3, <2>1 DEF RingInv, RingTypeOK
  <2> QED
    BY <1>2, <2>2 DEF RingInv, SeenBehind, PieceInFront
<1>5. q \in Seq(Byte) /\ Len(q) = Count(head, tail) /\ Count(head, tail) \in Nat
  BY <1>0, ContentsType, CountInRange, RingAssumption
<1>6. Stored = q /\ Stored' = SubSeq(q, n + 1, Len(q))
  <2>1. Stored = q
    BY StoredIsContents
  <2>2. Stored' = Contents(buffer', head', tail')
    BY DEF Stored, Contents, ring_buf_cnt, Count
  <2> QED
    BY <1>2, <1>3, <2>1, <2>2
<1>7. taken' = SubSeq(q, 1, n)
  <2> HIDE DEF q
  <2>1. /\ SubSeq(q, 1, n) \in Seq(Byte) /\ Len(SubSeq(q, 1, n)) = n
        /\ \A k \in 1 .. n : SubSeq(q, 1, n)[k] = q[k]
    BY <1>0, <1>1, <1>5
  <2> DEFINE u == SubSeq(q, 1, n)
  <2>2. u \in Seq(Byte) /\ Len(u) = Len(piece) /\ \A k \in 1 .. Len(piece) : piece[k] = u[k]
    BY <1>1, <2>1
  <2> HIDE DEF u
  <2>3. piece = u
    BY ONLY <1>0, <2>2, SeqEqual
  <2> QED
    BY <1>2, <2>3 DEF u
<1>8. n \in 1 .. Len(Stored)
  <2> HIDE DEF q
  <2> QED
    BY <1>0, <1>1, <1>5, <1>6
<1> HIDE DEF q, n
<1>9. RingFifo!Get
  BY ONLY <1>6, <1>7, <1>8, Zenon DEF RingFifo!Get
<1> QED
  BY <1>4, <1>9

(* Appending nothing is a stuttering step, appending some is Put.          *)
LEMMA AppendIsPut ==
  ASSUME RingInv, BytesAppended, UNCHANGED <<head, taken>>
  PROVE  RingFifo!Put \/ UNCHANGED <<Stored, taken>>
<1> DEFINE q == Contents(buffer, head, tail)
<1>0. head \in Indices /\ tail \in Indices /\ buffer \in [Indices -> Byte]
  BY DEF RingInv, RingTypeOK
<1>1. PICK d \in Seq(Byte) : /\ Count(head, tail) + Len(d) < RingSize
                             /\ Contents(buffer', head, tail') = q \o d
  BY Zenon DEF BytesAppended
<1>2. q \in Seq(Byte) /\ Len(q) = Count(head, tail) /\ Count(head, tail) \in Nat
  BY <1>0, ContentsType, CountInRange, RingAssumption
<1>3. Stored = q /\ Stored' = q \o d
  <2>1. Stored = q
    BY StoredIsContents
  <2>2. Stored' = Contents(buffer', head', tail')
    BY DEF Stored, Contents, ring_buf_cnt, Count
  <2> QED
    BY <1>1, <2>1, <2>2
<1> HIDE DEF q
<1>4. CASE Len(d) = 0
  <2>1. d = <<>>
    BY <1>4
  <2>2. q \o d = q
    BY <1>2, <2>1, ConcatEmptySeq
  <2> QED
    BY <1>3, <2>2
<1>5. CASE Len(d) # 0
  <2> DEFINE m == Len(d)
  <2>1. m \in 1 .. (RingSize - 1) - Len(Stored)
    BY <1>1, <1>2, <1>3, <1>5, RingAssumption
  <2>2. d \in [1 .. m -> Byte]
    BY LenProperties
  <2>3. Stored' = Stored \o d
    BY <1>3
  <2> HIDE DEF m
  <2> QED
    BY ONLY <2>1, <2>2, <2>3, taken' = taken, Zenon DEF RingFifo!Put
<1> QED
  BY <1>4, <1>5

(* Every step keeps the invariant and is a step of the queue.              *)
LEMMA StepIsFifo ==
  RingInv /\ [RingNext]_uartVars
    => RingInv' /\ [RingFifo!Put \/ RingFifo!Get]_<<Stored, taken>>
<1> SUFFICES ASSUME RingInv, [RingNext]_uartVars
             PROVE  RingInv' /\ [RingFifo!Put \/ RingFifo!Get]_<<Stored, taken>>
  OBVIOUS
<1>0. ASSUME UNCHANGED <<head, tail, buffer, taken>>
      PROVE  UNCHANGED <<Stored, taken>>
  BY <1>0 DEF Stored, ring_buf_cnt
<1>1. CASE uart_data_recv \/ BlockReceived
  BY <1>1, HandlerKeepsInv, AppendIsPut
<1>2. CASE UartTimer
  BY <1>0, <1>2, TimerKeepsInv
<1>3. CASE PendRecv \/ FirstRead \/ CountBytes
  BY <1>0, <1>3, ReadsKeepInv
<1>4. CASE CopyPiece
  BY <1>0, <1>4, CopyKeepsInv
<1>5. CASE AdvanceHead
  BY <1>5, AdvanceKeepsInv
<1>6. CASE UNCHANGED uartVars
  <2>1. UNCHANGED <<head, tail, buffer, recv_sem, uartTask, seen, remaining, piece, taken,
                    recvTimer>>
    BY <1>6 DEF uartVars, ringVars, taskVars
  <2> QED
    BY <1>0, <2>1 DEF RingInv, RingTypeOK, SeenBehind, PieceInFront, Count, Contents
<1> QED
  BY <1>1, <1>2, <1>3, <1>4, <1>5, <1>6 DEF RingNext, UartTask

(* The fields of the ring buffer stay in range whatever the handler, the   *)
(* timer callback and the task do: the indices never leave the buffer and  *)
(* no piece is longer than it.                                             *)
THEOREM RingTypeCorrect == RingSpec => []RingTypeOK
<1>1. RingInv => RingTypeOK
  BY DEF RingInv
<1> QED
  BY <1>1, InitInv, StepIsFifo, PTL DEF RingSpec

(* The ring buffer is a queue, for every size: the bytes ring_buf_read     *)
(* takes out are the oldest of those ring_buf_write_char and               *)
(* ring_buf_write have put in, in order and none twice, although the       *)
(* handler interrupts the reader between any two of its accesses.          *)
THEOREM RingRefinesFifo == RingSpec => ImplementsFifo
<1>1. RingInit => RingFifo!FifoInit
  <2> SUFFICES ASSUME RingInit PROVE RingFifo!FifoInit
    OBVIOUS
  <2>1. ring_buf_cnt(tail, tail) = 0
    BY DEF RingInit, ring_buf_cnt
  <2>2. Stored = <<>>
    BY <2>1 DEF Stored
  <2> QED
    BY <2>2 DEF RingInit, RingFifo!FifoInit
<1> QED
  BY <1>1, InitInv, StepIsFifo, PTL DEF RingSpec, ImplementsFifo, RingFifo!FifoSpec
-----------------------------------------------------------------------------
(* The heap: the list of blocks stays a list over the whole pool (Linked), *)
(* its free bytes are what dm_available counts (FreeTotal), and the search *)
(* of OS_GetMem visits every block (WalkVisits).  Facts over sums and      *)
(* walks of any length go by the least counterexample, Extrema's           *)
(* LeastElement.                                                           *)

(* The sizes of the pool, from the assumption on the constants.            *)
LEMMA PoolFacts ==
  /\ Overhead \in Nat \ {0} /\ MinAllocation \in Nat \ {0} /\ MemUnit \in Nat \ {0}
  /\ PoolSize \in Nat /\ PoolTrailer \in Nat /\ PoolTrailer < PoolSize
  /\ PoolStart = 0 /\ PoolStart # PoolTrailer
BY DmemAssumption DEF PoolTrailer, PoolStart

(* A circular list of addresses D: nx and pv are inverse, addresses ascend *)
(* from the start of the pool to its trailer, and no block is empty.       *)
Linked(D, nx, pv) ==
  /\ D \subseteq 0 .. PoolTrailer /\ PoolStart \in D /\ PoolTrailer \in D
  /\ \A k \in D : nx[k] \in D /\ pv[k] \in D
  /\ nx[PoolTrailer] = PoolStart
  /\ \A k \in D : pv[nx[k]] = k /\ nx[pv[k]] = k
  /\ \A k \in D \ {PoolTrailer} : k + Overhead < nx[k]
  /\ \A k \in D \ {PoolTrailer} : \A j \in D : j > k => nx[k] <= j

(* Addresses are in the pool, and next ascends up to the trailer.          *)
LEMMA AddressFacts ==
  ASSUME NEW D, NEW nx, NEW pv, Linked(D, nx, pv)
  PROVE  /\ \A k \in D : k \in Nat /\ k \in 0 .. PoolSize
         /\ \A k \in D \ {PoolTrailer} : nx[k] \in D /\ nx[k] \in Nat /\ k < nx[k] /\ k # nx[k]
<1>1. D \subseteq 0 .. PoolTrailer /\ (\A k \in D : nx[k] \in D)
      /\ \A k \in D \ {PoolTrailer} : k + Overhead < nx[k]
  BY Zenon DEF Linked
<1>2. \A k \in D : k \in Nat /\ k \in 0 .. PoolSize
  BY <1>1, PoolFacts
<1>3. ASSUME NEW k \in D \ {PoolTrailer}
      PROVE  nx[k] \in D /\ nx[k] \in Nat /\ k < nx[k] /\ k # nx[k]
  <2>1. k \in Nat /\ nx[k] \in D /\ nx[k] \in Nat /\ k + Overhead < nx[k]
    BY <1>1, <1>2
  <2> QED BY <2>1, PoolFacts
<1> QED BY <1>2, <1>3

(* A new header between h and its successor keeps the list: OS_GetMem.     *)
LEMMA LinkInserted ==
  ASSUME NEW D, NEW nx, NEW pv, Linked(D, nx, pv), NEW h \in D \ {PoolTrailer}, NEW new \in Nat,
         h + Overhead < new, new + Overhead < nx[h], NEW N, NEW P,
         N[new] = nx[h], N[h] = new, \A k \in D \ {h} : N[k] = nx[k],
         P[new] = h, P[nx[h]] = new, \A k \in D \ {nx[h]} : P[k] = pv[k]
  PROVE  Linked(D \cup {new}, N, P)
<1> DEFINE last == nx[h]
<1>1. /\ D \subseteq 0 .. PoolTrailer /\ PoolStart \in D /\ PoolTrailer \in D
      /\ nx[PoolTrailer] = PoolStart
      /\ \A k \in D : nx[k] \in D /\ pv[k] \in D
  BY Zenon DEF Linked
<1>2. \A k \in D : pv[nx[k]] = k /\ nx[pv[k]] = k
  BY Zenon DEF Linked
<1>3. /\ \A k \in D \ {PoolTrailer} : k + Overhead < nx[k]
      /\ \A k \in D \ {PoolTrailer} : \A j \in D : j > k => nx[k] <= j
  BY Zenon DEF Linked
<1>4. h \in Nat /\ last \in D /\ last \in Nat /\ last # h /\ last \in 0 .. PoolTrailer
  BY <1>1, AddressFacts
<1>5. new # h /\ new # last /\ new \in 0 .. PoolTrailer /\ new # PoolTrailer /\ new > h /\ new < last
  BY <1>4, PoolFacts
<1>6. new \notin D
  <2> HIDE DEF last
  <2>1. \A j \in D : j > h => last <= j
    BY <1>3 DEF last
  <2> QED BY <1>4, <1>5, <2>1
<1>7. \A k \in D \ {h} : nx[k] # last
  BY ONLY <1>2, Zenon
<1>8. \A k \in D \ {last} : pv[k] # h
  BY ONLY <1>2, Zenon
<1>9. pv[last] = h
  BY ONLY <1>2, h \in D \ {PoolTrailer}, Zenon
<1>f. /\ N[new] = last /\ N[h] = new /\ \A k \in D \ {h} : N[k] = nx[k]
      /\ P[new] = h /\ P[last] = new /\ \A k \in D \ {last} : P[k] = pv[k]
      /\ h \in D /\ h # PoolTrailer
  OBVIOUS
<1>d. \A k \in D : k \in Nat /\ k \in 0 .. PoolTrailer
  BY <1>1, PoolFacts
<1> HIDE DEF last
<1>10. ASSUME NEW k \in D \cup {new}
       PROVE  /\ N[k] \in D \cup {new} /\ P[k] \in D \cup {new}
              /\ P[N[k]] = k /\ N[P[k]] = k
  <2>1. CASE k = new
    BY ONLY <1>4, <1>f, <2>1, Zenon
  <2>2. CASE k = h
    <3>1. P[h] = pv[h] /\ pv[h] \in D /\ pv[h] # h /\ nx[pv[h]] = h
      BY ONLY <1>1, <1>2, <1>4, <1>f, <1>8, Zenon
    <3>2. N[pv[h]] = h
      BY ONLY <1>f, <3>1, Zenon
    <3> QED BY ONLY <1>f, <2>2, <3>1, <3>2, Zenon
  <2>3. CASE k = last
    <3>1. N[last] = nx[last] /\ nx[last] \in D /\ nx[last] # last /\ pv[nx[last]] = last
      BY ONLY <1>1, <1>2, <1>4, <1>f, <1>7, Zenon
    <3>2. P[nx[last]] = last
      BY ONLY <1>f, <3>1, Zenon
    <3> QED BY ONLY <1>f, <2>3, <3>1, <3>2, Zenon
  <2>4. CASE k \in D /\ k # h /\ k # last
    <3>1. /\ N[k] = nx[k] /\ nx[k] \in D /\ nx[k] # last /\ pv[nx[k]] = k
          /\ P[k] = pv[k] /\ pv[k] \in D /\ pv[k] # h /\ nx[pv[k]] = k
      BY ONLY <1>1, <1>2, <1>f, <1>7, <1>8, <2>4, Zenon
    <3>2. P[nx[k]] = k /\ N[pv[k]] = k
      BY ONLY <1>f, <3>1, Zenon
    <3> QED BY ONLY <3>1, <3>2, Zenon
  <2> QED BY <2>1, <2>2, <2>3, <2>4
<1>11. ASSUME NEW k \in D \cup {new}, k # PoolTrailer
       PROVE  k + Overhead < N[k] /\ \A j \in D \cup {new} : j > k => N[k] <= j
  <2>h. h + Overhead < new /\ new + Overhead < last /\ \A j \in D : j > h => last <= j
    BY <1>3 DEF last
  <2>1. CASE k = new
    BY ONLY <1>d, <1>4, <1>5, <1>f, <2>1, <2>h, PoolFacts
  <2>2. CASE k = h
    BY ONLY <1>d, <1>4, <1>5, <1>f, <2>2, <2>h, PoolFacts
  <2>3. CASE k \in D /\ k # h
    <3>1. k + Overhead < N[k] /\ (\A j \in D : j > k => N[k] <= j) /\ N[k] = nx[k] /\ N[k] \in D
          /\ k \in Nat
      BY ONLY <1>1, <1>3, <1>f, <1>d, <1>11, <2>3
    <3>2. N[k] \in Nat
      BY ONLY <3>1, <1>d
    <3>3. CASE k < h
      BY ONLY <1>d, <1>4, <1>5, <1>f, <3>1, <3>2, <3>3
    <3>4. CASE k > h
      BY ONLY <1>d, <1>4, <1>5, <2>3, <2>h, <3>1, <3>4
    <3> QED BY <1>4, <2>3, <3>1, <3>3, <3>4
  <2> QED BY <2>1, <2>2, <2>3
<1>12. D \cup {new} \subseteq 0 .. PoolTrailer /\ N[PoolTrailer] = PoolStart
  BY <1>1, <1>5, <1>f
<1>13. Linked(D \cup {new}, N, P)
  BY ONLY <1>1, <1>10, <1>11, <1>12, Zenon DEF Linked
<1> QED BY <1>13

(* A header taken out of the list keeps it: OS_FreeMem merging.            *)
LEMMA LinkRemoved ==
  ASSUME NEW D, NEW nx, NEW pv, Linked(D, nx, pv), NEW a \in D \ {PoolTrailer},
         NEW b \in D \ {PoolTrailer}, b = nx[a], NEW N, NEW P,
         N[a] = nx[b], \A k \in D \ {a, b} : N[k] = nx[k],
         P[nx[b]] = a, \A k \in D \ {b, nx[b]} : P[k] = pv[k]
  PROVE  Linked(D \ {b}, N, P)
<1> DEFINE last == nx[b]
<1>1. /\ D \subseteq 0 .. PoolTrailer /\ PoolStart \in D /\ PoolTrailer \in D
      /\ nx[PoolTrailer] = PoolStart
      /\ \A k \in D : nx[k] \in D /\ pv[k] \in D
  BY Zenon DEF Linked
<1>2. \A k \in D : pv[nx[k]] = k /\ nx[pv[k]] = k
  BY Zenon DEF Linked
<1>3. /\ \A k \in D \ {PoolTrailer} : k + Overhead < nx[k]
      /\ \A k \in D \ {PoolTrailer} : \A j \in D : j > k => nx[k] <= j
  BY Zenon DEF Linked
<1>d. \A k \in D : k \in Nat /\ k \in 0 .. PoolTrailer
  BY <1>1, PoolFacts
<1>4. a \in Nat /\ b \in Nat /\ last \in D /\ last \in Nat /\ a + Overhead < b /\ b + Overhead < last
  BY <1>1, <1>3, <1>d
<1>5. a # b /\ b # last /\ a # last /\ b # PoolStart /\ a + Overhead < last
  BY <1>4, PoolFacts
<1>f. /\ N[a] = last /\ \A k \in D \ {a, b} : N[k] = nx[k]
      /\ P[last] = a /\ \A k \in D \ {b, last} : P[k] = pv[k]
      /\ a \in D /\ a # PoolTrailer /\ b \in D /\ b # PoolTrailer /\ nx[a] = b
  OBVIOUS
<1>6. pv[b] = a /\ pv[last] = b /\ nx[b] = last
  BY ONLY <1>2, <1>f, <1>1, Zenon DEF last
<1> HIDE DEF last
<1>7. /\ \A k \in D : k # b => nx[k] # last
      /\ \A k \in D : k # a => nx[k] # b
      /\ \A k \in D : k # last => pv[k] # b
      /\ \A k \in D : k # b => pv[k] # a
  BY ONLY <1>2, <1>6, <1>f, Zenon
<1>8. ASSUME NEW k \in D \ {b}
      PROVE  /\ N[k] \in D \ {b} /\ P[k] \in D \ {b}
             /\ P[N[k]] = k /\ N[P[k]] = k
  <2>1. CASE k = a
    <3>1. P[a] = pv[a] /\ pv[a] \in D /\ pv[a] # a /\ pv[a] # b /\ nx[pv[a]] = a
      BY ONLY <1>1, <1>2, <1>5, <1>f, <1>7, Zenon
    <3>2. N[pv[a]] = a
      BY ONLY <1>f, <3>1, Zenon
    <3> QED BY ONLY <1>4, <1>5, <1>f, <2>1, <3>1, <3>2, Zenon
  <2>2. CASE k = last
    <3>1. N[last] = nx[last] /\ nx[last] \in D /\ nx[last] # last /\ nx[last] # b
          /\ pv[nx[last]] = last
      BY ONLY <1>1, <1>2, <1>4, <1>5, <1>f, <1>7, Zenon
    <3>2. P[nx[last]] = last
      BY ONLY <1>f, <3>1, Zenon
    <3> QED BY ONLY <1>4, <1>5, <1>f, <2>2, <3>1, <3>2, Zenon
  <2>3. CASE k # a /\ k # last
    <3>0. k \in D /\ k # b
      OBVIOUS
    <3>1. /\ N[k] = nx[k] /\ nx[k] \in D /\ nx[k] # last /\ nx[k] # b /\ pv[nx[k]] = k
          /\ P[k] = pv[k] /\ pv[k] \in D /\ pv[k] # a /\ pv[k] # b /\ nx[pv[k]] = k
      BY ONLY <1>1, <1>2, <1>f, <1>7, <2>3, <3>0, Zenon
    <3>2. P[nx[k]] = k /\ N[pv[k]] = k
      BY ONLY <1>f, <3>1, Zenon
    <3> QED BY ONLY <3>1, <3>2, Zenon
  <2> QED BY <2>1, <2>2, <2>3
<1>9. ASSUME NEW k \in D \ {b}, k # PoolTrailer
      PROVE  k + Overhead < N[k] /\ \A j \in D \ {b} : j > k => N[k] <= j
  <2>1. CASE k = a
    <3>1. \A j \in D : j > a => b <= j
      BY ONLY <1>3, <1>f
    <3>2. \A j \in D : j > b => last <= j
      BY ONLY <1>3, <1>f, <1>6
    <3> QED BY ONLY <1>d, <1>4, <1>5, <1>f, <2>1, <3>1, <3>2
  <2>2. CASE k # a
    BY ONLY <1>3, <1>f, <1>9, <2>2, Zenon
  <2> QED BY <2>1, <2>2
<1>10. D \ {b} \subseteq 0 .. PoolTrailer /\ N[PoolTrailer] = PoolStart
  BY ONLY <1>1, <1>f
<1>11. PoolStart \in D \ {b} /\ PoolTrailer \in D \ {b}
  BY ONLY <1>1, <1>5, <1>f
<1>12. Linked(D \ {b}, N, P)
  BY ONLY <1>8, <1>9, <1>10, <1>11, Zenon DEF Linked
<1> QED BY <1>12

(* A set of blocks that is closed under next is the whole list.            *)
LEMMA LinkedClosed ==
  ASSUME NEW D, NEW nx, NEW pv, Linked(D, nx, pv), NEW C, C \subseteq D, C # {},
         \A k \in C : nx[k] \in C
  PROVE  C = D
<1>1. /\ D \subseteq 0 .. PoolTrailer /\ PoolStart \in D /\ PoolTrailer \in D
      /\ nx[PoolTrailer] = PoolStart
      /\ \A k \in D : nx[k] \in D /\ pv[k] \in D
      /\ \A k \in D : nx[pv[k]] = k
  BY Zenon DEF Linked
<1>2. /\ \A k \in D : k \in Nat /\ k \in 0 .. PoolSize
      /\ \A k \in D \ {PoolTrailer} : nx[k] \in D /\ nx[k] \in Nat /\ k < nx[k]
  BY AddressFacts, Zenon
<1>3. PoolTrailer \in C
  <2>1. C \subseteq 0 .. PoolTrailer
    BY <1>1
  <2>2. PICK m \in C : \A k \in C : m >= k
    BY <2>1, PoolFacts, GreatestElement
  <2>3. CASE m # PoolTrailer
    <3>1. m \in D /\ m \in Nat /\ nx[m] \in C /\ nx[m] \in Nat /\ m < nx[m] /\ m >= nx[m]
      BY <1>2, <2>2, <2>3
    <3> QED BY <3>1
  <2> QED BY <2>2, <2>3
<1>4. PoolStart \in C
  BY <1>1, <1>3
<1>5. D \ C = {}
  <2> SUFFICES ASSUME D \ C # {} PROVE FALSE
    OBVIOUS
  <2>1. D \ C \subseteq Nat
    BY <1>2
  <2>2. PICK h \in D \ C : \A k \in D \ C : h <= k
    BY <2>1, LeastElement
  <2>3. pv[h] \in D /\ nx[pv[h]] = h /\ h \in Nat
    BY <1>1, <1>2
  <2>4. pv[h] \notin C
    BY <2>3
  <2>5. pv[h] # PoolTrailer /\ h <= pv[h]
    BY <1>3, <2>2, <2>3, <2>4
  <2>6. pv[h] \in Nat /\ pv[h] < h
    BY <1>2, <2>3, <2>5
  <2> QED BY <2>3, <2>5, <2>6
<1> QED BY <1>5

(* v follows nx for n steps.                                               *)
Walk(v, nx, s, n) == v = [i \in 0 .. n |-> IF i = 0 THEN s ELSE nx[v[i - 1]]]

(* A walk of any length exists.                                            *)
LEMMA WalkExists ==
  ASSUME NEW nx, NEW s, NEW n \in Nat
  PROVE  \E v : Walk(v, nx, s, n)
<1> DEFINE T == {k \in 0 .. n : ~ \E v : Walk(v, nx, s, k)}
<1> SUFFICES ASSUME T # {} PROVE FALSE
  OBVIOUS
<1>1. T \subseteq Nat
  OBVIOUS
<1>2. PICK k \in T : \A j \in T : k <= j
  <2> HIDE DEF T
  <2> QED BY <1>1, LeastElement
<1>3. k \in 0 .. n /\ k \in Nat
  OBVIOUS
<1>4. CASE k = 0
  <2>1. Walk([i \in 0 .. 0 |-> s], nx, s, 0)
    BY DEF Walk
  <2> QED BY <1>4, <2>1
<1>5. CASE k # 0
  <2>1. k - 1 \in 0 .. n /\ k - 1 \in Nat /\ ~(k <= k - 1)
    BY <1>3, <1>5
  <2>2. PICK v : Walk(v, nx, s, k - 1)
    BY <1>2, <2>1
  <2> DEFINE w == [i \in 0 .. k |-> IF i = k THEN nx[v[k - 1]] ELSE v[i]]
  <2>3. \A i \in 0 .. k - 1 : v[i] = IF i = 0 THEN s ELSE nx[v[i - 1]]
    BY <2>1, <2>2 DEF Walk
  <2>4. \A i \in 0 .. k : w[i] = IF i = 0 THEN s ELSE nx[w[i - 1]]
    BY <1>3, <1>5, <2>3
  <2>5. Walk(w, nx, s, k)
    BY <2>4 DEF Walk
  <2> QED BY <2>5
<1> QED BY <1>4, <1>5

(* As many steps as there are blocks, less one, visit them all.            *)
LEMMA WalkVisits ==
  ASSUME NEW D, NEW nx, NEW pv, Linked(D, nx, pv), NEW s \in D, NEW n \in Nat,
         Cardinality(D) = n + 1, NEW v, Walk(v, nx, s, n)
  PROVE  v \in [0 .. n -> D] /\ \A h \in D : \E i \in 0 .. n : v[i] = h
<1>1. D \subseteq 0 .. PoolTrailer /\ \A k \in D : nx[k] \in D
  BY Zenon DEF Linked
<1>2. v[0] = s /\ (\A i \in 1 .. n : v[i] = nx[v[i - 1]]) /\ v = [i \in 0 .. n |-> v[i]]
  BY DEF Walk
<1>3. v \in [0 .. n -> D]
  <2> DEFINE T == {i \in 0 .. n : v[i] \notin D}
  <2>1. T = {}
    <3> SUFFICES ASSUME T # {} PROVE FALSE
      OBVIOUS
    <3>1. T \subseteq Nat
      OBVIOUS
    <3>2. PICK k \in T : \A j \in T : k <= j
      <4> HIDE DEF T
      <4> QED BY <3>1, LeastElement
    <3>3. k \in 1 .. n /\ k - 1 \in 0 .. n /\ ~(k <= k - 1)
      BY <1>2
    <3>4. v[k - 1] \in D
      BY <3>2, <3>3
    <3> QED BY <1>1, <1>2, <3>3, <3>4
  <2> QED BY <1>2, <2>1
<1>4. ASSUME NEW h \in D, \A i \in 0 .. n : v[i] # h
      PROVE  FALSE
  <2>1. IsFiniteSet(D)
    <3>1. IsFiniteSet(0 .. PoolTrailer)
      BY PoolFacts, FS_Interval
    <3> QED BY <1>1, <3>1, FS_Subset
  <2>2. IsFiniteSet(D \ {h}) /\ Cardinality(D \ {h}) = n
    BY <2>1, FS_RemoveElement
  <2>3. IsFiniteSet(0 .. n) /\ Cardinality(0 .. n) = n + 1
    BY FS_Interval
  <2>4. v \in [0 .. n -> D \ {h}]
    BY <1>3, <1>4
  <2>5. PICK i \in 0 .. n, j \in 0 .. n : i # j /\ v[i] = v[j]
    <3>1. n < n + 1
      OBVIOUS
    <3> QED BY <2>2, <2>3, <2>4, <3>1, FS_PigeonHole
  <2>6. ASSUME NEW p \in 0 .. n, NEW q \in 0 .. n, p < q, v[p] = v[q]
        PROVE  FALSE
    <3> DEFINE C == {v[k] : k \in p .. q - 1}
    <3>1. C \subseteq D \ {h} /\ C # {}
      BY <2>4, <2>6
    <3>2. ASSUME NEW c \in C PROVE nx[c] \in C
      <4>1. PICK k \in p .. q - 1 : c = v[k]
        OBVIOUS
      <4>2. k + 1 \in 1 .. n /\ nx[c] = v[k + 1]
        <5>1. k + 1 \in 1 .. n /\ (k + 1) - 1 = k
          BY SMT
        <5>2. v[k + 1] = nx[v[(k + 1) - 1]]
          BY ONLY <1>2, <5>1, Zenon
        <5> QED BY <4>1, <5>1, <5>2
      <4>3. CASE k + 1 = q
        BY <2>6, <4>2, <4>3
      <4>4. CASE k + 1 # q
        BY <4>2, <4>4
      <4> QED BY <4>3, <4>4
    <3> HIDE DEF C
    <3>3. C = D
      BY <3>1, <3>2, LinkedClosed
    <3> QED BY <3>1, <3>3
  <2> QED BY <2>5, <2>6
<1> QED BY <1>3, <1>4

(* s is the sequence of partial sums of F.                                 *)
Running(s, F, n) ==
  /\ s \in [0 .. n -> Int] /\ s[0] = 0
  /\ \A i \in 1 .. n : s[i] = s[i - 1] + F[i - 1]

(* The partial sums exist, by the least number of terms without them.      *)
LEMMA RunningExists ==
  ASSUME NEW n \in Nat, NEW F, \A i \in 0 .. n - 1 : F[i] \in Int
  PROVE  \E s : Running(s, F, n)
<1> DEFINE T == {k \in 0 .. n : ~ \E s : Running(s, F, k)}
<1> SUFFICES ASSUME T # {} PROVE FALSE
  OBVIOUS
<1>1. T \subseteq Nat
  OBVIOUS
<1>2. PICK k \in T : \A j \in T : k <= j
  <2> HIDE DEF T
  <2> QED BY <1>1, LeastElement
<1>3. k \in 0 .. n /\ k \in Nat
  OBVIOUS
<1>4. CASE k = 0
  <2>1. Running([i \in 0 .. 0 |-> 0], F, 0)
    BY DEF Running
  <2> QED BY <1>4, <2>1
<1>5. CASE k # 0
  <2>1. k - 1 \in 0 .. n /\ k - 1 \in 0 .. n - 1 /\ ~(k <= k - 1)
    BY <1>3, <1>5
  <2>2. k - 1 \notin T
    BY <1>2, <2>1
  <2>3. PICK s : Running(s, F, k - 1)
    BY <2>1, <2>2
  <2> DEFINE r == [i \in 0 .. k |-> IF i = k THEN s[k - 1] + F[k - 1] ELSE s[i]]
  <2>4. s \in [0 .. k - 1 -> Int] /\ s[0] = 0 /\ F[k - 1] \in Int
        /\ \A i \in 1 .. k - 1 : s[i] = s[i - 1] + F[i - 1]
    BY <2>1, <2>3 DEF Running
  <2>5. r \in [0 .. k -> Int] /\ r[0] = 0
    BY <1>3, <1>5, <2>4
  <2>6. \A i \in 1 .. k : r[i] = r[i - 1] + F[i - 1]
    BY <1>3, <1>5, <2>4
  <2>7. Running(r, F, k)
    <3> HIDE DEF r
    <3> QED BY <2>5, <2>6 DEF Running
  <2> QED BY <2>7
<1> QED BY <1>4, <1>5

(* SumBelow is the last of them.                                           *)
LEMMA SumBelowIs ==
  ASSUME NEW n \in Nat, NEW F, NEW s, Running(s, F, n)
  PROVE  SumBelow(F, n) = s[n]
<1> DEFINE Eq(f) == f = [i \in 0 .. n |-> IF i = 0 THEN 0 ELSE f[i - 1] + F[i - 1]]
           sum == CHOOSE f : Eq(f)
<1>1. s \in [0 .. n -> Int] /\ s[0] = 0 /\ \A i \in 1 .. n : s[i] = s[i - 1] + F[i - 1]
  BY DEF Running
<1>2. Eq(s)
  BY <1>1
<1>3. Eq(sum)
  <2> HIDE DEF Eq
  <2> QED BY <1>2
<1>4. SumBelow(F, n) = sum[n]
  BY DEF SumBelow
<1> HIDE DEF sum
<1>5. sum[0] = 0 /\ \A i \in 1 .. n : sum[i] = sum[i - 1] + F[i - 1]
  BY <1>3
<1> DEFINE T == {i \in 0 .. n : sum[i] # s[i]}
<1>6. T = {}
  <2> SUFFICES ASSUME T # {} PROVE FALSE
    OBVIOUS
  <2>1. T \subseteq Nat
    OBVIOUS
  <2>2. PICK k \in T : \A j \in T : k <= j
    <3> HIDE DEF T
    <3> QED BY <2>1, LeastElement
  <2>3. k # 0 /\ k \in 1 .. n /\ k - 1 \in 0 .. n /\ ~(k <= k - 1)
    BY <1>1, <1>5
  <2>4. sum[k - 1] = s[k - 1]
    BY <2>2, <2>3
  <2> QED BY <1>1, <1>5, <2>3, <2>4
<1> QED BY <1>4, <1>6

(* A sum changes by what its terms change.                                 *)
LEMMA SumChanges ==
  ASSUME NEW n \in Nat, NEW F, NEW G, NEW p \in 0 .. n - 1, NEW q \in 0 .. n - 1, p # q,
         \A i \in 0 .. n - 1 : F[i] \in Int /\ G[i] \in Int,
         \A i \in (0 .. n - 1) \ {p, q} : G[i] = F[i]
  PROVE  SumBelow(G, n) = SumBelow(F, n) + (G[p] - F[p]) + (G[q] - F[q])
<1>1. PICK s : Running(s, F, n)
  BY RunningExists
<1>2. PICK t : Running(t, G, n)
  BY RunningExists
<1>3. SumBelow(F, n) = s[n] /\ SumBelow(G, n) = t[n]
  BY <1>1, <1>2, SumBelowIs
<1> DEFINE D(i) == (IF p < i THEN G[p] - F[p] ELSE 0) + (IF q < i THEN G[q] - F[q] ELSE 0)
           T == {i \in 0 .. n : t[i] # s[i] + D(i)}
<1>4. /\ s \in [0 .. n -> Int] /\ s[0] = 0 /\ \A i \in 1 .. n : s[i] = s[i - 1] + F[i - 1]
      /\ t \in [0 .. n -> Int] /\ t[0] = 0 /\ \A i \in 1 .. n : t[i] = t[i - 1] + G[i - 1]
  BY <1>1, <1>2 DEF Running
<1>d. /\ D(0) = 0 /\ \A i \in 0 .. n : D(i) \in Int
      /\ D(n) = (G[p] - F[p]) + (G[q] - F[q])
  OBVIOUS
<1>5. T = {}
  <2> SUFFICES ASSUME T # {} PROVE FALSE
    OBVIOUS
  <2>1. T \subseteq Nat
    OBVIOUS
  <2>2. PICK k \in T : \A j \in T : k <= j
    <3> HIDE DEF T
    <3> QED BY <2>1, LeastElement
  <2>3. k # 0 /\ k \in 1 .. n /\ k - 1 \in 0 .. n /\ k - 1 \in 0 .. n - 1 /\ ~(k <= k - 1)
    <3>1. k # 0
      <4> HIDE DEF D
      <4> QED BY <1>4, <1>d
    <3> QED BY <3>1
  <2>4. t[k - 1] = s[k - 1] + D(k - 1)
    BY <2>2, <2>3
  <2>5. t[k] = t[k - 1] + G[k - 1] /\ s[k] = s[k - 1] + F[k - 1]
    BY <1>4, <2>3
  <2>6. D(k) - D(k - 1) = G[k - 1] - F[k - 1]
    BY <2>3
  <2>7. t[k] = s[k] + D(k)
    <3>1. /\ D(k) \in Int /\ D(k - 1) \in Int /\ s[k - 1] \in Int
          /\ F[k - 1] \in Int /\ G[k - 1] \in Int
      BY <1>4, <1>d, <2>3
    <3> HIDE DEF D
    <3> QED BY <2>4, <2>5, <2>6, <3>1
  <2> QED BY <2>7
<1>6. t[n] = s[n] + D(n)
  BY <1>5
<1>7. s[n] \in Int
  BY <1>4
<1>8. G[p] - F[p] \in Int /\ G[q] - F[q] \in Int
  OBVIOUS
<1> HIDE DEF D
<1> QED BY <1>3, <1>6, <1>7, <1>8, <1>d

(* The links of the headers, as functions of their own.                    *)
Nexts(H) == [k \in DOMAIN H |-> H[k].next]
Prevs(H) == [k \in DOMAIN H |-> H[k].prev]

(* The headers of the heap are such a list, and the trailer is not free.   *)
Shape(H) ==
  /\ H \in [DOMAIN H -> Header]
  /\ Linked(DOMAIN H, Nexts(H), Prevs(H))
  /\ ~H[PoolTrailer].free

(* What the shape of the heap says of one header.                          *)
LEMMA ShapeFacts ==
  ASSUME NEW H, Shape(H)
  PROVE  /\ H \in [DOMAIN H -> Header] /\ DOMAIN H \subseteq 0 .. PoolTrailer
         /\ PoolStart \in DOMAIN H /\ PoolTrailer \in DOMAIN H
         /\ H[PoolTrailer].next = PoolStart /\ ~H[PoolTrailer].free
         /\ \A k \in DOMAIN H : H[k].next \in DOMAIN H /\ H[k].prev \in DOMAIN H
         /\ \A k \in DOMAIN H : H[H[k].next].prev = k /\ H[H[k].prev].next = k
         /\ \A k \in DOMAIN H \ {PoolTrailer} : k + Overhead < H[k].next
         /\ \A k \in DOMAIN H \ {PoolTrailer} : \A j \in DOMAIN H : j > k => H[k].next <= j
         /\ \A k \in DOMAIN H : k \in Nat /\ k \in 0 .. PoolSize /\ k <= PoolTrailer
<1> DEFINE D == DOMAIN H
<1>1. Linked(D, Nexts(H), Prevs(H)) /\ ~H[PoolTrailer].free /\ H \in [D -> Header]
  BY DEF Shape
<1>2. \A k \in D : Nexts(H)[k] = H[k].next /\ Prevs(H)[k] = H[k].prev
  BY DEF Nexts, Prevs
<1> HIDE DEF D
<1>3. /\ D \subseteq 0 .. PoolTrailer /\ PoolStart \in D /\ PoolTrailer \in D
      /\ \A k \in D : Nexts(H)[k] \in D /\ Prevs(H)[k] \in D
      /\ Nexts(H)[PoolTrailer] = PoolStart
  BY <1>1, Zenon DEF Linked
<1>4. \A k \in D : Prevs(H)[Nexts(H)[k]] = k /\ Nexts(H)[Prevs(H)[k]] = k
  BY <1>1, Zenon DEF Linked
<1>5. /\ \A k \in D \ {PoolTrailer} : k + Overhead < Nexts(H)[k]
      /\ \A k \in D \ {PoolTrailer} : \A j \in D : j > k => Nexts(H)[k] <= j
  BY <1>1, Zenon DEF Linked
<1>6. \A k \in D : H[k].next \in D /\ H[k].prev \in D
  BY ONLY <1>2, <1>3, Zenon
<1>7. \A k \in D : H[H[k].next].prev = k /\ H[H[k].prev].next = k
  BY ONLY <1>2, <1>4, <1>6, Zenon
<1>8. /\ \A k \in D \ {PoolTrailer} : k + Overhead < H[k].next
      /\ \A k \in D \ {PoolTrailer} : \A j \in D : j > k => H[k].next <= j
  BY ONLY <1>2, <1>5, Zenon
<1>9. \A k \in D : k \in Nat /\ k \in 0 .. PoolSize /\ k <= PoolTrailer
  BY <1>3, PoolFacts
<1>10. H[PoolTrailer].next = PoolStart
  BY ONLY <1>2, <1>3, Zenon
<1> QED BY ONLY <1>1, <1>3, <1>6, <1>7, <1>8, <1>9, <1>10, Zenon DEF D

(* The fields of the headers after Split.                                  *)
LEMMA SplitFields ==
  ASSUME Shape(heap), NEW h \in DOMAIN heap \ {PoolTrailer}, NEW size \in Nat,
         h + size + Overhead < heap[h].next
  PROVE  LET new == h + size + Overhead
             last == heap[h].next
             S == Split(h, size)
         IN  /\ DOMAIN S = DOMAIN heap \cup {new} /\ S \in [DOMAIN heap \cup {new} -> Header]
             /\ S[new] = [next |-> last, prev |-> h, free |-> TRUE]
             /\ S[h] = [next |-> new, prev |-> heap[h].prev, free |-> FALSE]
             /\ S[last] = [next |-> heap[last].next, prev |-> new, free |-> heap[last].free]
             /\ \A k \in DOMAIN heap \ {h, last} : S[k] = heap[k]
<1> DEFINE new == h + size + Overhead
           last == heap[h].next
           S == Split(h, size)
           E == [heap EXCEPT ![last].prev = new, ![h].next = new, ![h].free = FALSE]
<1>0. /\ DOMAIN heap \subseteq 0 .. PoolTrailer /\ last \in DOMAIN heap
      /\ \A k \in DOMAIN heap : k > h => last <= k
  BY ShapeFacts
<1>1. /\ h \in Nat /\ last \in DOMAIN heap /\ last \in Nat /\ h < new /\ new < last
      /\ new \notin DOMAIN heap /\ last # h /\ new \in 0 .. PoolSize /\ h \in 0 .. PoolSize
      /\ last \in 0 .. PoolSize
  <2>1. h \in 0 .. PoolTrailer /\ last \in 0 .. PoolTrailer
    BY <1>0
  <2> HIDE DEF last
  <2>2. h \in Nat /\ last \in Nat /\ h < new /\ new < last /\ new \in Nat
    BY <2>1, PoolFacts DEF last
  <2> HIDE DEF new
  <2>3. new \notin DOMAIN heap
    BY <1>0, <2>2
  <2> QED BY <1>0, <2>1, <2>2, <2>3, PoolFacts
<1>2. /\ heap \in [DOMAIN heap -> Header] /\ heap[h] \in Header /\ heap[last] \in Header
  BY <1>1, ShapeFacts
<1>3. S = [k \in DOMAIN heap \cup {new} |->
             IF k = new THEN [next |-> last, prev |-> h, free |-> TRUE] ELSE E[k]]
  BY DEF Split
<1> HIDE DEF new, S
<1>4. /\ DOMAIN E = DOMAIN heap
      /\ E[h] = [heap[h] EXCEPT !.next = new, !.free = FALSE]
      /\ E[last] = [heap[last] EXCEPT !.prev = new]
      /\ \A k \in DOMAIN heap \ {h, last} : E[k] = heap[k]
  BY <1>1, <1>2
<1> HIDE DEF E, last
<1>5. E[h] = [next |-> new, prev |-> heap[h].prev, free |-> FALSE] /\ E[h] \in Header
  BY <1>1, <1>2, <1>4, Zenon DEF Header
<1>6. E[last] = [next |-> heap[last].next, prev |-> new, free |-> heap[last].free] /\ E[last] \in Header
  BY <1>1, <1>2, <1>4, Zenon DEF Header
<1>7. [next |-> last, prev |-> h, free |-> TRUE] \in Header
  BY <1>1, Zenon DEF Header
<1>8. \A k \in DOMAIN heap : E[k] \in Header
  BY <1>2, <1>4, <1>5, <1>6
<1>9. DOMAIN S = DOMAIN heap \cup {new} /\ S \in [DOMAIN heap \cup {new} -> Header]
  BY <1>3, <1>4, <1>7, <1>8
<1>10. S[new] = [next |-> last, prev |-> h, free |-> TRUE] /\ \A k \in DOMAIN heap : S[k] = E[k]
  BY <1>1, <1>3, <1>4
<1> QED BY <1>1, <1>4, <1>5, <1>6, <1>9, <1>10 DEF new, last, S

(* Split keeps the shape of the heap.                                      *)
LEMMA SplitShape ==
  ASSUME Shape(heap), NEW h \in DOMAIN heap \ {PoolTrailer}, NEW size \in Nat \ {0},
         h + size + 2 * Overhead < heap[h].next
  PROVE  Shape(Split(h, size))
<1> DEFINE new == h + size + Overhead
           last == heap[h].next
           S == Split(h, size)
           D == DOMAIN heap
<1>1. /\ h \in Nat /\ last \in D /\ last \in Nat /\ last # h /\ h + Overhead < new
      /\ new + Overhead < last /\ h + size + Overhead < last /\ new \in Nat
      /\ \A k \in D : k > h => last <= k
  <2>1. h \in Nat /\ last \in D /\ last \in Nat /\ \A k \in D : k > h => last <= k
    BY ShapeFacts
  <2> QED BY <2>1, PoolFacts
<1>2. /\ DOMAIN S = D \cup {new} /\ S \in [D \cup {new} -> Header]
      /\ S[new] = [next |-> last, prev |-> h, free |-> TRUE]
      /\ S[h] = [next |-> new, prev |-> heap[h].prev, free |-> FALSE]
      /\ S[last] = [next |-> heap[last].next, prev |-> new, free |-> heap[last].free]
      /\ \A k \in D \ {h, last} : S[k] = heap[k]
  <2>1. h \in DOMAIN heap \ {PoolTrailer} /\ size \in Nat /\ h + size + Overhead < heap[h].next
    BY <1>1
  <2> QED BY ONLY Shape(heap), <2>1, SplitFields, Zenon
<1> HIDE DEF S, new, last
<1>3. /\ S[new].next = last /\ S[new].prev = h /\ S[h].next = new /\ S[h].prev = heap[h].prev
      /\ S[last].next = heap[last].next /\ S[last].prev = new /\ S[last].free = heap[last].free
  BY <1>2
<1>n. Nexts(heap)[h] = last
  BY DEF Nexts, last
<1>4. /\ Nexts(S)[new] = last /\ Nexts(S)[h] = new
      /\ \A k \in D \ {h} : Nexts(S)[k] = Nexts(heap)[k]
  BY <1>1, <1>2, <1>3 DEF Nexts
<1>5. /\ Prevs(S)[new] = h /\ Prevs(S)[last] = new
      /\ \A k \in D \ {last} : Prevs(S)[k] = Prevs(heap)[k]
  BY <1>1, <1>2, <1>3 DEF Prevs
<1>6. Linked(D, Nexts(heap), Prevs(heap)) /\ h \in D \ {PoolTrailer}
  BY DEF Shape
<1>7. Linked(D \cup {new}, Nexts(S), Prevs(S))
  <2> DEFINE nx == Nexts(heap) pv == Prevs(heap) N == Nexts(S) P == Prevs(S)
  <2>1. /\ Linked(D, nx, pv) /\ h \in D \ {PoolTrailer} /\ new \in Nat
        /\ h + Overhead < new /\ new + Overhead < nx[h]
        /\ N[new] = nx[h] /\ N[h] = new /\ (\A k \in D \ {h} : N[k] = nx[k])
        /\ P[new] = h /\ P[nx[h]] = new /\ (\A k \in D \ {nx[h]} : P[k] = pv[k])
    BY ONLY <1>1, <1>4, <1>5, <1>6, <1>n
  <2> HIDE DEF nx, pv, N, P, D
  <2>2. Linked(D \cup {new}, N, P)
    BY ONLY <2>1, LinkInserted
  <2> QED BY <2>2 DEF N, P
<1>8. ~S[PoolTrailer].free
  <2>1. ~heap[PoolTrailer].free /\ PoolTrailer \in D
    BY ShapeFacts
  <2> QED BY <1>2, <1>3, <2>1
<1> QED BY <1>2, <1>7, <1>8 DEF Shape, S

(* The fields of the headers after Joined.                                 *)
LEMMA JoinedFields ==
  ASSUME NEW H, Shape(H), NEW a \in DOMAIN H \ {PoolTrailer}, NEW b \in DOMAIN H \ {PoolTrailer},
         b = H[a].next
  PROVE  LET next == H[b].next
             J == Joined(H, a, b)
         IN  /\ a < b /\ b < next /\ next \in DOMAIN H
             /\ DOMAIN J = DOMAIN H \ {b} /\ J \in [DOMAIN H \ {b} -> Header]
             /\ J[a] = [next |-> next, prev |-> H[a].prev, free |-> H[a].free]
             /\ J[next] = [next |-> H[next].next, prev |-> a, free |-> H[next].free]
             /\ \A k \in DOMAIN H \ {a, b, next} : J[k] = H[k]
<1> DEFINE next == H[b].next
           J == Joined(H, a, b)
           E == [H EXCEPT ![a].next = next, ![next].prev = a]
<1>1. DOMAIN H \subseteq 0 .. PoolTrailer /\ next \in DOMAIN H /\ H \in [DOMAIN H -> Header]
      /\ a + Overhead < b /\ b + Overhead < next
  BY ShapeFacts
<1> HIDE DEF next
<1>2. a \in 0 .. PoolSize /\ b \in Nat /\ next \in 0 .. PoolSize /\ a < b /\ b < next
      /\ a # next /\ a # b /\ next # b
  BY <1>1, PoolFacts
<1>3. J = [k \in DOMAIN H \ {b} |-> E[k]]
  BY DEF Joined, next
<1>4. /\ DOMAIN E = DOMAIN H
      /\ E[a] = [H[a] EXCEPT !.next = next]
      /\ E[next] = [H[next] EXCEPT !.prev = a]
      /\ \A k \in DOMAIN H \ {a, next} : E[k] = H[k]
  BY <1>1, <1>2
<1> HIDE DEF E, J
<1>5. H[a] \in Header /\ H[next] \in Header
  BY <1>1
<1>6. E[a] = [next |-> next, prev |-> H[a].prev, free |-> H[a].free] /\ E[a] \in Header
  BY <1>2, <1>4, <1>5, Zenon DEF Header
<1>7. E[next] = [next |-> H[next].next, prev |-> a, free |-> H[next].free] /\ E[next] \in Header
  BY <1>2, <1>4, <1>5, Zenon DEF Header
<1>8. \A k \in DOMAIN H : E[k] \in Header
  BY <1>1, <1>4, <1>6, <1>7
<1>9. DOMAIN J = DOMAIN H \ {b} /\ J \in [DOMAIN H \ {b} -> Header]
      /\ \A k \in DOMAIN H \ {b} : J[k] = E[k]
  BY <1>3, <1>8
<1> QED BY <1>1, <1>2, <1>4, <1>6, <1>7, <1>9 DEF next, J

(* Joined keeps the shape of the heap.                                     *)
LEMMA JoinedShape ==
  ASSUME NEW H, Shape(H), NEW a \in DOMAIN H \ {PoolTrailer}, NEW b \in DOMAIN H \ {PoolTrailer},
         b = H[a].next
  PROVE  Shape(Joined(H, a, b))
<1> DEFINE next == H[b].next
           J == Joined(H, a, b)
           D == DOMAIN H
<1>1. /\ a < b /\ b < next /\ next \in D
      /\ DOMAIN J = D \ {b} /\ J \in [D \ {b} -> Header]
      /\ J[a] = [next |-> next, prev |-> H[a].prev, free |-> H[a].free]
      /\ J[next] = [next |-> H[next].next, prev |-> a, free |-> H[next].free]
      /\ \A k \in D \ {a, b, next} : J[k] = H[k]
  BY JoinedFields
<1>2. a \in Nat /\ b \in Nat /\ next \in Nat /\ a # b /\ b # next /\ a # next
  <2>1. a \in Nat /\ b \in Nat /\ next \in Nat
    BY <1>1, ShapeFacts
  <2> QED BY <1>1, <2>1
<1>n. Nexts(H)[a] = b /\ Nexts(H)[b] = next
  BY DEF Nexts
<1> HIDE DEF J, next
<1>3. /\ J[a].next = next /\ J[a].prev = H[a].prev
      /\ J[next].next = H[next].next /\ J[next].prev = a /\ J[next].free = H[next].free
  BY <1>1
<1>4. /\ Nexts(J)[a] = next
      /\ \A k \in D \ {a, b} : Nexts(J)[k] = Nexts(H)[k]
  BY <1>1, <1>2, <1>3 DEF Nexts
<1>5. /\ Prevs(J)[next] = a
      /\ \A k \in D \ {b, next} : Prevs(J)[k] = Prevs(H)[k]
  BY <1>1, <1>2, <1>3 DEF Prevs
<1>6. Linked(D, Nexts(H), Prevs(H)) /\ a \in D \ {PoolTrailer} /\ b \in D \ {PoolTrailer}
  BY DEF Shape
<1>7. Linked(D \ {b}, Nexts(J), Prevs(J))
  <2> DEFINE nx == Nexts(H) pv == Prevs(H) N == Nexts(J) P == Prevs(J)
  <2>1. /\ Linked(D, nx, pv) /\ a \in D \ {PoolTrailer} /\ b \in D \ {PoolTrailer} /\ b = nx[a]
        /\ N[a] = nx[b] /\ (\A k \in D \ {a, b} : N[k] = nx[k])
        /\ P[nx[b]] = a /\ (\A k \in D \ {b, nx[b]} : P[k] = pv[k])
    BY ONLY <1>4, <1>5, <1>6, <1>n
  <2> HIDE DEF nx, pv, N, P, D
  <2>2. Linked(D \ {b}, N, P)
    BY ONLY <2>1, LinkRemoved
  <2> QED BY <2>2 DEF N, P
<1>8. ~J[PoolTrailer].free
  <2>1. ~H[PoolTrailer].free /\ PoolTrailer \in D
    BY ShapeFacts
  <2> QED BY <1>1, <1>3, <2>1
<1> QED BY <1>1, <1>7, <1>8 DEF Shape, J

(* Changing who owns a block keeps the shape of the heap.                  *)
LEMMA FreedShape ==
  ASSUME NEW H, Shape(H), NEW h \in DOMAIN H \ {PoolTrailer}, NEW x \in BOOLEAN
  PROVE  LET E == [H EXCEPT ![h].free = x]
         IN  /\ Shape(E) /\ DOMAIN E = DOMAIN H /\ E[h].free = x
             /\ \A k \in DOMAIN H : E[k].next = H[k].next /\ E[k].prev = H[k].prev
             /\ \A k \in DOMAIN H \ {h} : E[k] = H[k]
<1> DEFINE E == [H EXCEPT ![h].free = x]
           e == [H[h] EXCEPT !.free = x]
<1>1. H \in [DOMAIN H -> Header] /\ H[h] \in Header
  BY ShapeFacts
<1>2. e \in Header /\ e.next = H[h].next /\ e.prev = H[h].prev /\ e.free = x
  BY <1>1, Zenon DEF Header
<1>3. E = [H EXCEPT ![h] = e]
  OBVIOUS
<1> HIDE DEF e, E
<1>4. E \in [DOMAIN H -> Header] /\ DOMAIN E = DOMAIN H /\ E[h] = e /\ \A k \in DOMAIN H \ {h} : E[k] = H[k]
  BY <1>1, <1>2, <1>3
<1>5. \A k \in DOMAIN H : E[k].next = H[k].next /\ E[k].prev = H[k].prev
  BY <1>2, <1>4
<1>6. Shape(E)
  <2>1. Nexts(E) = Nexts(H) /\ Prevs(E) = Prevs(H)
    BY <1>4, <1>5 DEF Nexts, Prevs
  <2>2. E[PoolTrailer] = H[PoolTrailer] /\ ~H[PoolTrailer].free
    BY <1>4, ShapeFacts
  <2> QED BY <1>4, <2>1, <2>2 DEF Shape
<1> QED BY <1>2, <1>4, <1>5, <1>6 DEF E

(* The free bytes behind every address, and their sum.                     *)
FreeSizes(H) ==
  [a \in 0 .. PoolSize - 1 |->
     IF a \in DOMAIN H THEN IF H[a].free THEN BlockSize(H, a) ELSE 0 ELSE 0]

FreeTotal(H) == SumBelow(FreeSizes(H), PoolSize)

(* FreeBytes is the sum for the heap of the state.                         *)
LEMMA FreeBytesIs == FreeBytes = FreeTotal(heap)
BY DEF FreeBytes, FreeTotal, FreeSizes, FreeAt, FreeSize

(* The free bytes behind an address are a natural number.                  *)
LEMMA FreeSizesType ==
  ASSUME NEW H, Shape(H)
  PROVE  \A a \in 0 .. PoolSize - 1 : FreeSizes(H)[a] \in Nat
<1>1. ASSUME NEW a \in DOMAIN H, H[a].free PROVE BlockSize(H, a) \in Nat
  <2>1. a # PoolTrailer
    BY <1>1, ShapeFacts
  <2>2. a + Overhead < H[a].next /\ a \in Nat /\ H[a].next \in DOMAIN H
    BY <2>1, ShapeFacts
  <2>3. H[a].next \in Nat
    BY <2>2, ShapeFacts
  <2> QED BY <2>2, <2>3, PoolFacts DEF BlockSize
<1>2. ASSUME NEW a \in 0 .. PoolSize - 1 PROVE FreeSizes(H)[a] \in Nat
  <2>1. FreeSizes(H)[a] = IF a \in DOMAIN H THEN IF H[a].free THEN BlockSize(H, a) ELSE 0 ELSE 0
    BY DEF FreeSizes
  <2> QED BY <1>1, <2>1
<1> QED BY <1>2

(* A change of two blocks changes the total by what they change.           *)
LEMMA TotalChanges ==
  ASSUME NEW H, NEW G, Shape(H), Shape(G), NEW p \in 0 .. PoolTrailer, NEW q \in 0 .. PoolTrailer,
         p # q,
         \A k \in (0 .. PoolSize - 1) \ {p, q} : FreeSizes(G)[k] = FreeSizes(H)[k]
  PROVE  FreeTotal(G) = FreeTotal(H) + (FreeSizes(G)[p] - FreeSizes(H)[p])
                                     + (FreeSizes(G)[q] - FreeSizes(H)[q])
<1> DEFINE F1 == FreeSizes(H) F2 == FreeSizes(G) n == PoolSize
<1>1. \A i \in 0 .. n - 1 : F1[i] \in Int /\ F2[i] \in Int
  BY FreeSizesType
<1>2. n \in Nat /\ p \in 0 .. n - 1 /\ q \in 0 .. n - 1 /\ p # q
  BY PoolFacts
<1>3. \A i \in (0 .. n - 1) \ {p, q} : F2[i] = F1[i]
  OBVIOUS
<1> HIDE DEF F1, F2, n
<1>4. SumBelow(F2, n) = SumBelow(F1, n) + (F2[p] - F1[p]) + (F2[q] - F1[q])
  BY ONLY <1>1, <1>2, <1>3, SumChanges
<1> QED BY <1>4 DEF FreeTotal, F1, F2, n

(* The free bytes fit the pool: blocks do not overlap.                     *)
LEMMA TotalType ==
  ASSUME NEW H, Shape(H)
  PROVE  FreeTotal(H) \in 0 .. PoolSize
<1> DEFINE F == FreeSizes(H)
           D == DOMAIN H
<1>1. \A i \in 0 .. PoolSize - 1 : F[i] \in Nat
  BY FreeSizesType
<1>2. PICK s : Running(s, F, PoolSize)
  <2> HIDE DEF F
  <2> QED BY <1>1, PoolFacts, RunningExists
<1>3. FreeTotal(H) = s[PoolSize]
  BY <1>2, PoolFacts, SumBelowIs DEF FreeTotal
<1>4. s \in [0 .. PoolSize -> Int] /\ s[0] = 0 /\ \A i \in 1 .. PoolSize : s[i] = s[i - 1] + F[i - 1]
  BY <1>2 DEF Running
<1>5. \A a \in D : a \in Nat /\ a <= PoolTrailer
  BY ShapeFacts
<1>6. ASSUME NEW a \in 0 .. PoolSize - 1, a \notin D \/ a = PoolTrailer
      PROVE  F[a] = 0
  BY <1>6, ShapeFacts DEF FreeSizes
<1>7. ASSUME NEW a \in D, a # PoolTrailer, NEW k \in D, k > a
      PROVE  a + F[a] <= k
  <2>1. a + Overhead < H[a].next /\ H[a].next <= k /\ a \in Nat /\ k \in Nat /\ H[a].next \in D
    BY <1>7, ShapeFacts
  <2>2. H[a].next \in Nat /\ a \in 0 .. PoolSize - 1
    BY <1>5, <2>1, PoolFacts
  <2>3. F[a] = 0 \/ F[a] = H[a].next - a - Overhead
    BY <2>2 DEF FreeSizes, BlockSize
  <2> QED BY <1>7, <2>1, <2>2, <2>3, PoolFacts
<1> HIDE DEF F
<1> DEFINE Fits(a) == s[a] >= 0 /\ \A k \in D : k >= a \/ k = PoolTrailer => s[a] <= k
           T == {a \in 0 .. PoolSize : ~Fits(a)}
<1>8. T = {}
  <2> SUFFICES ASSUME T # {} PROVE FALSE
    OBVIOUS
  <2>1. T \subseteq Nat
    BY PoolFacts
  <2>2. PICK a \in T : \A j \in T : a <= j
    <3> HIDE DEF T
    <3> QED BY <2>1, LeastElement
  <2>3. a # 0
    <3>1. Fits(0)
      BY <1>4, <1>5
    <3> QED BY <3>1
  <2>4. /\ a \in 1 .. PoolSize /\ a - 1 \in 0 .. PoolSize - 1 /\ a - 1 \in 0 .. PoolSize
        /\ ~(a <= a - 1)
    BY <2>3, PoolFacts
  <2>5. Fits(a - 1)
    BY <2>2, <2>4
  <2>6. s[a] = s[a - 1] + F[a - 1] /\ F[a - 1] \in Nat /\ s[a - 1] \in Int /\ s[a] \in Int
    BY <1>1, <1>4, <2>4
  <2>7. s[a] >= 0
    BY <2>5, <2>6
  <2>8. ASSUME NEW k \in D, k >= a \/ k = PoolTrailer
        PROVE  s[a] <= k
    <3>1. s[a - 1] <= k /\ k \in Nat
      <4>1. k >= a - 1 \/ k = PoolTrailer
        BY <1>5, <2>4, <2>8
      <4> QED BY <1>5, <2>5, <4>1
    <3>2. CASE a - 1 \notin D \/ a - 1 = PoolTrailer
      BY <1>6, <2>4, <2>6, <3>1, <3>2
    <3>3. CASE a - 1 \in D /\ a - 1 # PoolTrailer
      <4>1. s[a - 1] <= a - 1
        BY <2>4, <2>5, <3>3
      <4>2. k > a - 1
        BY <1>5, <2>4, <2>8, <3>3
      <4>3. (a - 1) + F[a - 1] <= k
        BY <1>7, <3>3, <4>2
      <4> QED BY <2>4, <2>6, <3>1, <4>1, <4>3
    <3> QED BY <3>2, <3>3
  <2>9. Fits(a)
    BY <2>7, <2>8
  <2> QED BY <2>9
<1>9. Fits(PoolSize) /\ PoolTrailer \in D /\ s[PoolSize] \in Int
  <2>1. PoolSize \in 0 .. PoolSize /\ PoolTrailer \in D
    BY ShapeFacts, PoolFacts
  <2>2. PoolSize \notin T
    BY <1>8
  <2> QED BY <1>4, <2>1, <2>2
<1> QED BY <1>3, <1>9, PoolFacts

(* Split takes the bytes asked for, and a header, from the total.          *)
LEMMA SplitTotal ==
  ASSUME Shape(heap), NEW h \in DOMAIN heap, heap[h].free, NEW size \in Nat \ {0},
         h + size + 2 * Overhead < heap[h].next
  PROVE  FreeTotal(Split(h, size)) = FreeTotal(heap) - (size + Overhead)
<1> DEFINE new == h + size + Overhead
           last == heap[h].next
           S == Split(h, size)
           D == DOMAIN heap
<1>0. h # PoolTrailer
  BY ShapeFacts
<1>1. /\ h \in Nat /\ last \in D /\ last \in Nat /\ last # h /\ h < new
      /\ new < last /\ h + size + Overhead < last /\ new \in Nat /\ h # new /\ new # last
      /\ h \in 0 .. PoolTrailer /\ new \in 0 .. PoolTrailer
      /\ \A k \in D : k > h => last <= k
  <2>1. h \in Nat /\ last \in D /\ last \in Nat /\ (\A k \in D : k > h => last <= k)
        /\ last <= PoolTrailer /\ D \subseteq 0 .. PoolTrailer /\ h + Overhead < last
    BY <1>0, ShapeFacts
  <2> QED BY <2>1, PoolFacts
<1>d. new \notin D
  <2> HIDE DEF new, last
  <2> SUFFICES ASSUME new \in D PROVE FALSE
    OBVIOUS
  <2>1. last <= new
    BY <1>1
  <2> QED BY <1>1, <2>1
<1>2. /\ DOMAIN S = D \cup {new}
      /\ S[new] = [next |-> last, prev |-> h, free |-> TRUE]
      /\ S[h] = [next |-> new, prev |-> heap[h].prev, free |-> FALSE]
      /\ S[last] = [next |-> heap[last].next, prev |-> new, free |-> heap[last].free]
      /\ \A k \in D \ {h, last} : S[k] = heap[k]
  <2>1. h \in DOMAIN heap \ {PoolTrailer} /\ size \in Nat /\ h + size + Overhead < heap[h].next
    BY <1>0, <1>1
  <2> QED BY ONLY Shape(heap), <2>1, SplitFields, Zenon
<1>s. Shape(S)
  BY <1>0, SplitShape
<1> HIDE DEF S
<1>3. /\ S[new].next = last /\ S[new].free /\ ~S[h].free
      /\ \A k \in D \ {h} : S[k].next = heap[k].next /\ S[k].free = heap[k].free
  BY <1>2
<1>p. h \in 0 .. PoolSize - 1 /\ new \in 0 .. PoolSize - 1
  BY <1>1, PoolFacts
<1> HIDE DEF new, last
<1>4. /\ FreeSizes(heap)[h] = last - h - Overhead /\ FreeSizes(heap)[new] = 0
      /\ FreeSizes(S)[h] = 0 /\ FreeSizes(S)[new] = last - new - Overhead
  BY <1>d, <1>2, <1>3, <1>p DEF FreeSizes, BlockSize, last
<1>5. ASSUME NEW k \in (0 .. PoolSize - 1) \ {h, new}
      PROVE  FreeSizes(S)[k] = FreeSizes(heap)[k]
  <2>1. CASE k \in D
    BY <1>2, <1>3, <2>1 DEF FreeSizes, BlockSize
  <2>2. CASE k \notin D
    BY <1>2, <2>2 DEF FreeSizes
  <2> QED BY <2>1, <2>2
<1>6. FreeTotal(S) = FreeTotal(heap) + (FreeSizes(S)[h] - FreeSizes(heap)[h])
                                     + (FreeSizes(S)[new] - FreeSizes(heap)[new])
  BY ONLY <1>1, <1>5, <1>s, Shape(heap), TotalChanges
<1>7. FreeTotal(heap) \in Int
  BY TotalType
<1> QED BY <1>1, <1>4, <1>6, <1>7, PoolFacts DEF S, new

(* Block h changes hands.                                                  *)
LEMMA FreedTotal ==
  ASSUME NEW H, Shape(H), NEW h \in DOMAIN H \ {PoolTrailer}, NEW x \in BOOLEAN, H[h].free = ~x
  PROVE  FreeTotal([H EXCEPT ![h].free = x])
           = FreeTotal(H) + (IF x THEN BlockSize(H, h) ELSE - BlockSize(H, h))
<1> DEFINE E == [H EXCEPT ![h].free = x]
<1>1. /\ Shape(E) /\ DOMAIN E = DOMAIN H /\ E[h].free = x
      /\ \A k \in DOMAIN H : E[k].next = H[k].next /\ E[k].prev = H[k].prev
      /\ \A k \in DOMAIN H \ {h} : E[k] = H[k]
  BY FreedShape
<1> HIDE DEF E
<1>2. h \in 0 .. PoolTrailer /\ PoolTrailer \in 0 .. PoolTrailer
      /\ h \in 0 .. PoolSize - 1 /\ PoolTrailer \in 0 .. PoolSize - 1 /\ PoolTrailer \in DOMAIN H
  <2>1. h \in Nat /\ h <= PoolTrailer /\ PoolTrailer \in DOMAIN H
    BY ShapeFacts
  <2> QED BY <2>1, PoolFacts
<1>3. BlockSize(E, h) = BlockSize(H, h) /\ BlockSize(H, h) \in Int
  <2>1. H[h].next \in Nat /\ h \in Nat
    BY ShapeFacts
  <2> QED BY <1>1, <2>1, PoolFacts DEF BlockSize
<1>4. /\ FreeSizes(H)[h] = IF x THEN 0 ELSE BlockSize(H, h)
      /\ FreeSizes(E)[h] = IF x THEN BlockSize(H, h) ELSE 0
  BY <1>1, <1>2, <1>3 DEF FreeSizes
<1>5. \A k \in (0 .. PoolSize - 1) \ {h} : FreeSizes(E)[k] = FreeSizes(H)[k]
  BY <1>1 DEF FreeSizes, BlockSize
<1>6. FreeTotal(E) = FreeTotal(H) + (FreeSizes(E)[h] - FreeSizes(H)[h])
                       + (FreeSizes(E)[PoolTrailer] - FreeSizes(H)[PoolTrailer])
  BY ONLY <1>1, <1>2, <1>5, Shape(H), h \in DOMAIN H \ {PoolTrailer}, TotalChanges
<1>7. FreeSizes(E)[PoolTrailer] = FreeSizes(H)[PoolTrailer] /\ FreeSizes(H)[PoolTrailer] \in Int
  BY <1>2, <1>5, FreeSizesType
<1>8. FreeTotal(H) \in Int
  BY TotalType
<1> QED BY <1>3, <1>4, <1>6, <1>7, <1>8 DEF E

(* Two neighbours become one: the header between them is gained.           *)
LEMMA JoinedTotal ==
  ASSUME NEW H, Shape(H), NEW a \in DOMAIN H, NEW b \in DOMAIN H, H[a].free, H[b].free,
         b = H[a].next
  PROVE  FreeTotal(Joined(H, a, b)) = FreeTotal(H) + Overhead
<1> DEFINE next == H[b].next
           J == Joined(H, a, b)
           D == DOMAIN H
<1>0. a \in DOMAIN H \ {PoolTrailer} /\ b \in DOMAIN H \ {PoolTrailer}
  BY ShapeFacts
<1>1. /\ a < b /\ b < next /\ next \in D
      /\ DOMAIN J = D \ {b} /\ J \in [D \ {b} -> Header]
      /\ J[a] = [next |-> next, prev |-> H[a].prev, free |-> H[a].free]
      /\ J[next] = [next |-> H[next].next, prev |-> a, free |-> H[next].free]
      /\ \A k \in D \ {a, b, next} : J[k] = H[k]
  BY ONLY <1>0, Shape(H), b = H[a].next, JoinedFields
<1>s. Shape(J)
  BY <1>0, JoinedShape
<1> HIDE DEF J
<1>2. a \in Nat /\ b \in Nat /\ next \in Nat /\ a \in 0 .. PoolTrailer /\ b \in 0 .. PoolTrailer
  BY <1>1, ShapeFacts
<1>3. a # b /\ a # next /\ b # next /\ a \in 0 .. PoolSize - 1 /\ b \in 0 .. PoolSize - 1
  BY <1>1, <1>2, PoolFacts
<1>4. /\ J[a].next = next /\ J[a].free
      /\ \A k \in D \ {a, b} : J[k].next = H[k].next /\ J[k].free = H[k].free
  BY <1>1, <1>3
<1>5. /\ FreeSizes(H)[a] = b - a - Overhead /\ FreeSizes(H)[b] = next - b - Overhead
      /\ FreeSizes(J)[a] = next - a - Overhead /\ FreeSizes(J)[b] = 0
  BY <1>1, <1>3, <1>4 DEF FreeSizes, BlockSize
<1>6. ASSUME NEW k \in (0 .. PoolSize - 1) \ {a, b}
      PROVE  FreeSizes(J)[k] = FreeSizes(H)[k]
  <2>1. CASE k \in D
    BY <1>1, <1>4, <2>1 DEF FreeSizes, BlockSize
  <2>2. CASE k \notin D
    BY <1>1, <2>2 DEF FreeSizes
  <2> QED BY <2>1, <2>2
<1>7. FreeTotal(J) = FreeTotal(H) + (FreeSizes(J)[a] - FreeSizes(H)[a])
                                  + (FreeSizes(J)[b] - FreeSizes(H)[b])
  BY ONLY <1>2, <1>3, <1>6, <1>s, Shape(H), TotalChanges
<1>8. FreeTotal(H) \in Int
  BY TotalType
<1> HIDE DEF next
<1> QED BY <1>2, <1>5, <1>7, <1>8, PoolFacts DEF J

(* Rounding up to a unit does not round down.                              *)
LEMMA RoundedUp ==
  ASSUME NEW s \in Nat, NEW u \in Nat \ {0}
  PROVE  ((s + u - 1) \div u) * u \in Nat /\ ((s + u - 1) \div u) * u >= s
<1> DEFINE q == (s + u - 1) \div u
           r == (s + u - 1) % u
<1>1. s + u - 1 \in Nat
  OBVIOUS
<1>2. q \in Nat /\ r \in 0 .. u - 1 /\ s + u - 1 = u * q + r
  BY <1>1, SMT
<1> HIDE DEF q, r
<1>3. q * u \in Nat /\ u * q = q * u
  BY <1>2, SMT
<1>4. q * u >= s
  BY <1>2, <1>3, SMT
<1> QED BY <1>3, <1>4 DEF q

(* OS_GetMem looks for at least the bytes it was asked for.                *)
LEMMA AdjustedFits ==
  ASSUME NEW size \in Nat
  PROVE  /\ Adjusted(size) \in Nat \ {0}
         /\ Adjusted(size) >= size /\ Adjusted(size) >= MinAllocation
<1>1. CASE size < MinAllocation
  BY <1>1, PoolFacts DEF Adjusted
<1>2. CASE ~(size < MinAllocation)
  <2>1. Adjusted(size) \in Nat /\ Adjusted(size) >= size
    BY <1>2, RoundedUp, PoolFacts DEF Adjusted
  <2> QED BY <1>2, <2>1, PoolFacts
<1> QED BY <1>1, <1>2

(* The search visits every block of the list.                              *)
LEMMA VisitsAll ==
  ASSUME Shape(heap), dm_search_ptr \in DOMAIN heap
  PROVE  /\ DOMAIN Visited \subseteq Nat
         /\ \A n \in DOMAIN Visited : Visited[n] \in DOMAIN heap
         /\ \A h \in DOMAIN heap : \E n \in DOMAIN Visited : Visited[n] = h
<1> DEFINE D == DOMAIN heap
           N == Cardinality(D)
           nx == Nexts(heap)
           pv == Prevs(heap)
           s == dm_search_ptr
           Eq(v) == v = [n \in 0 .. N - 1 |-> IF n = 0 THEN s ELSE heap[v[n - 1]].next]
<1>1. Linked(D, nx, pv) /\ D \subseteq 0 .. PoolTrailer
  BY ShapeFacts DEF Shape
<1>2. IsFiniteSet(D) /\ N \in Nat /\ N # 0
  <2>1. IsFiniteSet(0 .. PoolTrailer)
    BY PoolFacts, FS_Interval
  <2>2. IsFiniteSet(D)
    BY <1>1, <2>1, FS_Subset
  <2> QED BY <2>2, FS_CardinalityType, FS_EmptySet
<1>3. N - 1 \in Nat /\ N = (N - 1) + 1
  BY <1>2
<1>w. ASSUME NEW v, Walk(v, nx, s, N - 1)
      PROVE  v \in [0 .. N - 1 -> D] /\ \A h \in D : \E i \in 0 .. N - 1 : v[i] = h
  <2> DEFINE n == N - 1
  <2>1. n \in Nat /\ Cardinality(D) = n + 1 /\ Walk(v, nx, s, n) /\ s \in D
    BY <1>3, <1>w
  <2> HIDE DEF n, nx, pv, s, D
  <2>2. v \in [0 .. n -> D] /\ \A h \in D : \E i \in 0 .. n : v[i] = h
    BY ONLY <1>1, <2>1, WalkVisits
  <2> QED BY <2>2 DEF n
<1>4. PICK w : Walk(w, nx, s, N - 1)
  <2> HIDE DEF nx, s, N
  <2> QED BY <1>3, WalkExists
<1>5. Eq(w)
  <2>1. w \in [0 .. N - 1 -> D] /\ w = [i \in 0 .. N - 1 |-> IF i = 0 THEN s ELSE nx[w[i - 1]]]
    BY <1>4, <1>w DEF Walk
  <2>2. \A k \in D : nx[k] = heap[k].next
    BY DEF Nexts
  <2> HIDE DEF nx, s, N, D
  <2>3. ASSUME NEW i \in 0 .. N - 1, i # 0 PROVE w[i - 1] \in D
    <3>1. i - 1 \in 0 .. N - 1
      BY <1>3, <2>3
    <3> QED BY ONLY <2>1, <3>1, Zenon
  <2> QED BY <2>1, <2>2, <2>3
<1>6. Eq(Visited)
  <2>1. Visited = CHOOSE v : Eq(v)
    BY DEF Visited
  <2> HIDE DEF Eq
  <2> QED BY <1>5, <2>1
<1> DEFINE v == Visited
<1>7. \A i \in 0 .. N - 1 : v[i] = w[i]
  <2> DEFINE T == {i \in 0 .. N - 1 : v[i] # w[i]}
  <2>e. /\ \A i \in 0 .. N - 1 : v[i] = IF i = 0 THEN s ELSE heap[v[i - 1]].next
        /\ \A i \in 0 .. N - 1 : w[i] = IF i = 0 THEN s ELSE heap[w[i - 1]].next
    BY <1>5, <1>6
  <2> HIDE DEF v, N, s
  <2>1. T = {}
    <3> SUFFICES ASSUME T # {} PROVE FALSE
      OBVIOUS
    <3>1. T \subseteq Nat
      BY <1>3
    <3>2. PICK k \in T : \A j \in T : k <= j
      <4> HIDE DEF T
      <4> QED BY <3>1, LeastElement
    <3>3. k # 0 /\ k \in 0 .. N - 1 /\ k - 1 \in 0 .. N - 1 /\ ~(k <= k - 1)
      BY <1>3, <2>e
    <3>4. v[k - 1] = w[k - 1]
      BY <3>2, <3>3
    <3> QED BY <2>e, <3>3, <3>4
  <2> QED BY <2>1
<1>8. DOMAIN v = 0 .. N - 1
  BY <1>6
<1>9. w \in [0 .. N - 1 -> D] /\ \A h \in D : \E i \in 0 .. N - 1 : w[i] = h
  BY <1>4, <1>w
<1> HIDE DEF v, N, D
<1>10. /\ DOMAIN v \subseteq Nat
       /\ \A n \in DOMAIN v : v[n] \in D
       /\ \A h \in D : \E n \in DOMAIN v : v[n] = h
  BY <1>3, <1>7, <1>8, <1>9
<1> QED BY <1>10 DEF v, D

(* No two neighbouring blocks are both free.                               *)
NoPair(H) == \A h \in DOMAIN H : ~(H[h].free /\ H[H[h].next].free)

(* The inductive invariant of the heap.                                    *)
HeapInv ==
  /\ Shape(heap) /\ NoPair(heap) /\ SearchLive
  /\ DOMAIN held = {h \in DOMAIN heap \ {PoolTrailer} : ~heap[h].free}
  /\ \A h \in DOMAIN held : held[h] \in MemSizes /\ BlockSize(heap, h) >= held[h]
  /\ dm_available = FreeTotal(heap)

(* The invariant includes the type of the heap.                            *)
LEMMA HeapInvType == HeapInv => DmemTypeOK
<1> SUFFICES ASSUME HeapInv PROVE DmemTypeOK
  OBVIOUS
<1>1. /\ \A k \in DOMAIN heap : k \in 0 .. PoolSize
      /\ \A k \in DOMAIN heap : heap[k] \in Header
  <2>1. Shape(heap)
    BY DEF HeapInv
  <2>2. heap \in [DOMAIN heap -> Header] /\ \A k \in DOMAIN heap : k \in 0 .. PoolSize
    BY <2>1, ShapeFacts
  <2> QED BY <2>2
<1>2. dm_available \in 0 .. PoolSize
  BY TotalType DEF HeapInv
<1> QED BY <1>1, <1>2 DEF HeapInv, DmemTypeOK, SearchLive

(* The invariant implies what the run checks.                              *)
LEMMA HeapInvSound == HeapInv => HeapSound
<1> SUFFICES ASSUME HeapInv PROVE HeapSound
  OBVIOUS
<1> DEFINE D == DOMAIN heap
<1>s. Shape(heap)
  BY DEF HeapInv
<1>f. /\ PoolStart \in D /\ PoolTrailer \in D /\ heap[PoolTrailer].next = PoolStart
      /\ ~heap[PoolTrailer].free
      /\ \A k \in D : heap[k].next \in D /\ heap[heap[k].next].prev = k
      /\ \A k \in D \ {PoolTrailer} : k + Overhead < heap[k].next
      /\ \A k \in D \ {PoolTrailer} : \A j \in D : j > k => heap[k].next <= j
      /\ \A k \in D : k \in Nat /\ k <= PoolTrailer
  BY <1>s, ShapeFacts
<1>1. BlocksTile
  <2>1. ASSUME NEW h \in D
        PROVE  LET above == {k \in D : k > h}
               IN  heap[h].next = IF above = {} THEN PoolStart ELSE Min(above)
    <3> DEFINE above == {k \in D : k > h}
    <3>1. CASE h = PoolTrailer
      <4>1. above = {}
        BY <1>f, <3>1, PoolFacts
      <4> QED BY <1>f, <3>1, <4>1
    <3>2. CASE h # PoolTrailer
      <4>1. heap[h].next \in above /\ \A k \in above : heap[h].next <= k
        <5>1. heap[h].next \in D /\ heap[h].next \in Nat /\ h \in Nat /\ h + Overhead < heap[h].next
          BY <1>f, <3>2
        <5>2. heap[h].next > h
          BY <5>1, PoolFacts
        <5> QED BY <1>f, <3>2, <5>1, <5>2
      <4>2. above \subseteq Nat
        BY <1>f
      <4> HIDE DEF above
      <4>3. Min(above) \in above /\ \A k \in above : Min(above) <= k
        BY <4>1, <4>2, LeastElement DEF Min
      <4>4. Min(above) = heap[h].next
        <5>1. Min(above) \in Nat /\ heap[h].next \in Nat
          BY <4>1, <4>2, <4>3
        <5>2. Min(above) <= heap[h].next /\ heap[h].next <= Min(above)
          BY <4>1, <4>3
        <5> QED BY <5>1, <5>2
      <4>5. heap[h].next = IF above = {} THEN PoolStart ELSE Min(above)
        BY <4>1, <4>4
      <4> QED BY <4>5 DEF above
    <3> QED BY <3>1, <3>2
  <2>2. \A h \in D : heap[heap[h].next].prev = h /\ ~(heap[h].free /\ heap[heap[h].next].free)
    BY <1>f DEF HeapInv, NoPair
  <2> QED BY <1>f, <2>1, <2>2, Zenon DEF BlocksTile
<1>2. SearchLive
  BY DEF HeapInv
<1>3. HeldBlocks
  BY FreeBytesIs DEF HeapInv, HeldBlocks
<1>4. NoFalseFull
  <2>1. ASSUME NEW size \in MemSizes, NEW h \in D, FreeSize(h) >= Adjusted(size)
        PROVE  Fitting(Adjusted(size)) # {}
    <3>1. PICK n \in DOMAIN Visited : Visited[n] = h
      BY <1>s, <1>2, VisitsAll DEF SearchLive
    <3> QED BY <2>1, <3>1 DEF Fitting
  <2>2. ASSUME held = <<>> PROVE D = {PoolStart, PoolTrailer}
    <3>1. \A h \in D \ {PoolTrailer} : heap[h].free
      BY <2>2 DEF HeapInv
    <3>2. heap[PoolStart].next = PoolTrailer
      BY <1>f, <3>1, PoolFacts DEF HeapInv, NoPair
    <3>3. \A k \in D : k > PoolStart => PoolTrailer <= k
      BY <1>f, <3>2, PoolFacts
    <3> QED BY <1>f, <3>3, PoolFacts
  <2> QED BY <2>1, <2>2 DEF NoFalseFull
<1> QED BY <1>1, <1>2, <1>3, <1>4 DEF HeapSound

(* The pool as OS_Create_Memory_Pool leaves it.                            *)
LEMMA HeapInvInit == DmemInit => HeapInv
<1> SUFFICES ASSUME DmemInit PROVE HeapInv
  OBVIOUS
<1> USE PoolFacts
<1> DEFINE D == {PoolStart, PoolTrailer}
<1>0. PoolStart # PoolTrailer
  OBVIOUS
<1>1. /\ DOMAIN heap = D
      /\ heap[PoolStart] = [next |-> PoolTrailer, prev |-> PoolTrailer, free |-> TRUE]
      /\ heap[PoolTrailer] = [next |-> PoolStart, prev |-> PoolStart, free |-> FALSE]
      /\ heap = [h \in D |-> heap[h]]
  BY <1>0 DEF DmemInit, OS_Create_Memory_Pool
<1>2. heap[PoolStart] \in Header /\ heap[PoolTrailer] \in Header
  <2>1. PoolStart \in 0 .. PoolSize /\ PoolTrailer \in 0 .. PoolSize
    OBVIOUS
  <2>2. /\ [next |-> PoolTrailer, prev |-> PoolTrailer, free |-> TRUE] \in Header
        /\ [next |-> PoolStart, prev |-> PoolStart, free |-> FALSE] \in Header
    BY ONLY <2>1, Zenon DEF Header
  <2> QED BY <1>1, <2>2
<1>3. heap \in [D -> Header]
  BY <1>1, <1>2
<1>4. /\ Nexts(heap)[PoolStart] = PoolTrailer /\ Nexts(heap)[PoolTrailer] = PoolStart
      /\ Prevs(heap)[PoolStart] = PoolTrailer /\ Prevs(heap)[PoolTrailer] = PoolStart
  BY <1>1 DEF Nexts, Prevs
<1>5. PoolStart + Overhead < PoolTrailer
  BY DmemAssumption DEF PoolTrailer, PoolStart
<1>6. Linked(D, Nexts(heap), Prevs(heap))
  BY <1>4, <1>5 DEF Linked
<1>7. Shape(heap)
  BY <1>1, <1>3, <1>6 DEF Shape
<1>8. NoPair(heap)
  BY <1>1, <1>0 DEF NoPair
<1>9. DOMAIN held = {} /\ dm_search_ptr = PoolStart /\ dm_available = PoolSize - 2 * Overhead
  BY DEF DmemInit, OS_Create_Memory_Pool
<1>10. FreeTotal(heap) = PoolSize - 2 * Overhead
  <2> DEFINE E == [heap EXCEPT ![PoolStart].free = FALSE]
             zeros == [i \in 0 .. PoolSize |-> 0]
  <2>1. PoolStart \in DOMAIN heap \ {PoolTrailer} /\ heap[PoolStart].free = ~FALSE
    <3>1. heap[PoolStart].free /\ heap[PoolStart].free \in BOOLEAN
      BY <1>1
    <3>2. PoolStart \in DOMAIN heap \ {PoolTrailer}
      BY <1>1
    <3> QED BY <3>1, <3>2
  <2>2. FreeTotal(E) = FreeTotal(heap) + (- BlockSize(heap, PoolStart))
    BY <1>7, <2>1, FreedTotal
  <2>3. Shape(E) /\ DOMAIN E = D /\ ~E[PoolStart].free /\ E[PoolTrailer] = heap[PoolTrailer]
    BY <1>1, <1>7, <2>1, FreedShape
  <2> HIDE DEF E
  <2>4. \A i \in 0 .. PoolSize - 1 : FreeSizes(E)[i] = 0
    BY <1>1, <2>3 DEF FreeSizes
  <2>5. Running(zeros, FreeSizes(E), PoolSize)
    BY <2>4 DEF Running
  <2>6. FreeTotal(E) = 0
    <3>1. SumBelow(FreeSizes(E), PoolSize) = zeros[PoolSize]
      <4> HIDE DEF zeros
      <4> QED BY <2>5, SumBelowIs
    <3> QED BY <3>1 DEF FreeTotal
  <2>7. BlockSize(heap, PoolStart) = PoolSize - 2 * Overhead
    BY <1>1 DEF BlockSize, PoolTrailer
  <2>8. FreeTotal(heap) \in Int
    BY <1>7, TotalType
  <2> QED BY <2>2, <2>6, <2>7, <2>8
<1> QED BY <1>1, <1>7, <1>8, <1>9, <1>10 DEF HeapInv, SearchLive

(* OS_GetMem keeps the invariant: failed, cut, and given whole.            *)
LEMMA GetMemStep ==
  ASSUME HeapInv, NEW size \in MemSizes, OS_GetMem(size)
  PROVE  HeapInv'
<1> DEFINE asked == Adjusted(size)
           D == DOMAIN heap
<1>s. Shape(heap)
  BY DEF HeapInv
<1>a. asked \in Nat \ {0} /\ asked >= size /\ asked >= MinAllocation /\ size \in Nat
  BY DmemAssumption, AdjustedFits
<1>v. /\ DOMAIN Visited \subseteq Nat
      /\ \A n \in DOMAIN Visited : Visited[n] \in D
  BY <1>s, VisitsAll DEF HeapInv, SearchLive
<1>1. CASE Fitting(asked) = {}
  BY <1>1 DEF OS_GetMem, heapVars, HeapInv, SearchLive, BlockSize
<1>2. CASE Fitting(asked) # {}
  <2> DEFINE h == Visited[Min(Fitting(asked))]
             room == FreeSize(h)
             cut == room >= asked + Overhead + MinAllocation
             last == heap[h].next
             new == h + asked + Overhead
  <2>1. h \in D /\ room >= asked
    <3>1. Fitting(asked) \subseteq Nat /\ Fitting(asked) \subseteq DOMAIN Visited
      BY <1>v DEF Fitting
    <3>2. Min(Fitting(asked)) \in Fitting(asked)
      BY <1>2, <3>1, LeastElement DEF Min
    <3>3. Min(Fitting(asked)) \in DOMAIN Visited
          /\ FreeSize(Visited[Min(Fitting(asked))]) >= asked
      BY <3>2 DEF Fitting
    <3> QED BY <1>v, <3>3
  <2>2. /\ heap' = IF cut THEN Split(h, asked) ELSE [heap EXCEPT ![h].free = FALSE]
        /\ dm_available' = dm_available - (IF cut THEN asked + Overhead ELSE room)
        /\ dm_search_ptr' = IF dm_search_ptr = h THEN heap'[h].next ELSE dm_search_ptr
        /\ held' = [k \in DOMAIN held \cup {h} |-> IF k = h THEN size ELSE held[k]]
    BY <1>2, Zenon DEF OS_GetMem
  <2> HIDE DEF h, asked
  <2>3. heap[h].free /\ room = last - h - Overhead
    BY <1>a, <2>1 DEF FreeSize, BlockSize
  <2>4. h # PoolTrailer /\ h \in Nat /\ last \in D /\ last \in Nat /\ h < last /\ last # h
        /\ \A k \in D : k \in Nat
    <3>1. h # PoolTrailer
      BY <1>s, <2>3, ShapeFacts
    <3>2. h \in Nat /\ last \in D /\ h + Overhead < last /\ \A k \in D : k \in Nat
      BY <1>s, <2>1, <3>1, ShapeFacts
    <3> QED BY <3>1, <3>2, PoolFacts
  <2>5. ~heap[last].free
    BY <2>1, <2>3 DEF HeapInv, NoPair
  <2>6. /\ DOMAIN held' = DOMAIN held \cup {h} /\ held'[h] = size
        /\ \A k \in DOMAIN held \ {h} : held'[k] = held[k]
    BY <2>2
  <2>h. /\ DOMAIN held = {k \in D \ {PoolTrailer} : ~heap[k].free}
        /\ \A k \in DOMAIN held : held[k] \in MemSizes /\ BlockSize(heap, k) >= held[k]
        /\ dm_search_ptr \in D /\ dm_available = FreeTotal(heap) /\ NoPair(heap)
    BY DEF HeapInv, SearchLive
  <2>7. CASE ~cut
    <3> DEFINE E == [heap EXCEPT ![h].free = FALSE]
    <3>1. heap' = E /\ dm_available' = dm_available - room
      BY <2>2, <2>7
    <3>2. /\ Shape(E) /\ DOMAIN E = D /\ ~E[h].free
          /\ \A k \in D : E[k].next = heap[k].next
          /\ \A k \in D \ {h} : E[k] = heap[k]
      BY <1>s, <2>1, <2>4, FreedShape
    <3>3. FreeTotal(E) = FreeTotal(heap) + (- BlockSize(heap, h))
      <4>1. h \in D \ {PoolTrailer} /\ heap[h].free = ~FALSE
        <5>1. heap[h] \in Header
          BY <1>s, <2>1, ShapeFacts
        <5>2. heap[h].free \in BOOLEAN
          BY <5>1, Zenon DEF Header
        <5> QED BY <2>1, <2>3, <2>4, <5>2
      <4> QED BY <1>s, <4>1, FreedTotal
    <3>4. FreeTotal(heap) \in Int
      BY <1>s, TotalType
    <3> HIDE DEF E
    <3>5. dm_available' = FreeTotal(heap')
      BY <2>3, <2>4, <2>h, <3>1, <3>3, <3>4, PoolFacts DEF BlockSize
    <3>6. Shape(heap') /\ DOMAIN heap' = D
      BY <3>1, <3>2
    <3>7. NoPair(heap')
      <4> SUFFICES ASSUME NEW k \in D PROVE ~(E[k].free /\ E[E[k].next].free)
        BY <3>1, <3>2 DEF NoPair
      <4>1. heap[k].next \in D /\ ~(heap[k].free /\ heap[heap[k].next].free)
        BY <1>s, <2>h, ShapeFacts DEF NoPair
      <4> QED BY <3>2, <4>1
    <3>8. SearchLive'
      BY <2>1, <2>2, <2>4, <2>h, <3>1, <3>2 DEF SearchLive
    <3>9. DOMAIN held' = {k \in DOMAIN heap' \ {PoolTrailer} : ~heap'[k].free}
      BY <2>1, <2>4, <2>6, <2>h, <3>1, <3>2
    <3>10. \A k \in DOMAIN held' : held'[k] \in MemSizes /\ BlockSize(heap', k) >= held'[k]
      <4>1. \A k \in D : BlockSize(heap', k) = BlockSize(heap, k)
        BY <3>1, <3>2 DEF BlockSize
      <4>2. BlockSize(heap, h) >= size
        BY <1>a, <2>1, <2>3, <2>4, PoolFacts DEF BlockSize
      <4> QED BY <2>1, <2>6, <2>h, <4>1, <4>2
    <3> QED BY <3>5, <3>6, <3>7, <3>8, <3>9, <3>10 DEF HeapInv
  <2>8. CASE cut
    <3> DEFINE S == Split(h, asked)
    <3>1. heap' = S /\ dm_available' = dm_available - (asked + Overhead)
      BY <2>2, <2>8
    <3>2. h + asked + 2 * Overhead < last /\ h + asked + Overhead < last /\ h \in D \ {PoolTrailer}
      BY <1>a, <2>1, <2>3, <2>4, <2>8, PoolFacts
    <3>3. Shape(S)
      BY <1>a, <1>s, <3>2, SplitShape
    <3>4. FreeTotal(S) = FreeTotal(heap) - (asked + Overhead)
      BY <1>a, <1>s, <2>1, <2>3, <3>2, SplitTotal
    <3>5. /\ DOMAIN S = D \cup {new} /\ S \in [D \cup {new} -> Header]
          /\ S[new] = [next |-> last, prev |-> h, free |-> TRUE]
          /\ S[h] = [next |-> new, prev |-> heap[h].prev, free |-> FALSE]
          /\ S[last] = [next |-> heap[last].next, prev |-> new, free |-> heap[last].free]
          /\ \A k \in D \ {h, last} : S[k] = heap[k]
      BY <1>a, <1>s, <3>2, SplitFields
    <3>6. new \notin D /\ new # PoolTrailer /\ new # h /\ new # last
      <4>1. \A k \in D : k > h => last <= k
        BY <1>s, <3>2, ShapeFacts
      <4>2. new \in Nat /\ h < new /\ new < last
        BY <1>a, <2>4, <3>2, PoolFacts
      <4>3. PoolTrailer \in D
        BY <1>s, ShapeFacts
      <4> HIDE DEF new
      <4>4. new \notin D
        BY <2>4, <4>1, <4>2
      <4> QED BY <2>1, <2>4, <4>3, <4>4
    <3> HIDE DEF S, new
    <3>7. /\ S[new].next = last /\ S[new].free /\ S[h].next = new /\ ~S[h].free
          /\ \A k \in D \ {h} : S[k].next = heap[k].next /\ S[k].free = heap[k].free
      BY <3>5
    <3>8. NoPair(S)
      <4> SUFFICES ASSUME NEW k \in DOMAIN S PROVE ~(S[k].free /\ S[S[k].next].free)
        BY DEF NoPair
      <4>1. CASE k = new
        BY <2>4, <2>5, <3>7, <4>1
      <4>2. CASE k = h
        BY <3>7, <4>2
      <4>3. CASE k \in D \ {h}
        <5>1. heap[k].next \in D
          BY <1>s, ShapeFacts, <4>3
        <5>2. ~(heap[k].free /\ heap[heap[k].next].free)
          BY <2>h, <4>3 DEF NoPair
        <5> QED BY <3>7, <4>3, <5>1, <5>2
      <4> QED BY <3>5, <4>1, <4>2, <4>3
    <3>9. SearchLive'
      BY <2>2, <2>h, <3>1, <3>5, <3>7 DEF SearchLive
    <3>10. DOMAIN held' = {k \in DOMAIN heap' \ {PoolTrailer} : ~heap'[k].free}
      BY <2>1, <2>4, <2>6, <2>h, <3>1, <3>5, <3>6, <3>7
    <3>11. \A k \in DOMAIN held' : held'[k] \in MemSizes /\ BlockSize(heap', k) >= held'[k]
      <4>1. \A k \in D \ {h} : BlockSize(heap', k) = BlockSize(heap, k)
        BY <3>1, <3>7 DEF BlockSize
      <4>2. BlockSize(heap', h) >= size
        BY <1>a, <2>4, <3>1, <3>7, PoolFacts DEF BlockSize, new
      <4>3. h \notin DOMAIN held /\ DOMAIN held \subseteq D
        BY <2>3, <2>h
      <4> QED BY <2>6, <2>h, <4>1, <4>2, <4>3
    <3>12. dm_available' = FreeTotal(heap')
      BY <2>h, <3>1, <3>4
    <3> QED BY <3>1, <3>3, <3>8, <3>9, <3>10, <3>11, <3>12 DEF HeapInv
  <2> QED BY <2>7, <2>8
<1> QED BY <1>1, <1>2

(* Two neighbours that are both free, but for the pair that starts at x.   *)
OnePair(H, x) ==
  \A k \in DOMAIN H : H[k].free /\ H[H[k].next].free => k = x

(* A free block and the free block after it become one.                    *)
LEMMA Merged ==
  ASSUME NEW H, Shape(H), NEW a \in DOMAIN H, NEW b \in DOMAIN H, H[a].free, H[b].free,
         b = H[a].next
  PROVE  LET J == Joined(H, a, b)
         IN  /\ Shape(J) /\ FreeTotal(J) = FreeTotal(H) + Overhead
             /\ DOMAIN J = DOMAIN H \ {b} /\ a # b /\ J[a].free
             /\ J[a].next = H[b].next /\ H[b].next # a
             /\ \A k \in DOMAIN H \ {a, b} : J[k].next = H[k].next /\ J[k].free = H[k].free
<1> DEFINE next == H[b].next
           J == Joined(H, a, b)
           D == DOMAIN H
<1>0. a \in D \ {PoolTrailer} /\ b \in D \ {PoolTrailer}
  BY ShapeFacts
<1>1. /\ a < b /\ b < next /\ next \in D
      /\ DOMAIN J = D \ {b} /\ J \in [D \ {b} -> Header]
      /\ J[a] = [next |-> next, prev |-> H[a].prev, free |-> H[a].free]
      /\ J[next] = [next |-> H[next].next, prev |-> a, free |-> H[next].free]
      /\ \A k \in D \ {a, b, next} : J[k] = H[k]
  BY ONLY <1>0, Shape(H), b = H[a].next, JoinedFields
<1>2. Shape(J)
  BY <1>0, JoinedShape
<1>3. FreeTotal(J) = FreeTotal(H) + Overhead
  BY JoinedTotal
<1> HIDE DEF J
<1>4. a \in Nat /\ b \in Nat /\ next \in Nat
  BY <1>1, ShapeFacts
<1>5. a # b /\ next # a
  BY <1>1, <1>4
<1>6. \A k \in D \ {a, b} : J[k].next = H[k].next /\ J[k].free = H[k].free
  BY <1>1
<1> QED BY <1>1, <1>2, <1>3, <1>5, <1>6 DEF J

(* OS_FreeMem keeps the invariant: alone, merged once, merged twice.       *)
LEMMA FreeMemStep ==
  ASSUME HeapInv, NEW h \in DOMAIN held, OS_FreeMem(h)
  PROVE  HeapInv'
<1> DEFINE D == DOMAIN heap
           F == [heap EXCEPT ![h].free = TRUE]
           prev == heap[h].prev
           freed == [heap |-> F, avail |-> dm_available + BlockSize(heap, h),
                     search |-> dm_search_ptr]
           before == IF heap[prev].free THEN MergeBlocks(freed, prev, h) ELSE freed
           header == IF heap[prev].free THEN prev ELSE h
           next == before.heap[header].next
           after == IF before.heap[next].free THEN MergeBlocks(before, header, next)
                    ELSE before
<1>0. /\ heap' = after.heap /\ dm_available' = after.avail /\ dm_search_ptr' = after.search
      /\ held' = [k \in DOMAIN held \ {h} |-> held[k]]
  BY Zenon DEF OS_FreeMem
<1>s. Shape(heap)
  BY DEF HeapInv
<1>h. /\ DOMAIN held = {k \in D \ {PoolTrailer} : ~heap[k].free}
      /\ \A k \in DOMAIN held : held[k] \in MemSizes /\ BlockSize(heap, k) >= held[k]
      /\ dm_search_ptr \in D /\ dm_available = FreeTotal(heap) /\ NoPair(heap)
  BY DEF HeapInv, SearchLive
<1>1. /\ h \in D \ {PoolTrailer} /\ ~heap[h].free
      /\ prev \in D /\ heap[prev].next = h
      /\ \A k \in D : heap[k].next \in D
      /\ \A k \in D : heap[k].next = h => k = prev
  <2>1. h \in D \ {PoolTrailer} /\ ~heap[h].free
    BY <1>h
  <2>2. /\ \A k \in D : heap[k].next \in D /\ heap[k].prev \in D
        /\ \A k \in D : heap[heap[k].next].prev = k /\ heap[heap[k].prev].next = k
    BY <1>s, ShapeFacts
  <2> QED BY ONLY <2>1, <2>2, Zenon
<1>2. heap[h].free = ~TRUE
  <2>1. heap[h] \in Header
    BY <1>s, <1>1, ShapeFacts
  <2>2. heap[h].free \in BOOLEAN
    BY <2>1, Zenon DEF Header
  <2> QED BY <1>1, <2>2
<1>3. /\ Shape(F) /\ DOMAIN F = D /\ F[h].free
      /\ \A k \in D : F[k].next = heap[k].next
      /\ \A k \in D \ {h} : F[k] = heap[k]
  BY <1>s, <1>1, FreedShape
<1>4. FreeTotal(F) = FreeTotal(heap) + BlockSize(heap, h)
  BY <1>s, <1>1, <1>2, FreedTotal
<1>f. freed.heap = F /\ freed.avail = FreeTotal(F) /\ freed.search \in D
  BY <1>4, <1>h
<1> HIDE DEF F, freed, prev
(* After the block before has been looked at.                              *)
<1> DEFINE B == before.heap
<1>5. /\ Shape(B) /\ before.avail = FreeTotal(B) /\ before.search \in DOMAIN B
      /\ header \in DOMAIN B /\ B[header].free /\ OnePair(B, header)
      /\ DOMAIN B \subseteq D /\ (h \in DOMAIN B => header = h)
      /\ \A k \in DOMAIN B \ {header} : B[k].next = heap[k].next /\ B[k].free = heap[k].free
      /\ \A k \in DOMAIN held \ {h} : k \in DOMAIN B /\ k # header
  <2>1. CASE heap[prev].free
    <3>1. prev # h /\ F[prev].free /\ F[prev].next = h /\ prev \in DOMAIN F /\ h \in DOMAIN F
      BY <1>1, <1>3, <2>1
    <3> DEFINE J == Joined(F, prev, h)
    <3>2. header = prev /\ before = [heap |-> J, avail |-> freed.avail + Overhead, search |-> prev]
      BY <1>f, <2>1 DEF MergeBlocks
    <3>3. /\ Shape(J) /\ FreeTotal(J) = FreeTotal(F) + Overhead
          /\ DOMAIN J = D \ {h} /\ J[prev].free
          /\ \A k \in D \ {prev, h} : J[k].next = F[k].next /\ J[k].free = F[k].free
      BY <1>3, <3>1, Merged
    <3> HIDE DEF J, header, before
    <3>4. B = J /\ before.avail = FreeTotal(J) /\ before.search = prev
      BY <1>f, <3>2, <3>3
    <3>5. \A k \in D \ {prev, h} : J[k].next = heap[k].next /\ J[k].free = heap[k].free
      BY <1>3, <3>3
    <3>6. OnePair(J, prev)
      <4> SUFFICES ASSUME NEW k \in DOMAIN J, J[k].free, J[J[k].next].free, k # prev PROVE FALSE
        BY DEF OnePair
      <4>1. J[k].next \in DOMAIN J
        BY <3>3, ShapeFacts
      <4>2. J[k].next = heap[k].next /\ heap[k].free /\ k \in D /\ heap[k].next \in D \ {h}
        BY <3>3, <3>5, <4>1
      <4>3. heap[heap[k].next].free
        BY <2>1, <3>5, <4>2
      <4> QED BY <1>h, <4>2, <4>3 DEF NoPair
    <3>7. \A k \in DOMAIN held \ {h} : k \in DOMAIN J /\ k # prev
      BY <1>h, <2>1, <3>3
    <3> HIDE DEF B
    <3> QED BY <1>1, <3>1, <3>2, <3>3, <3>4, <3>5, <3>6, <3>7
  <2>2. CASE ~heap[prev].free
    <3>1. header = h /\ before = freed
      BY <2>2
    <3>2. OnePair(F, h)
      <4> SUFFICES ASSUME NEW k \in D, F[k].free, F[F[k].next].free, k # h PROVE FALSE
        BY <1>3 DEF OnePair
      <4>1. heap[k].free /\ heap[k].next \in D /\ F[heap[k].next].free
        BY <1>1, <1>3
      <4>2. heap[k].next # h
        BY <1>1, <2>2, <4>1
      <4> QED BY <1>3, <1>h, <4>1, <4>2 DEF NoPair
    <3>3. /\ \A k \in D \ {h} : F[k].next = heap[k].next /\ F[k].free = heap[k].free
          /\ \A k \in DOMAIN held \ {h} : k \in D /\ k # h
      BY <1>3, <1>h
    <3> HIDE DEF header, before
    <3>4. B = F
      BY <1>f, <3>1
    <3> HIDE DEF B
    <3> QED BY <1>1, <1>3, <1>f, <3>1, <3>2, <3>3, <3>4
  <2> QED BY <2>1, <2>2
<1> HIDE DEF before, header
<1>6. next \in DOMAIN B /\ next = B[header].next
  BY <1>5, ShapeFacts
(* After the block behind has been looked at.                              *)
<1> DEFINE A == after.heap
<1> HIDE DEF B
<1>7. /\ Shape(A) /\ after.avail = FreeTotal(A) /\ after.search \in DOMAIN A /\ NoPair(A)
      /\ DOMAIN A \subseteq D /\ (h \in DOMAIN A => header = h) /\ A[header].free
      /\ \A k \in DOMAIN A \ {header} : A[k].next = heap[k].next /\ A[k].free = heap[k].free
      /\ \A k \in DOMAIN held \ {h} : k \in DOMAIN A /\ k # header
  <2>1. CASE B[next].free
    <3> DEFINE J == Joined(B, header, next)
    <3>1. after = [heap |-> J, avail |-> before.avail + Overhead, search |-> header]
      BY <2>1 DEF MergeBlocks, B
    <3> HIDE DEF next
    <3>2. /\ Shape(J) /\ FreeTotal(J) = FreeTotal(B) + Overhead
          /\ DOMAIN J = DOMAIN B \ {next} /\ header # next /\ J[header].free
          /\ J[header].next = B[next].next /\ B[next].next # header
          /\ \A k \in DOMAIN B \ {header, next} : J[k].next = B[k].next /\ J[k].free = B[k].free
      BY <1>5, <1>6, <2>1, Merged
    <3> HIDE DEF J, after
    <3>3. A = J /\ after.avail = FreeTotal(J) /\ after.search = header
      BY <1>5, <3>1, <3>2
    <3>4. \A k \in DOMAIN J \ {header} : J[k].next = heap[k].next /\ J[k].free = heap[k].free
      BY <1>5, <3>2
    <3>5. NoPair(J)
      <4> SUFFICES ASSUME NEW k \in DOMAIN J, J[k].free, J[J[k].next].free PROVE FALSE
        BY DEF NoPair
      <4>1. J[k].next \in DOMAIN J
        BY <3>2, ShapeFacts
      <4>2. CASE k = header
        <5>1. B[next].next \in DOMAIN B /\ B[B[next].next].free
          BY <3>2, <4>1, <4>2
        <5> QED BY <1>5, <1>6, <2>1, <3>2, <5>1 DEF OnePair
      <4>3. CASE k # header
        <5>1. k \in DOMAIN B /\ B[k].free /\ B[k].next \in DOMAIN B /\ B[k].next = J[k].next
          BY <3>2, <4>1, <4>3
        <5>2. B[B[k].next].free
          BY <1>5, <3>2, <4>1, <5>1
        <5> QED BY <1>5, <4>3, <5>1, <5>2 DEF OnePair
      <4> QED BY <4>2, <4>3
    <3>6. \A k \in DOMAIN held \ {h} : k \in DOMAIN J /\ k # header
      BY <1>5, <1>h, <2>1, <3>2
    <3> HIDE DEF A
    <3> QED BY <1>5, <3>2, <3>3, <3>4, <3>5, <3>6
  <2>2. CASE ~B[next].free
    <3>1. after = before
      BY <2>2 DEF B
    <3>2. A = B /\ after.avail = before.avail /\ after.search = before.search
      BY <3>1 DEF B
    <3>3. NoPair(B)
      BY <1>5, <1>6, <2>2 DEF OnePair, NoPair
    <3> HIDE DEF A, after
    <3> QED BY <1>5, <3>2, <3>3
  <2> QED BY <2>1, <2>2
<1> HIDE DEF A, after
<1>8. /\ heap' = A /\ dm_available' = FreeTotal(A) /\ dm_search_ptr' \in DOMAIN A
      /\ DOMAIN held' = DOMAIN held \ {h} /\ \A k \in DOMAIN held \ {h} : held'[k] = held[k]
  BY <1>0, <1>7 DEF A
<1>9. DOMAIN held' = {k \in DOMAIN heap' \ {PoolTrailer} : ~heap'[k].free}
  BY <1>7, <1>8, <1>h
<1>10. ASSUME NEW k \in DOMAIN held'
       PROVE  held'[k] \in MemSizes /\ BlockSize(heap', k) >= held'[k]
  <2>1. BlockSize(heap', k) = BlockSize(heap, k)
    BY <1>7, <1>8 DEF BlockSize
  <2> QED BY <1>8, <1>h, <2>1
<1> QED BY <1>7, <1>8, <1>9, <1>10 DEF HeapInv, SearchLive

(* After any sequence of OSMMalloc, OSMCalloc and OSMFree the headers      *)
(* tile the pool, dm_search_ptr is on one of them, every task holds what   *)
(* it asked for, dm_available counts the free bytes, and OS_GetMem fails   *)
(* only when no free block is large enough: for every pool and header      *)
(* size and every set of requested sizes.                                  *)
THEOREM HeapCorrect == DmemSpec => []HeapSound
<1>1. HeapInv /\ [DmemNext]_heapVars => HeapInv'
  <2> SUFFICES ASSUME HeapInv, [DmemNext]_heapVars PROVE HeapInv'
    OBVIOUS
  <2>1. CASE OSMMalloc
    BY <2>1, GetMemStep DEF OSMMalloc
  <2>2. CASE OSMCalloc
    BY <2>2, GetMemStep DEF OSMCalloc
  <2>3. CASE OSMFree
    BY <2>3, FreeMemStep DEF OSMFree
  <2>4. CASE UNCHANGED heapVars
    BY <2>4 DEF heapVars, HeapInv, SearchLive, BlockSize
  <2> QED BY <2>1, <2>2, <2>3, <2>4 DEF DmemNext
<1> QED BY <1>1, HeapInvInit, HeapInvSound, PTL DEF DmemSpec
=============================================================================
