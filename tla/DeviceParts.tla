---------------------------- MODULE DeviceParts ----------------------------
(***************************************************************************)
(* The parts of the device that share no state, checked side by side: the  *)
(* first state chooses one of them, which then runs by itself.             *)
(***************************************************************************)
EXTENDS RingBuffer, OsDmem, EdpStream, DnsResolve, LinkServices, NtpClient

CONSTANT Parts

VARIABLE part

PartsInit ==
  /\ part \in Parts
  /\ RingInit /\ DmemInit /\ EdpInit /\ DnsInit /\ LinkInit /\ NtpInit
  /\ part # "ring" => buffer = [i \in Indices |-> CHOOSE b \in Byte : TRUE]

RingPart == part = "ring" /\ RingNext
            /\ UNCHANGED <<part, heapVars, edpVars, dnsVars, linkVars, ntpVars>>
DmemPart == part = "dmem" /\ DmemNext
            /\ UNCHANGED <<part, uartVars, edpVars, dnsVars, linkVars, ntpVars>>
EdpPart == part = "edp" /\ EdpNext
           /\ UNCHANGED <<part, uartVars, heapVars, dnsVars, linkVars, ntpVars>>
DnsPart == part = "dns" /\ DnsNext
           /\ UNCHANGED <<part, uartVars, heapVars, edpVars, linkVars, ntpVars>>
LinkPart == part = "link" /\ LinkNext
            /\ UNCHANGED <<part, uartVars, heapVars, edpVars, dnsVars, ntpVars>>
NtpPart == part = "ntp" /\ NtpNext
           /\ UNCHANGED <<part, uartVars, heapVars, edpVars, dnsVars, linkVars>>

PartsNext == RingPart \/ DmemPart \/ EdpPart \/ DnsPart \/ LinkPart \/ NtpPart

partsVars == <<part, uartVars, heapVars, edpVars, dnsVars, linkVars, ntpVars>>

(* The fairness of RingFairness, DnsFairness and LinkFairness, each for    *)
(* the behaviours in which its part runs.                                  *)
PartsFairness ==
  /\ SF_uartVars(part = "ring" /\ UartTask) /\ WF_uartVars(part = "ring" /\ UartTimer)
  /\ WF_dnsVars(part = "dns" /\ Asker) /\ WF_dnsVars(part = "dns" /\ dns_tmr)
  /\ SF_linkVars(part = "link" /\ TickExpires)
  /\ WF_linkVars(part = "link" /\ (TickHandle \/ TickRearm \/ DhcpAnswers
                                   \/ DnsFilters \/ GenReply \/ SendReply \/ DnsDone))

PartsSpec == PartsInit /\ [][PartsNext]_partsVars /\ PartsFairness

(* Every part's variables have their types.                                *)
PartsTypeOK ==
  /\ part \in Parts
  /\ RingTypeOK /\ DmemTypeOK /\ EdpTypeOK /\ DnsTypeOK /\ LinkTypeOK /\ NtpTypeOK

(* What must go on goes on: bytes in the serial ring reach the task        *)
(* (RingDrained), every question for a name ends in an answer or a failure *)
(* (AskingEnds), and the ticks of the DHCP server die out after the link   *)
(* is gone (TicksDie).                                                     *)
PartsProgress == RingDrained /\ AskingEnds /\ TicksDie
=============================================================================
