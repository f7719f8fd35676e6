----------------------------- MODULE DnsResolve -----------------------------
(***************************************************************************)
(* How the cloud task finds the server's address: NuAgent_GetHostByName of *)
(* System/network_adapter.c over the resolver of LwIP, core/dns.c.         *)
(*                                                                         *)
(* The cloud task calls dns_gethostbyname itself, outside the thread of    *)
(* the stack, which can run between any two of its steps: the timer of the *)
(* resolver, the answers and with them the callback NuAgent_ServerFound.   *)
(* A build asks for one name only.                                         *)
(***************************************************************************)
EXTENDS Integers, FiniteSets

CONSTANTS
  Addr,         \* addresses the DNS server may give, 0.0.0.0 apart
  NoAddr,       \* 0.0.0.0, as in domain_ipaddr before the first answer
  IPADDR_NONE,  \* 255.255.255.255, for dns_lookup no address
  TableSize,    \* DNS_TABLE_SIZE
  MaxRetries,   \* DNS_MAX_RETRIES
  Servers,      \* how many of DNS_MAX_SERVERS are configured
  SeqnoMod,       \* 2^8: dns_seqno is a byte
  MaxTtl,       \* DNS_MAX_TTL
  MaxSem        \* bound: value pdomainSem is counted up to

ASSUME DnsAssumption ==
  /\ NoAddr \notin Addr /\ "failed" \notin Addr \cup {NoAddr}
  /\ {TableSize, MaxRetries, Servers, SeqnoMod, MaxTtl, MaxSem} \subseteq Nat \ {0}

Slots == 0 .. TableSize - 1

VARIABLES
  dns_table,     \* the entries
  dns_seqno,
  domain_flag, domain_ipaddr,
  pdomainSem,
  asker,         \* where the cloud task is
  dnsSlot,       \* the entry dns_enqueue has chosen
  hostAddr,      \* what NuAgent_GetHostByName has returned; "failed" during a call
  openQueries,   \* the ids of queries the server may still answer
  missed         \* history: an answer did not reach domain_ipaddr, because its entry
                 \* was still being filled or because it was 0.0.0.0
dnsStack == <<dns_table, dns_seqno, openQueries, missed>>
dnsFound == <<domain_flag, domain_ipaddr>>
dnsVars == <<dnsStack, dnsFound, pdomainSem, asker, dnsSlot, hostAddr>>

(* tmr is a byte: from 0 it goes to 255, where it is left here since the   *)
(* cloud task, which then sets it, is never held up for 255 seconds.       *)
LongTmr == 255
Ticked(tmr) == IF tmr \in {0, LongTmr} THEN LongTmr ELSE tmr - 1

UnusedEntry == [state |-> "UNUSED", numdns |-> 0, tmr |-> 0, retries |-> 0, seqno |-> 0,
           ttl |-> 0, ipaddr |-> NoAddr, found |-> FALSE]

DnsTypeOK ==
  /\ dns_table \in [Slots -> [state : {"UNUSED", "NEW", "ASKING", "DONE"},
                              numdns : 0 .. Servers - 1, tmr : (0 .. MaxRetries) \cup {LongTmr},
                              retries : 0 .. MaxRetries, seqno : 0 .. SeqnoMod - 1,
                              ttl : 0 .. MaxTtl, ipaddr : Addr \cup {NoAddr},
                              found : BOOLEAN]]
  /\ dns_seqno \in 0 .. SeqnoMod - 1
  /\ domain_flag \in BOOLEAN /\ domain_ipaddr \in Addr \cup {NoAddr}
  /\ pdomainSem \in 0 .. MaxSem
  /\ asker \in {"idle", "new", "fill", "check", "start", "pend"}
  /\ dnsSlot \in Slots
  /\ hostAddr \in Addr \cup {NoAddr, "failed"}
  /\ openQueries \subseteq Slots /\ missed \in BOOLEAN

DnsInit ==
  /\ dns_table = [i \in Slots |-> UnusedEntry]
  /\ dns_seqno = 0
  /\ domain_flag = FALSE /\ domain_ipaddr = NoAddr
  /\ pdomainSem = 0
  /\ asker = "idle" /\ dnsSlot = 0 /\ hostAddr = "failed"
  /\ openQueries = {} /\ missed = FALSE

-----------------------------------------------------------------------------
(* NuAgent_ServerFound, called n times with the address a; NoAddr stands   *)
(* for a null pointer as well as for 0.0.0.0, which it treats alike.       *)
NuAgent_ServerFound(n, a) ==
  /\ pdomainSem' = IF pdomainSem + n > MaxSem THEN MaxSem ELSE pdomainSem + n
  /\ IF n = 0 THEN UNCHANGED dnsFound
     ELSE /\ domain_flag' = (a # NoAddr)
          /\ domain_ipaddr' = IF a # NoAddr THEN a ELSE domain_ipaddr

(* An entry without a question; its seqno, ttl and address are not read    *)
(* again.                                                                  *)
Flushed(e) ==
  [e EXCEPT !.state = "UNUSED", !.found = FALSE, !.seqno = 0, !.ttl = 0, !.ipaddr = NoAddr]

(* dns_check_entry on an entry that asks: the entry, whether it is given   *)
(* up, which calls its callback, and whether a query is sent.              *)
CheckOutcome(e, timeout, sends) == [entry |-> e, timeout |-> timeout, sends |-> sends]

CheckAsking(e) ==
  LET left == [e EXCEPT !.tmr = Ticked(@)]
  IN  IF left.tmr # 0 THEN CheckOutcome(left, FALSE, FALSE)
      ELSE IF e.retries + 1 = MaxRetries
      THEN IF e.numdns + 1 < Servers
           THEN CheckOutcome([left EXCEPT !.numdns = @ + 1, !.tmr = 1, !.retries = 0],
                        FALSE, FALSE)
           ELSE CheckOutcome(Flushed([left EXCEPT !.retries = @ + 1]), TRUE, FALSE)
      ELSE CheckOutcome([left EXCEPT !.retries = @ + 1, !.tmr = e.retries + 1], FALSE, TRUE)

(* A ttl of zero becomes 2^32 - 1, which is taken to be as long as MaxTtl. *)
CheckDone(e) ==
  CheckOutcome(IF e.ttl = 1 THEN Flushed(e)
          ELSE [e EXCEPT !.ttl = IF @ = 0 THEN MaxTtl ELSE @ - 1], FALSE, FALSE)

dns_check_entry(e) ==
  CASE e.state = "NEW" ->
         CheckOutcome([e EXCEPT !.state = "ASKING", !.numdns = 0, !.tmr = 1, !.retries = 0],
                 FALSE, TRUE)
    [] e.state = "ASKING" -> CheckAsking(e)
    [] e.state = "DONE"   -> CheckDone(e)
    [] OTHER -> CheckOutcome(e, FALSE, FALSE)

(* The resolver's timer, in the thread of the stack.  A query may get lost *)
(* on the way out.                                                         *)
dns_tmr ==
  LET o == [i \in Slots |-> dns_check_entry(dns_table[i])]
      called == {i \in Slots : o[i].timeout /\ dns_table[i].found}
      lost == {i \in Slots : o[i].timeout /\ ~dns_table[i].found}
  IN  /\ dns_table' = [i \in Slots |-> o[i].entry]
      /\ NuAgent_ServerFound(Cardinality(called), NoAddr)
      /\ \E s \in SUBSET {i \in Slots : o[i].sends} : openQueries' = openQueries \cup s
      /\ missed' = (missed \/ lost # {})
      /\ UNCHANGED <<dns_seqno, asker, dnsSlot, hostAddr>>

(* dns_recv: an answer to entry i.  An error, a question that does not     *)
(* match or no usable record flushes the entry; the answer may be one of   *)
(* two copies.                                                             *)
DnsAnswerError(i) ==
  /\ dns_table' = [dns_table EXCEPT ![i] = Flushed(@)]
  /\ NuAgent_ServerFound(IF dns_table[i].found THEN 1 ELSE 0, NoAddr)
  /\ missed' = (missed \/ ~dns_table[i].found)

DnsAnswer(i, a, ttl) ==
  /\ dns_table' = [dns_table EXCEPT ![i].state = "DONE", ![i].ttl = ttl,
                                    ![i].ipaddr = a]
  /\ NuAgent_ServerFound(IF dns_table[i].found THEN 1 ELSE 0, a)
  /\ missed' = (missed \/ ~dns_table[i].found \/ a = NoAddr)

dns_recv ==
  \E i \in openQueries :
    /\ openQueries' \in {openQueries, openQueries \ {i}}
    /\ IF dns_table[i].state = "ASKING"
       THEN \/ DnsAnswerError(i)
            \/ \E a \in Addr \cup {NoAddr}, ttl \in 0 .. MaxTtl : DnsAnswer(i, a, ttl)
       ELSE UNCHANGED <<dns_table, dnsFound, pdomainSem, missed>>
    /\ UNCHANGED <<dns_seqno, asker, dnsSlot, hostAddr>>

-----------------------------------------------------------------------------
(* NuAgent_GetHostByName, in the cloud task.                               *)

(* dns_enqueue's search: the first unused entry, else the completed one    *)
(* with the largest distance to dns_seqno, which is not positive once the  *)
(* number has wrapped; entry 0 if none is.                                 *)
Oldest ==
  LET done == {i \in Slots : dns_table[i].state = "DONE" /\ dns_seqno > dns_table[i].seqno}
  IN  IF done = {} THEN 0
      ELSE CHOOSE i \in done : \A j \in done :
             \/ dns_table[j].seqno > dns_table[i].seqno
             \/ dns_table[j].seqno = dns_table[i].seqno /\ i <= j

FreeSlots == {i \in Slots : dns_table[i].state = "UNUSED"}

ChosenSlot == IF FreeSlots # {} THEN CHOOSE i \in FreeSlots : \A j \in FreeSlots : i <= j ELSE Oldest

(* What the stack has for the name: the address of the first completed     *)
(* entry, or IPADDR_NONE, which an entry may hold as well.                 *)
Completed == {i \in Slots : dns_table[i].state = "DONE"}
dns_lookup ==
  IF Completed = {} THEN IPADDR_NONE
  ELSE dns_table[CHOOSE i \in Completed : \A j \in Completed : i <= j].ipaddr

Cached == dns_lookup # IPADDR_NONE

(* Variant: an address in the cache is taken whatever the table holds.     *)
LookupFresh ==
  /\ asker = "idle"
  /\ hostAddr' = domain_ipaddr
  /\ UNCHANGED <<dnsStack, dnsFound, pdomainSem, asker, dnsSlot>>

(* ERR_OK: the address returned is that of the last callback, not the one  *)
(* the resolver found.                                                     *)
LookupCached ==
  /\ asker = "idle" /\ Cached
  /\ hostAddr' = domain_ipaddr
  /\ UNCHANGED <<dnsStack, dnsFound, pdomainSem, asker, dnsSlot>>

TableFull ==
  /\ asker = "idle" /\ ~Cached
  /\ FreeSlots = {} /\ dns_table[Oldest].state # "DONE"
  /\ hostAddr' = "failed"
  /\ UNCHANGED <<dnsStack, dnsFound, pdomainSem, asker, dnsSlot>>

ChooseSlot ==
  /\ asker = "idle" /\ ~Cached
  /\ FreeSlots # {} \/ dns_table[Oldest].state = "DONE"
  /\ dnsSlot' = ChosenSlot
  /\ asker' = "new"
  /\ hostAddr' = "failed"
  /\ UNCHANGED <<dnsStack, dnsFound, pdomainSem>>

(* The old address is not read again.                                      *)
SetNew ==
  /\ asker = "new"
  /\ dns_table' = [dns_table EXCEPT ![dnsSlot].state = "NEW", ![dnsSlot].ipaddr = NoAddr]
  /\ asker' = "fill"
  /\ UNCHANGED <<dns_seqno, openQueries, missed, dnsFound, pdomainSem, dnsSlot, hostAddr>>

FillSlot ==
  /\ asker = "fill"
  /\ dns_table' = [dns_table EXCEPT ![dnsSlot].seqno = dns_seqno, ![dnsSlot].found = TRUE]
  /\ dns_seqno' = (dns_seqno + 1) % SeqnoMod
  /\ asker' = "check"
  /\ UNCHANGED <<openQueries, missed, dnsFound, pdomainSem, dnsSlot, hostAddr>>

(* dns_check_entry(i) on the new entry: its state, then the rest.          *)
CheckNew ==
  /\ asker = "check" /\ dns_table[dnsSlot].state = "NEW"
  /\ dns_table' = [dns_table EXCEPT ![dnsSlot].state = "ASKING"]
  /\ asker' = "start"
  /\ UNCHANGED <<dns_seqno, openQueries, missed, dnsFound, pdomainSem, dnsSlot, hostAddr>>

StartAsking ==
  /\ asker = "start"
  /\ dns_table' = [dns_table EXCEPT ![dnsSlot].numdns = 0, ![dnsSlot].tmr = 1,
                                    ![dnsSlot].retries = 0]
  /\ openQueries' \in {openQueries, openQueries \cup {dnsSlot}}
  /\ asker' = "pend"
  /\ UNCHANGED <<dns_seqno, missed, dnsFound, pdomainSem, dnsSlot, hostAddr>>

(* The stack's thread was faster: the entry is not new any more.           *)
CheckOther ==
  /\ asker = "check" /\ dns_table[dnsSlot].state # "NEW"
  /\ LET o == dns_check_entry(dns_table[dnsSlot])
     IN  /\ dns_table' = [dns_table EXCEPT ![dnsSlot] = o.entry]
         /\ NuAgent_ServerFound(IF o.timeout THEN 1 ELSE 0, NoAddr)
         /\ openQueries' \in {openQueries, IF o.sends THEN openQueries \cup {dnsSlot} ELSE openQueries}
  /\ asker' = "pend"
  /\ UNCHANGED <<dns_seqno, missed, dnsSlot, hostAddr>>

(* OSSemPend, its result ignored: the callback, or 100 ms are over.  Then  *)
(* domain_flag is looked at.                                               *)
WaitFound ==
  /\ asker = "pend"
  /\ pdomainSem' \in {pdomainSem, pdomainSem - 1} \cap Nat
  /\ hostAddr' = IF domain_flag THEN domain_ipaddr ELSE "failed"
  /\ asker' = "idle"
  /\ UNCHANGED <<dnsStack, dnsFound, dnsSlot>>

Asker == LookupCached \/ TableFull \/ ChooseSlot \/ SetNew \/ FillSlot \/ CheckNew
         \/ StartAsking \/ CheckOther \/ WaitFound

DnsNext == Asker \/ dns_tmr \/ dns_recv

DnsSpec == DnsInit /\ [][DnsNext]_dnsVars
DnsFairness == WF_dnsVars(Asker) /\ WF_dnsVars(dns_tmr)
DnsFairSpec == DnsSpec /\ DnsFairness

-----------------------------------------------------------------------------
(* Properties.                                                             *)

(* NuAgent_GetHostByName returns an address only after the server has      *)
(* given one, also when it answers from the cache: a question that was     *)
(* given up, refused or evicted never counts as one.  Excepted are runs in *)
(* which an answer did not reach domain_ipaddr: it was 0.0.0.0, or came    *)
(* before the callback was stored.  A later question is then answered with *)
(* what domain_ipaddr held before.                                         *)
AddressGiven == missed \/ hostAddr # NoAddr

(* No entry asks for ever: retries and servers run out.  Otherwise the     *)
(* table fills with questions and no name can be resolved any more.        *)
AskingEnds == \A i \in Slots : dns_table[i].state = "ASKING"
                                 ~> dns_table[i].state # "ASKING"
=============================================================================
