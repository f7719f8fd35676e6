----------------------------- MODULE LanServer -----------------------------
(***************************************************************************)
(* The LAN servers of System/network_adapter.c: TcpServerThread with its   *)
(* table lan_client of connected phones, and the creation of the UDP       *)
(* server's socket.  Both take descriptors from LwIP's socket table, which *)
(* they share with the cloud link, the NTP client and the DNS server.      *)
(*                                                                         *)
(* fd_set is a bit set without range checks: FD_ISSET(-1, p) and           *)
(* FD_CLR(-1, p) work on bit (-1 & 7), that is on descriptor 7, the last   *)
(* of the table.  FdAlias is that descriptor.                              *)
(***************************************************************************)
EXTENDS Integers, FiniteSets

CONSTANTS
  NumSockets,   \* NUM_SOCKETS
  MaxClients,   \* TCP_SERVER_CLIENT_MAX_NUM
  FdAlias,      \* the descriptor -1 stands for in an fd_set
  MinCount      \* bound: client_connect_count is not counted below -MinCount

ASSUME LanServerAssumption ==
  /\ NumSockets \in Nat \ {0}
  /\ MaxClients \in Nat \ {0}
  /\ FdAlias \in 0 .. NumSockets - 1
  /\ MinCount \in Nat

Fds   == 0 .. NumSockets - 1
Slots == 0 .. MaxClients - 1
NoFd  == -1

VARIABLES
  sockets,      \* use of every descriptor
  conn,         \* a client's peer: quiet, data or fin to be read, closed; or none
  backlog,      \* a connection waits to be accepted
  TCPServerFd,
  UDPServerFd,
  lan_client,   \* client_fd of every slot
  count,        \* client_connect_count
  max_sock,
  fdset,        \* what select() has left in the fd_set
  i,            \* slot the loop looks at
  new_fd,       \* descriptor returned by accept()
  pc            \* create, select, scan, accept, first, undefined

tcpVars == <<TCPServerFd, lan_client, count, max_sock, fdset, i, new_fd, pc>>
vars == <<sockets, conn, backlog, UDPServerFd, tcpVars>>

TypeOK ==
  /\ sockets \in [Fds -> {"free", "other", "listen", "client", "udp"}]
  /\ conn \in [Fds -> {"none", "quiet", "data", "fin", "closed"}]
  /\ backlog \in BOOLEAN
  /\ TCPServerFd \in Fds \cup {NoFd}
  /\ UDPServerFd \in Fds \cup {NoFd}
  /\ lan_client \in [Slots -> Fds \cup {NoFd}]
  /\ count \in -MinCount .. 0
  /\ max_sock \in Fds \cup {NoFd, NumSockets}
  /\ fdset \in SUBSET Fds
  /\ i \in 0 .. MaxClients
  /\ new_fd \in Fds \cup {NoFd}
  /\ pc \in {"create", "select", "scan", "accept", "first", "undefined"}

(* The tasks exist; other tasks may already have sockets.                  *)
Init ==
  /\ sockets \in [Fds -> {"free", "other"}]
  /\ conn = [f \in Fds |-> "none"]
  /\ backlog = FALSE
  /\ TCPServerFd = NoFd
  /\ UDPServerFd = NoFd
  /\ lan_client = [s \in Slots |-> 0]
  /\ count = 0
  /\ max_sock = NoFd
  /\ fdset = {}
  /\ i = 0
  /\ new_fd = NoFd
  /\ pc = "create"

(* alloc_socket takes the lowest free descriptor.                          *)
FreeFds == {f \in Fds : sockets[f] = "free"}
LowestFree == CHOOSE f \in FreeFds : \A g \in FreeFds : f <= g

-----------------------------------------------------------------------------
(* The UDP server's socket.                                                *)

(* if (UDPServerFd < 1): descriptor 0 counts as a failure ...              *)
UdpRejects(f) == f < 1

(* ... and is forgotten without close(); a failing bind() closes it.       *)
Socket_CreateUDPServer ==
  /\ UDPServerFd = NoFd
  /\ FreeFds # {}
  /\ \/ /\ sockets' = [sockets EXCEPT ![LowestFree] = "udp"]
        /\ UDPServerFd' = IF UdpRejects(LowestFree) THEN NoFd ELSE LowestFree
     \/ ~UdpRejects(LowestFree) /\ UNCHANGED <<sockets, UDPServerFd>>
  /\ UNCHANGED <<conn, backlog, tcpVars>>

-----------------------------------------------------------------------------
(* The TCP server.                                                         *)

(* socket(), bind() and listen(); a failure closes the socket, and the     *)
(* thread tries again.  Then Socket_TCPServerRecvData clears its table.    *)
Socket_CreateTCPServer ==
  /\ pc = "create"
  /\ FreeFds # {}
  /\ TCPServerFd' = LowestFree
  /\ sockets' = [sockets EXCEPT ![LowestFree] = "listen"]
  /\ lan_client' = [s \in Slots |-> NoFd]
  /\ max_sock' = LowestFree
  /\ pc' = "select"
  /\ UNCHANGED <<conn, backlog, UDPServerFd, count, fdset, i, new_fd>>

(* select(max_sock + 1, &fdset, NULL, NULL, NULL).  A peer's close is      *)
(* readable once.                                                          *)
Readable(f) ==
  \/ f = TCPServerFd /\ backlog
  \/ sockets[f] = "client" /\ conn[f] \in {"data", "fin"}

InTable(f) == \E s \in Slots : lan_client[s] = f

Ready == {f \in Fds : /\ f = TCPServerFd \/ InTable(f)
                      /\ f <= max_sock
                      /\ Readable(f)}

Select ==
  /\ pc = "select"
  /\ Ready # {}
  /\ fdset' = Ready
  /\ i' = 0
  /\ pc' = "scan"
  /\ UNCHANGED <<sockets, conn, backlog, UDPServerFd, TCPServerFd, lan_client, count,
                 max_sock, new_fd>>

(* FD_ISSET(lan_client[i].client_fd, &fdset), slots that are empty too.    *)
Bit(f) == IF f = NoFd THEN FdAlias ELSE f
IsSet == Bit(lan_client[i]) \in fdset

(* recv() on the slot's descriptor returns data.                           *)
HasData == lan_client[i] # NoFd /\ conn[lan_client[i]] = "data"

(* for (i = 0; i < TCP_SERVER_CLIENT_MAX_NUM; i++)                         *)
NextSlot ==
  /\ i' = i + 1
  /\ pc' = IF i + 1 = MaxClients THEN "accept" ELSE "scan"

ScanSkip ==
  /\ pc = "scan"
  /\ ~IsSet
  /\ NextSlot
  /\ UNCHANGED <<sockets, conn, backlog, UDPServerFd, TCPServerFd, lan_client, count,
                 max_sock, fdset, new_fd>>

(* Variant: the slot is freed although recv() returned data.               *)
ScanDataForgets ==
  /\ pc = "scan"
  /\ IsSet /\ HasData
  /\ lan_client' = [lan_client EXCEPT ![i] = NoFd]
  /\ NextSlot
  /\ UNCHANGED <<sockets, conn, backlog, UDPServerFd, TCPServerFd, count, max_sock, fdset,
                 new_fd>>

(* recv() > 0: the data is dispatched.                                     *)
ScanData ==
  /\ pc = "scan"
  /\ IsSet /\ HasData
  /\ conn' = [conn EXCEPT ![lan_client[i]] = "quiet"]
  /\ NextSlot
  /\ UNCHANGED <<sockets, backlog, UDPServerFd, TCPServerFd, lan_client, count, max_sock,
                 fdset, new_fd>>

(* recv() <= 0, on an empty slot as well: the slot is freed, the socket is *)
(* not closed.                                                             *)
ScanClosed ==
  /\ pc = "scan"
  /\ IsSet /\ ~HasData
  /\ count' = IF count > -MinCount THEN count - 1 ELSE count
  /\ fdset' = fdset \ {Bit(lan_client[i])}
  /\ conn' = IF lan_client[i] = NoFd THEN conn
             ELSE [conn EXCEPT ![lan_client[i]] = "closed"]
  /\ lan_client' = [lan_client EXCEPT ![i] = NoFd]
  /\ NextSlot
  /\ UNCHANGED <<sockets, backlog, UDPServerFd, TCPServerFd, max_sock, new_fd>>

(* No connection to accept, or no descriptor left for it.                  *)
AcceptNone ==
  /\ pc = "accept"
  /\ TCPServerFd \notin fdset \/ FreeFds = {}
  /\ backlog' = (backlog /\ TCPServerFd \notin fdset)
  /\ pc' = "select"
  /\ UNCHANGED <<sockets, conn, UDPServerFd, TCPServerFd, lan_client, count, max_sock,
                 fdset, i, new_fd>>

(* The first empty slot; MaxClients, past the end of the table, if none.   *)
Empty == {s \in Slots : lan_client[s] = NoFd}
EmptySlot ==
  IF Empty = {} THEN MaxClients ELSE CHOOSE s \in Empty : \A r \in Empty : s <= r

(* accept(), and the client gets a slot.  client_connect_count is never    *)
(* incremented, so that its comparison always succeeds; the write past the *)
(* end of the table may change any variable and is not followed further.   *)
Accept ==
  /\ pc = "accept"
  /\ TCPServerFd \in fdset /\ FreeFds # {}
  /\ count < MaxClients
  /\ backlog' = FALSE
  /\ new_fd' = LowestFree
  /\ sockets' = [sockets EXCEPT ![LowestFree] = "client"]
  /\ conn' = [conn EXCEPT ![LowestFree] = "quiet"]
  /\ max_sock' = IF max_sock < LowestFree + 1 THEN LowestFree + 1 ELSE max_sock
  /\ IF EmptySlot = MaxClients
     THEN pc' = "undefined" /\ UNCHANGED lan_client
     ELSE /\ lan_client' = [lan_client EXCEPT ![EmptySlot] = LowestFree]
          /\ pc' = "first"
  /\ UNCHANGED <<UDPServerFd, TCPServerFd, count, fdset, i>>

(* The blocking recv() for the client's first message.  A peer that closes *)
(* first is not taken out of the table.                                    *)
FirstRecv ==
  /\ pc = "first"
  /\ conn[new_fd] # "quiet"
  /\ conn' = [conn EXCEPT ![new_fd] = IF @ = "data" THEN "quiet" ELSE "closed"]
  /\ pc' = "select"
  /\ UNCHANGED <<sockets, backlog, UDPServerFd, TCPServerFd, lan_client, count, max_sock,
                 fdset, i, new_fd>>

TcpServerStep ==
  \/ Socket_CreateTCPServer \/ Select \/ ScanSkip \/ ScanData \/ ScanClosed
  \/ AcceptNone \/ Accept \/ FirstRecv

-----------------------------------------------------------------------------
(* Phones and the other users of sockets.                                  *)

PhoneConnects ==
  /\ TCPServerFd # NoFd /\ ~backlog
  /\ backlog' = TRUE
  /\ UNCHANGED <<sockets, conn, UDPServerFd, tcpVars>>

PhoneActs ==
  /\ \E f \in Fds : /\ conn[f] = "quiet"
                    /\ \E c \in {"data", "fin"} : conn' = [conn EXCEPT ![f] = c]
  /\ UNCHANGED <<sockets, backlog, UDPServerFd, tcpVars>>

OtherOpen ==
  /\ FreeFds # {}
  /\ sockets' = [sockets EXCEPT ![LowestFree] = "other"]
  /\ UNCHANGED <<conn, backlog, UDPServerFd, tcpVars>>

OtherClose ==
  /\ \E f \in Fds : /\ sockets[f] = "other"
                    /\ sockets' = [sockets EXCEPT ![f] = "free"]
  /\ UNCHANGED <<conn, backlog, UDPServerFd, tcpVars>>

Next ==
  \/ TcpServerStep \/ Socket_CreateUDPServer
  \/ PhoneConnects \/ PhoneActs \/ OtherOpen \/ OtherClose

Spec == Init /\ [][Next]_vars

(* Fairness: the thread runs when its call returns.                        *)
FairSpec == Spec /\ WF_vars(TcpServerStep)

-----------------------------------------------------------------------------
(* Properties.                                                             *)

(* A client whose connection is open has exactly one slot: accepting,      *)
(* closing and the alias of the empty slots never make the server lose a   *)
(* client or record it twice.  Nothing is said of the descriptor of a      *)
(* client that has gone: FreedWhenGone is about that.                      *)
KeepsClients ==
  pc # "undefined" =>
    \A f \in Fds : conn[f] \in {"quiet", "data", "fin"} =>
                     Cardinality({s \in Slots : lan_client[s] = f}) = 1

(* The test UDPServerFd < 1 costs at most descriptor 0: the UDP server     *)
(* never holds more than two sockets, however often it tries.              *)
UdpLosesOne == Cardinality({f \in Fds : sockets[f] = "udp"}) <= 2

(* The client table and the descriptors agree.                             *)
DescriptorsKept == KeepsClients /\ UdpLosesOne

(* The data of client f is eventually read, unless the server waits for    *)
(* the first message of another client or has left its table.              *)
Served(f) ==
  (InTable(f) /\ conn[f] = "data") ~> (conn[f] # "data" \/ pc \in {"first", "undefined"})

(* It holds for the descriptors that are not the alias of empty slots: the *)
(* loop for a slot that holds -1 takes the bit of descriptor FdAlias, and  *)
(* the client behind that one may wait for ever.                           *)
ReadableServed == \A f \in Fds \ {FdAlias} : Served(f)

(* "TCP server close client socket": when the server has reported that of  *)
(* every phone it ever accepted, its table is empty, and no other task has *)
(* a socket, there is a descriptor for the next phone.                     *)
FreedWhenGone ==
  pc # "create" /\ Empty = Slots /\ (\A f \in Fds : sockets[f] # "other") => FreeFds # {}

(* network_adapter.c: TCP_SERVER_CLIENT_MAX_NUM is the "LAN TCP server     *)
(* client connect count": no client is recorded past the end of the table. *)
TableLimit == pc # "undefined"
=============================================================================
