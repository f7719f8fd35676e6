---------------------------- MODULE SocketSteps ----------------------------
(***************************************************************************)
(* Proofs about the sockets of the application tasks, first part: the      *)
(* inductive invariant SockInv, and that it is kept by what the thread of  *)
(* the stack does for a netconn (recv_tcp, sent_tcp, poll_tcp, err_tcp and *)
(* the like) and by the calls bind() to recv() on a descriptor.            *)
(*                                                                         *)
(* The invariant is stated of explicit states, s of the stack and w of the *)
(* tasks, because a call goes through several states of its netconn in one *)
(* step.                                                                   *)
(***************************************************************************)
EXTENDS SocketApi, Extrema, FiniteSetTheorems, SequenceTheorems, TLAPS

Pcbs == {"none", "new", "syn", "est", "wait", "listen", "udp", "bound"}
Busy == {"WRITE", "CLOSE", "CONNECT"}
Wants == {<<{}, {}>>} \cup FdSets

ConnRec ==
  [used : BOOLEAN, type : {"tcp", "udp"}, pcb : Pcbs, state : Busy \cup {"NONE", "LISTEN"},
   socket : Int, recvOk : BOOLEAN, recvmbox : Seq({"data", "null"}), acceptOk : BOOLEAN,
   acceptmbox : Seq(Conn), fatal : BOOLEAN, snd : 0 .. SndBuf, left : Nat,
   msg : User \cup {NoUser}, done : Nat]

SockRec ==
  [conn : Conn \cup {NoFd}, rcvevent : Int, sendevent : {0, 1}, waiting : Int, last : BOOLEAN]

NetRec ==
  [conn : [Conn -> ConnRec], sock : [Fd -> SockRec], list : Seq(User), moved : SUBSET User,
   want : [User -> Wants], sig : SUBSET User, ans : [User -> {"unset", "ok", "err", "fatal"}]]

UserRec ==
  [pc : {"idle", "await", "back", "fetch", "event", "look", "copy", "settle", "free",
         "add", "count", "scan", "wait", "uncount", "remove"},
   op : {"none", "socket", "bind", "connect", "listen", "send", "close", "accept", "recv", "select"},
   fn : {"none", "new", "bind", "connect", "listen", "write", "send", "delconn", "recved", "recv", "peer"},
   fd : Fd \cup {NoFd}, conn : Conn \cup {NoFd}, new : Fd \cup {NoFd}, off : BOOLEAN,
   got : {"none", "data", "null"}, scb : User \cup {NoUser}, todo : SUBSET Fd, ready : BOOLEAN]

Bounds(n) ==
  Len(n.recvmbox) <= RecvMbox /\ Len(n.acceptmbox) <= AcceptMbox /\ n.socket < NumConn

-----------------------------------------------------------------------------
(* What a step on one netconn leaves alone.                                *)

(* What rcvevent of the netconn's descriptor is, or will be.               *)
Raw(s, c) ==
  IF s.conn[c].socket < 0 THEN -1 - s.conn[c].socket ELSE s.sock[s.conn[c].socket].rcvevent

(* From state s to e only netconn c and the counters of its descriptor     *)
(* change, and every select() that now has what it asks for is signalled.  *)
Touch(s, e, c) ==
  /\ e \in NetRec /\ e.list = s.list /\ e.moved = s.moved /\ e.want = s.want
  /\ \A d \in Conn : d # c => e.conn[d] = s.conn[d]
  /\ s.conn[c].socket < 0 => e.conn[c].socket <= s.conn[c].socket
  /\ s.conn[c].socket >= 0 => e.conn[c].socket = s.conn[c].socket
  /\ \A f \in Fd : /\ e.sock[f].conn = s.sock[f].conn
                   /\ e.sock[f].waiting = s.sock[f].waiting
                   /\ e.sock[f].last = s.sock[f].last
  /\ \A f \in Fd : f # s.conn[c].socket => e.sock[f] = s.sock[f]
  /\ s.sig \subseteq e.sig
  /\ \A f \in Fd : \A t \in Listed(s) :
       s.sock[f].waiting # 0 /\ Asks(e, t, f) => Asks(s, t, f) \/ t \in e.sig

(* The counters of the descriptor, too, are those of s.                    *)
SameCounts(s, e, c) ==
  /\ Raw(e, c) = Raw(s, c)
  /\ s.conn[c].socket >= 0 =>
       e.sock[s.conn[c].socket].sendevent = s.sock[s.conn[c].socket].sendevent

(* The fields of a state.                                                  *)
LEMMA NetFields ==
  ASSUME NEW s \in NetRec
  PROVE  /\ s.conn \in [Conn -> ConnRec] /\ s.sock \in [Fd -> SockRec] /\ s.list \in Seq(User)
         /\ s.moved \subseteq User /\ s.want \in [User -> Wants] /\ s.sig \subseteq User
         /\ s.ans \in [User -> {"unset", "ok", "err", "fatal"}]
BY Zenon DEF NetRec

(* The fields of a netconn.                                                *)
LEMMA ConnFields ==
  ASSUME NEW n \in ConnRec
  PROVE  /\ n.used \in BOOLEAN /\ n.type \in {"tcp", "udp"} /\ n.pcb \in Pcbs
         /\ n.state \in Busy \cup {"NONE", "LISTEN"} /\ n.socket \in Int
         /\ n.recvOk \in BOOLEAN /\ n.recvmbox \in Seq({"data", "null"})
         /\ n.acceptOk \in BOOLEAN /\ n.acceptmbox \in Seq(Conn) /\ n.fatal \in BOOLEAN
         /\ n.snd \in 0 .. SndBuf /\ n.left \in Nat /\ n.msg \in User \cup {NoUser}
         /\ n.done \in Nat
BY Zenon DEF ConnRec

(* The fields of a descriptor.                                             *)
LEMMA SockFields ==
  ASSUME NEW k \in SockRec
  PROVE  /\ k.conn \in Conn \cup {NoFd} /\ k.rcvevent \in Int /\ k.sendevent \in {0, 1}
         /\ k.waiting \in Int /\ k.last \in BOOLEAN
BY Zenon DEF SockRec

(* Two steps on one netconn make one.                                      *)
LEMMA TouchTrans ==
  ASSUME NEW s \in NetRec, NEW e, NEW g, NEW c \in Conn, Touch(s, e, c), Touch(e, g, c)
  PROVE  Touch(s, g, c)
<1>1. Listed(e) = Listed(s)
  BY DEF Touch, Listed
<1>2. /\ s.conn[c].socket \in Int /\ e.conn[c].socket \in Int /\ g.conn[c].socket \in Int
      /\ e \in NetRec /\ g \in NetRec
  BY NetFields, ConnFields DEF Touch
<1>3. /\ s.conn[c].socket < 0 => g.conn[c].socket <= s.conn[c].socket
      /\ s.conn[c].socket >= 0 => g.conn[c].socket = s.conn[c].socket
  BY <1>2 DEF Touch
<1>4. \A f \in Fd : f # s.conn[c].socket => g.sock[f] = s.sock[f]
  BY <1>2, SocketAssumption DEF Touch, Fd
<1>5. \A f \in Fd : \A t \in Listed(s) :
         s.sock[f].waiting # 0 /\ Asks(g, t, f) => Asks(s, t, f) \/ t \in g.sig
  BY <1>1 DEF Touch
<1>6. /\ g.list = s.list /\ g.moved = s.moved /\ g.want = s.want
      /\ \A d \in Conn : d # c => g.conn[d] = s.conn[d]
      /\ s.sig \subseteq g.sig
      /\ \A f \in Fd : /\ g.sock[f].conn = s.sock[f].conn
                       /\ g.sock[f].waiting = s.sock[f].waiting
                       /\ g.sock[f].last = s.sock[f].last
  BY DEF Touch
<1> QED BY <1>2, <1>3, <1>4, <1>5, <1>6 DEF Touch

(* The same of the counters.                                               *)
LEMMA CountsTrans ==
  ASSUME NEW s \in NetRec, NEW e, NEW g, NEW c \in Conn, Touch(s, e, c),
         SameCounts(s, e, c), SameCounts(e, g, c)
  PROVE  SameCounts(s, g, c)
BY Zenon DEF Touch, SameCounts

(* A netconn c of state s replaced by n, and an answer to a task.          *)
PutConn(s, c, n) == [s EXCEPT !.conn[c] = n]
PutAns(s, t, r) == [s EXCEPT !.ans[t] = r]

(* From s to e only netconn c changes, and is n.                           *)
OnlyConn(s, e, c, n) ==
  /\ e \in NetRec /\ e.conn = [s.conn EXCEPT ![c] = n]
  /\ e.conn[c] = n /\ \A d \in Conn : d # c => e.conn[d] = s.conn[d]
  /\ e.sock = s.sock /\ e.list = s.list /\ e.moved = s.moved
  /\ e.want = s.want /\ e.sig = s.sig /\ e.ans = s.ans

(* From s to e only the answers change, and are a.                         *)
OnlyAns(s, e, a) ==
  /\ e \in NetRec /\ e.ans = a
  /\ e.sock = s.sock /\ e.list = s.list /\ e.moved = s.moved
  /\ e.want = s.want /\ e.sig = s.sig /\ e.conn = s.conn

(* A netconn of the pool is replaced: nothing else of the stack changes.   *)
LEMMA PutConnFields ==
  ASSUME NEW s \in NetRec, NEW c \in Conn, NEW n \in ConnRec
  PROVE  OnlyConn(s, PutConn(s, c, n), c, n)
BY Zenon DEF PutConn, NetRec, OnlyConn

(* TCPIP_APIMSG_ACK sets err of one message: nothing else of the stack     *)
(* changes.                                                                *)
LEMMA PutAnsFields ==
  ASSUME NEW s \in NetRec, NEW t \in User, NEW r \in {"unset", "ok", "err", "fatal"}
  PROVE  OnlyAns(s, PutAns(s, t, r), [s.ans EXCEPT ![t] = r])
BY Zenon DEF PutAns, NetRec, OnlyAns

(* Whether a select() has what it asks for is told by sock and want.       *)
LEMMA AsksSame ==
  ASSUME NEW s, NEW e, NEW t, NEW f, e.sock[f] = s.sock[f], e.want = s.want
  PROVE  Asks(e, t, f) <=> Asks(s, t, f)
BY DEF Asks

(* A netconn that keeps its descriptor may change without an event.        *)
LEMMA PutConnTouch ==
  ASSUME NEW s \in NetRec, NEW c \in Conn, NEW n \in ConnRec, n.socket = s.conn[c].socket
  PROVE  Touch(s, PutConn(s, c, n), c) /\ SameCounts(s, PutConn(s, c, n), c)
<1> DEFINE e == PutConn(s, c, n)
<1>0. OnlyConn(s, e, c, n)
  BY PutConnFields
<1> HIDE DEF e
<1>1. /\ e \in NetRec
      /\ e.conn[c] = n /\ \A d \in Conn : d # c => e.conn[d] = s.conn[d]
      /\ e.sock = s.sock /\ e.list = s.list /\ e.moved = s.moved
      /\ e.want = s.want /\ e.sig = s.sig /\ e.ans = s.ans
  BY <1>0 DEF OnlyConn
<1>2. n.socket \in Int
  BY ConnFields
<1>5. \A f, v : Asks(e, v, f) <=> Asks(s, v, f)
  BY <1>1 DEF Asks
<1>3. Touch(s, e, c)
  BY <1>1, <1>2, <1>5 DEF Touch
<1>4. SameCounts(s, e, c)
  BY <1>1 DEF SameCounts, Raw
<1> QED BY <1>3, <1>4 DEF e

(* An answer touches no netconn.                                           *)
LEMMA PutAnsTouch ==
  ASSUME NEW s \in NetRec, NEW c \in Conn, NEW t \in User,
         NEW r \in {"unset", "ok", "err", "fatal"}
  PROVE  Touch(s, PutAns(s, t, r), c) /\ SameCounts(s, PutAns(s, t, r), c)
<1> DEFINE e == PutAns(s, t, r)
<1>0. OnlyAns(s, e, [s.ans EXCEPT ![t] = r])
  BY PutAnsFields, Zenon
<1> HIDE DEF e
<1>1. /\ e \in NetRec /\ e.conn = s.conn
      /\ e.sock = s.sock /\ e.list = s.list /\ e.moved = s.moved
      /\ e.want = s.want /\ e.sig = s.sig
  BY <1>0 DEF OnlyAns
<1>2. s.conn[c].socket \in Int
  BY NetFields, ConnFields
<1>5. \A f, v : Asks(e, v, f) <=> Asks(s, v, f)
  BY <1>1 DEF Asks
<1>3. Touch(s, e, c)
  BY <1>1, <1>2, <1>5 DEF Touch
<1>4. SameCounts(s, e, c)
  BY <1>1 DEF SameCounts, Raw
<1> QED BY <1>3, <1>4 DEF e

-----------------------------------------------------------------------------
(* event_callback *)

Events == {"RCVPLUS", "RCVMINUS", "SENDPLUS", "SENDMINUS"}

(* The counters of descriptor fd after an event.                           *)
CountedSock(k, evt) ==
  [k EXCEPT !.rcvevent = CASE evt = "RCVPLUS" -> @ + 1
                           [] evt = "RCVMINUS" -> @ - 1
                           [] OTHER -> @,
            !.sendevent = CASE evt = "SENDPLUS" -> 1
                            [] evt = "SENDMINUS" -> 0
                            [] OTHER -> @]

(* What an event does to one descriptor.                                   *)
LEMMA CountedSockFields ==
  ASSUME NEW k \in SockRec, NEW evt \in Events
  PROVE  LET j == CountedSock(k, evt)
         IN  /\ j \in SockRec /\ j.conn = k.conn /\ j.waiting = k.waiting /\ j.last = k.last
             /\ evt = "RCVPLUS" => j.rcvevent = k.rcvevent + 1
             /\ evt = "RCVMINUS" => j.rcvevent = k.rcvevent - 1
             /\ evt \in {"SENDPLUS", "SENDMINUS"} => j.rcvevent = k.rcvevent
             /\ evt = "SENDPLUS" => j.sendevent = 1
             /\ evt = "SENDMINUS" => j.sendevent = 0
             /\ evt \in {"RCVPLUS", "RCVMINUS"} => j.sendevent = k.sendevent
<1>1. k.rcvevent + 1 \in Int /\ k.rcvevent - 1 \in Int /\ k.rcvevent \in Int /\ k.sendevent \in {0, 1}
  BY SockFields
<1>2. CASE evt = "RCVPLUS"
  BY <1>1, <1>2, Zenon DEF CountedSock, SockRec
<1>3. CASE evt = "RCVMINUS"
  BY <1>1, <1>3, Zenon DEF CountedSock, SockRec
<1>4. CASE evt = "SENDPLUS"
  BY <1>1, <1>4, Zenon DEF CountedSock, SockRec
<1>5. CASE evt = "SENDMINUS"
  BY <1>1, <1>5, Zenon DEF CountedSock, SockRec
<1> QED BY <1>2, <1>3, <1>4, <1>5 DEF Events

(* event_callback counts on one entry of sockets[] only.                   *)
LEMMA CountedFields ==
  ASSUME NEW s \in NetRec, NEW fd \in Fd, NEW evt \in Events
  PROVE  LET e == Counted(s, fd, evt)
         IN  /\ e \in NetRec /\ e.conn = s.conn /\ e.list = s.list /\ e.moved = s.moved
             /\ e.want = s.want /\ e.sig = s.sig /\ e.ans = s.ans
             /\ e.sock[fd] = CountedSock(s.sock[fd], evt)
             /\ \A f \in Fd : f # fd => e.sock[f] = s.sock[f]
<1>1. s.sock[fd] \in SockRec
  BY NetFields
<1>2. CountedSock(s.sock[fd], evt) \in SockRec
  BY <1>1, CountedSockFields
<1>3. Counted(s, fd, evt) = [s EXCEPT !.sock[fd] = CountedSock(s.sock[fd], evt)]
  BY Zenon DEF Counted, CountedSock, NetRec
<1> DEFINE j == CountedSock(s.sock[fd], evt)
           e == [s EXCEPT !.sock[fd] = j]
<1> HIDE DEF j
<1>4. j \in SockRec
  BY <1>2 DEF j
<1>5. e \in NetRec
  BY <1>4, Zenon DEF NetRec
<1>6. /\ e.conn = s.conn /\ e.list = s.list /\ e.moved = s.moved
      /\ e.want = s.want /\ e.sig = s.sig /\ e.ans = s.ans
      /\ e.sock[fd] = j /\ \A f \in Fd : f # fd => e.sock[f] = s.sock[f]
  BY DEF NetRec
<1>7. Counted(s, fd, evt) = e
  BY <1>3 DEF j
<1> HIDE DEF e
<1> QED BY <1>5, <1>6, <1>7 DEF j

(* From s to e the stack has told event evt of netconn c.                  *)
Told(s, e, c, evt) ==
  /\ Touch(s, e, c)
  /\ e.conn[c] = [s.conn[c] EXCEPT !.socket = e.conn[c].socket] /\ e.ans = s.ans
  /\ evt = "RCVPLUS" => Raw(e, c) = Raw(s, c) + 1
  /\ evt # "RCVPLUS" => Raw(e, c) = Raw(s, c)
  /\ s.conn[c].socket >= 0 =>
       e.sock[s.conn[c].socket].sendevent =
         IF evt = "SENDPLUS" THEN 1 ELSE IF evt = "SENDMINUS" THEN 0
         ELSE s.sock[s.conn[c].socket].sendevent

(* From s to e only more tasks are signalled, those of gs.                 *)
OnlySig(s, e, gs) ==
  /\ e \in NetRec /\ e.conn = s.conn /\ e.list = s.list /\ e.moved = s.moved
  /\ e.want = s.want /\ e.sock = s.sock /\ e.ans = s.ans
  /\ e.sig = s.sig \cup gs

(* The tasks that are signalled.                                           *)
LEMMA SignalledFields ==
  ASSUME NEW s \in NetRec, NEW ts \in SUBSET User, NEW fd \in Fd
  PROVE  OnlySig(s, Signalled(s, ts, fd), {t \in ts : Asks(s, t, fd)})
BY Zenon DEF Signalled, NetRec, OnlySig

(* The entries of the list are tasks.                                      *)
LEMMA ListedTasks ==
  ASSUME NEW s \in NetRec
  PROVE  Listed(s) \subseteq User
BY NetFields DEF Listed

(* A record with its own field put back is the same record.                *)
LEMMA SocketAgain ==
  ASSUME NEW n \in ConnRec
  PROVE  n = [n EXCEPT !.socket = n.socket]
BY Zenon DEF ConnRec

(* An event of a netconn that has no descriptor yet.                       *)
LEMMA EventEarly ==
  ASSUME NEW s \in NetRec, NEW c \in Conn, s.conn[c].socket < 0,
         NEW evt \in {"RCVPLUS", "SENDPLUS", "SENDMINUS"}
  PROVE  Told(s, event_callback(s, c, evt), c, evt)
<1> DEFINE n == s.conn[c]
           m == [n EXCEPT !.socket = n.socket - 1]
<1>1. n \in ConnRec /\ n.socket \in Int /\ n.socket - 1 \in Int
  BY NetFields, ConnFields
<1>2. m \in ConnRec /\ m.socket = n.socket - 1
  BY <1>1, Zenon DEF ConnRec
<1>3. CASE evt = "RCVPLUS"
  <2> DEFINE e == PutConn(s, c, m)
  <2>1. event_callback(s, c, evt) = e
    BY <1>3 DEF event_callback, PutConn, NetRec
  <2>2. OnlyConn(s, e, c, m)
    BY <1>2, PutConnFields
  <2> HIDE DEF e, m
  <2>3. \A f, v : Asks(e, v, f) <=> Asks(s, v, f)
    BY <2>2 DEF OnlyConn, Asks
  <2>4. e \in NetRec /\ e.conn[c] = m
    BY <2>2 DEF OnlyConn
  <2>5. Touch(s, e, c)
    BY <1>1, <1>2, <2>2, <2>3 DEF Touch, OnlyConn
  <2>6. Raw(e, c) = Raw(s, c) + 1
    BY <1>1, <1>2, <2>4 DEF Raw
  <2>7. e.conn[c] = [s.conn[c] EXCEPT !.socket = e.conn[c].socket] /\ e.ans = s.ans
    BY <1>2, <2>2, <2>4 DEF OnlyConn, m
  <2> QED BY <1>1, <1>3, <2>1, <2>5, <2>6, <2>7 DEF Told
<1>4. CASE evt # "RCVPLUS"
  <2>1. event_callback(s, c, evt) = s
    BY <1>4 DEF event_callback
  <2>2. Touch(s, s, c)
    BY <1>1 DEF Touch
  <2>3. s.conn[c] = [s.conn[c] EXCEPT !.socket = s.conn[c].socket]
    BY <1>1, SocketAgain
  <2> QED BY <1>1, <1>4, <2>1, <2>2, <2>3 DEF Told
<1> QED BY <1>3, <1>4

(* An event of a netconn that has a descriptor.                            *)
LEMMA EventLate ==
  ASSUME NEW s \in NetRec, NEW c \in Conn, s.conn[c].socket \in Fd,
         s.sock[s.conn[c].socket].conn # NoFd,
         NEW evt \in {"RCVPLUS", "SENDPLUS", "SENDMINUS"}
  PROVE  Told(s, event_callback(s, c, evt), c, evt)
<1> DEFINE fd == s.conn[c].socket
           e == Counted(s, fd, evt)
           g == event_callback(s, c, evt)
<1>0. evt \in Events /\ fd \in Fd /\ fd >= 0 /\ ~(fd < 0) /\ fd \in Int
  BY SocketAssumption DEF Events, Fd
<1>1. s.conn[c] \in ConnRec /\ s.sock[fd] \in SockRec
  BY <1>0, NetFields
<1> DEFINE j == CountedSock(s.sock[fd], evt)
<1>2. /\ e \in NetRec /\ e.conn = s.conn /\ e.list = s.list /\ e.moved = s.moved
      /\ e.want = s.want /\ e.sig = s.sig /\ e.ans = s.ans
      /\ e.sock[fd] = j /\ \A f \in Fd : f # fd => e.sock[f] = s.sock[f]
  BY <1>0, CountedFields, Zenon
<1>3. /\ j.conn = s.sock[fd].conn /\ j.waiting = s.sock[fd].waiting /\ j.last = s.sock[fd].last
      /\ j.rcvevent = IF evt = "RCVPLUS" THEN s.sock[fd].rcvevent + 1 ELSE s.sock[fd].rcvevent
      /\ j.sendevent = IF evt = "SENDPLUS" THEN 1 ELSE IF evt = "SENDMINUS" THEN 0
                       ELSE s.sock[fd].sendevent
  BY <1>0, <1>1, CountedSockFields
<1>4. g = IF e.sock[fd].waiting = 0 THEN e ELSE Signalled(e, Listed(e), fd)
  BY <1>0, Zenon DEF event_callback
<1>5. Listed(e) = Listed(s) /\ Listed(e) \subseteq User
  BY <1>2, ListedTasks DEF Listed
<1> HIDE DEF e, g, j
<1>6. /\ g \in NetRec /\ g.conn = s.conn /\ g.list = s.list /\ g.moved = s.moved
      /\ g.want = s.want /\ g.ans = s.ans /\ g.sock = e.sock /\ s.sig \subseteq g.sig
      /\ e.sock[fd].waiting # 0 => g.sig = e.sig \cup {t \in Listed(e) : Asks(e, t, fd)}
  <2>1. CASE e.sock[fd].waiting = 0
    BY <1>2, <1>4, <2>1
  <2>2. CASE e.sock[fd].waiting # 0
    <3>1. g = Signalled(e, Listed(e), fd)
      BY <1>4, <2>2
    <3>2. /\ g \in NetRec /\ g.conn = e.conn /\ g.list = e.list /\ g.moved = e.moved
          /\ g.want = e.want /\ g.sock = e.sock /\ g.ans = e.ans
          /\ g.sig = e.sig \cup {t \in Listed(e) : Asks(e, t, fd)}
      <4>1. e \in NetRec /\ Listed(e) \in SUBSET User /\ fd \in Fd
        BY <1>0, <1>2, <1>5
      <4>2. OnlySig(e, g, {t \in Listed(e) : Asks(e, t, fd)})
        BY <3>1, <4>1, SignalledFields
      <4> QED BY <4>2 DEF OnlySig
    <3> QED BY <1>2, <3>2
  <2> QED BY <2>1, <2>2
<1>7. \A v, f : Asks(g, v, f) <=> Asks(e, v, f)
  BY <1>2, <1>6 DEF Asks
<1>8. \A v : \A f \in Fd : f # fd => (Asks(e, v, f) <=> Asks(s, v, f))
  BY <1>2 DEF Asks
<1>9. \A f \in Fd : \A t \in Listed(s) :
         s.sock[f].waiting # 0 /\ Asks(g, t, f) => Asks(s, t, f) \/ t \in g.sig
  BY <1>2, <1>3, <1>5, <1>6, <1>7, <1>8
<1>10. Touch(s, g, c)
  <2>1. \A f \in Fd : /\ g.sock[f].conn = s.sock[f].conn
                      /\ g.sock[f].waiting = s.sock[f].waiting
                      /\ g.sock[f].last = s.sock[f].last
    BY <1>2, <1>3, <1>6
  <2> QED BY <1>0, <1>2, <1>6, <1>9, <2>1 DEF Touch
<1>11. g.conn[c] = [s.conn[c] EXCEPT !.socket = g.conn[c].socket]
  BY <1>1, <1>6, SocketAgain
<1>12. Raw(g, c) = g.sock[fd].rcvevent /\ Raw(s, c) = s.sock[fd].rcvevent
  BY <1>0, <1>6 DEF Raw
<1>13. g.sock[fd] = j
  BY <1>2, <1>6
<1> QED BY <1>0, <1>3, <1>6, <1>10, <1>11, <1>12, <1>13 DEF Told, g

(* event_callback in the thread of the stack.                              *)
LEMMA EventTold ==
  ASSUME NEW s \in NetRec, NEW c \in Conn, s.conn[c].socket < NumConn,
         s.conn[c].socket >= 0 => s.sock[s.conn[c].socket].conn # NoFd,
         NEW evt \in {"RCVPLUS", "SENDPLUS", "SENDMINUS"}
  PROVE  Told(s, event_callback(s, c, evt), c, evt)
<1>1. s.conn[c].socket \in Int
  BY NetFields, ConnFields
<1>2. CASE s.conn[c].socket < 0
  BY <1>2, EventEarly
<1>3. CASE s.conn[c].socket >= 0
  <2>1. s.conn[c].socket \in Fd
    BY <1>1, <1>3, SocketAssumption DEF Fd
  <2> QED BY <1>3, <2>1, EventLate
<1> QED BY <1>1, <1>2, <1>3

-----------------------------------------------------------------------------
(* api_msg.c: the answer to a message.                                     *)

Results == {"ok", "err", "fatal"}

(* The message of task t on netconn c is answered with r.                  *)
Acked(s, e, c, t, r) ==
  /\ Touch(s, e, c) /\ SameCounts(s, e, c)
  /\ e.conn[c] = [s.conn[c] EXCEPT !.done = s.conn[c].done + 1]
  /\ e.ans = [s.ans EXCEPT ![t] = r]

(* The call that waits on netconn c is over.                               *)
Over(s, e, c, r) ==
  /\ Touch(s, e, c) /\ SameCounts(s, e, c)
  /\ e.conn[c] = [s.conn[c] EXCEPT !.msg = NoUser, !.state = "NONE", !.left = 0,
                                   !.done = s.conn[c].done + 1]
  /\ e.ans = [s.ans EXCEPT ![s.conn[c].msg] = r]

(* TCPIP_APIMSG_ACK *)
LEMMA AckFields ==
  ASSUME NEW s \in NetRec, NEW c \in Conn, NEW t \in User, NEW r \in Results
  PROVE  Acked(s, Ack(s, c, t, r), c, t, r)
<1> DEFINE a == PutAns(s, t, r)
           n == [s.conn[c] EXCEPT !.done = s.conn[c].done + 1]
           e == PutConn(a, c, n)
<1>0. r \in {"unset", "ok", "err", "fatal"}
  BY DEF Results
<1>1. OnlyAns(s, a, [s.ans EXCEPT ![t] = r]) /\ Touch(s, a, c) /\ SameCounts(s, a, c)
  BY <1>0, PutAnsFields, PutAnsTouch, Zenon
<1>2. s.conn[c] \in ConnRec /\ s.conn[c].done + 1 \in Nat
  BY NetFields, ConnFields
<1>3. n \in ConnRec /\ n.socket = s.conn[c].socket
  BY <1>2, Zenon DEF ConnRec
<1>4. Ack(s, c, t, r) = e
  BY DEF Ack, PutAns, PutConn, NetRec
<1> HIDE DEF a, n
<1>5. a \in NetRec /\ n.socket = a.conn[c].socket /\ a.ans = [s.ans EXCEPT ![t] = r]
  BY <1>1, <1>3 DEF OnlyAns
<1>6. OnlyConn(a, e, c, n) /\ Touch(a, e, c) /\ SameCounts(a, e, c)
  BY <1>3, <1>5, PutConnFields, PutConnTouch
<1> HIDE DEF e
<1>7. Touch(s, e, c) /\ SameCounts(s, e, c)
  BY <1>1, <1>6, TouchTrans, CountsTrans
<1>8. e.conn[c] = n /\ e.ans = [s.ans EXCEPT ![t] = r]
  BY <1>5, <1>6 DEF OnlyConn
<1> QED BY <1>4, <1>7, <1>8 DEF Acked, n

(* The end of a call.                                                      *)
LEMMA CompletedFields ==
  ASSUME NEW s \in NetRec, NEW c \in Conn, s.conn[c].msg \in User, NEW r \in Results
  PROVE  Over(s, Completed(s, c, r), c, r)
<1> DEFINE n == [s.conn[c] EXCEPT !.msg = NoUser, !.state = "NONE", !.left = 0]
           b == PutConn(s, c, n)
           t == s.conn[c].msg
           e == Ack(b, c, t, r)
<1>1. s.conn[c] \in ConnRec
  BY NetFields
<1>2. 0 \in Nat /\ "NONE" \in Busy \cup {"NONE", "LISTEN"} /\ NoUser \in User \cup {NoUser}
  OBVIOUS
<1>3. n \in ConnRec /\ n.socket = s.conn[c].socket /\ n.done = s.conn[c].done
  BY <1>1, <1>2, Zenon DEF ConnRec
<1>4. Completed(s, c, r) = e
  BY Zenon DEF Completed, PutConn, NetRec
<1>5. [n EXCEPT !.done = n.done + 1] =
        [s.conn[c] EXCEPT !.msg = NoUser, !.state = "NONE", !.left = 0,
                          !.done = s.conn[c].done + 1]
  BY <1>1, <1>3, Zenon DEF ConnRec
<1> HIDE DEF n
<1>6. OnlyConn(s, b, c, n) /\ Touch(s, b, c) /\ SameCounts(s, b, c)
  BY <1>3, PutConnFields, PutConnTouch
<1> HIDE DEF b, t
<1>7. b \in NetRec /\ b.conn[c] = n /\ b.ans = s.ans /\ t \in User
  BY <1>6 DEF OnlyConn, t
<1>8. Acked(b, e, c, t, r)
  BY <1>7, AckFields
<1> HIDE DEF e
<1>9. Touch(s, e, c) /\ SameCounts(s, e, c)
  BY <1>6, <1>8, TouchTrans, CountsTrans DEF Acked
<1> QED BY <1>4, <1>5, <1>7, <1>8, <1>9 DEF Over, Acked, t

-----------------------------------------------------------------------------
(* api_msg.c: writing and closing.                                         *)

(* The descriptor of netconn c, if it has one, is an entry in use.         *)
Fit(s, c) ==
  /\ s \in NetRec /\ s.conn[c].socket < NumConn
  /\ s.conn[c].socket >= 0 => s.sock[s.conn[c].socket].conn # NoFd

(* What writing and closing leave alone in a netconn.                      *)
Kept(n, m) ==
  /\ m.used = n.used /\ m.type = n.type /\ m.fatal = n.fatal
  /\ m.recvOk = n.recvOk /\ m.recvmbox = n.recvmbox
  /\ m.acceptOk = n.acceptOk /\ m.acceptmbox = n.acceptmbox

(* The call that waits on netconn c ends, or goes on.                      *)
Ends(s, e, c) ==
  /\ e.conn[c].msg = NoUser /\ e.conn[c].state = "NONE" /\ e.conn[c].done = s.conn[c].done + 1
  /\ \E r \in Results : e.ans = [s.ans EXCEPT ![s.conn[c].msg] = r]

Stays(s, e, c) ==
  /\ e.conn[c].msg = s.conn[c].msg /\ e.conn[c].state = s.conn[c].state
  /\ e.conn[c].done = s.conn[c].done /\ e.ans = s.ans

(* What can be sent and is shown writable stays so.                        *)
RoomShown(s, e, c) ==
  s.conn[c].socket >= 0 /\ e.conn[c].snd > SndLowat =>
    s.conn[c].snd > SndLowat
    /\ e.sock[s.conn[c].socket].sendevent = s.sock[s.conn[c].socket].sendevent

(* do_writemore, with result r of tcp_write.                               *)
Wrote(s, e, c, r) ==
  /\ Touch(s, e, c) /\ Kept(s.conn[c], e.conn[c]) /\ e.conn[c].pcb = s.conn[c].pcb
  /\ Raw(e, c) = Raw(s, c) /\ RoomShown(s, e, c)
  /\ Ends(s, e, c) \/ (r # "fatal" /\ Stays(s, e, c))

(* A step on a netconn keeps it as the handlers of api_msg.c expect it.    *)
LEMMA FitTouch ==
  ASSUME NEW s, NEW e, NEW c \in Conn, Fit(s, c), Touch(s, e, c)
  PROVE  Fit(e, c)
<1>1. s.conn[c].socket \in Int /\ e.conn[c].socket \in Int
  BY NetFields, ConnFields DEF Fit, Touch
<1>2. CASE s.conn[c].socket < 0
  BY <1>1, <1>2, SocketAssumption DEF Fit, Touch
<1>3. CASE s.conn[c].socket >= 0
  <2>1. s.conn[c].socket \in Fd
    BY <1>1, <1>3, SocketAssumption DEF Fd, Fit
  <2> QED BY <1>1, <1>3, <2>1 DEF Fit, Touch
<1> QED BY <1>1, <1>2, <1>3

(* The lesser of two naturals.                                             *)
LEMMA LesserOf ==
  ASSUME NEW a \in Nat, NEW b \in Nat
  PROVE  Min({a, b}) \in Nat /\ Min({a, b}) <= a /\ Min({a, b}) <= b
<1>1. \E x \in {a, b} : \A y \in {a, b} : x <= y
  OBVIOUS
<1>2. Min({a, b}) \in {a, b} /\ \A y \in {a, b} : Min({a, b}) <= y
  BY <1>1, Zenon DEF Min
<1> QED BY <1>2

(* do_writemore writes what fits, tells of a full buffer, and ends the     *)
(* call or leaves the rest.                                                *)
LEMMA WriteMore ==
  ASSUME NEW s, NEW c \in Conn, Fit(s, c), s.conn[c].msg \in User, NEW r \in Results
  PROVE  Wrote(s, do_writemore(s, c, r), c, r)
<1> DEFINE n == s.conn[c]
           k == IF r = "ok" THEN Min({n.left, n.snd}) ELSE 0
           m == [n EXCEPT !.snd = n.snd - k, !.left = n.left - k]
           w == PutConn(s, c, m)
           v == [s EXCEPT !.conn[c].snd = @ - k, !.conn[c].left = @ - k]
           e == IF r # "fatal" /\ w.conn[c].snd <= SndLowat
                THEN event_callback(w, c, "SENDMINUS") ELSE w
           g == IF r = "fatal" \/ (r = "ok" /\ e.conn[c].left = 0) THEN Completed(e, c, r) ELSE e
<1>1. s \in NetRec /\ n \in ConnRec /\ n.snd \in 0 .. SndBuf /\ n.left \in Nat /\ SndBuf \in Nat
      /\ SndLowat \in Int
  BY NetFields, ConnFields, SocketAssumption DEF Fit
<1>2. k \in Nat /\ k <= n.left /\ k <= n.snd
  <2>1. n.left \in Nat /\ n.snd \in Nat
    BY <1>1
  <2>2. CASE r = "ok"
    BY <2>1, <2>2, LesserOf
  <2>3. CASE r # "ok"
    BY <2>1, <2>3
  <2> QED BY <2>2, <2>3
<1>3. v = w
  BY <1>1, Zenon DEF PutConn, NetRec
<1> DEFINE ev == IF r # "fatal" /\ v.conn[c].snd <= SndLowat
                 THEN event_callback(v, c, "SENDMINUS") ELSE v
           gv == IF r = "fatal" \/ (r = "ok" /\ ev.conn[c].left = 0) THEN Completed(ev, c, r) ELSE ev
<1>4. do_writemore(s, c, r) = g
  <2>1. do_writemore(s, c, r) = gv
    BY Zenon DEF do_writemore
  <2> HIDE DEF v, w
  <2>2. ev = e
    BY <1>3
  <2> HIDE DEF ev, e
  <2> QED BY <2>1, <2>2
<1> HIDE DEF k
<1>5. n.snd - k \in 0 .. SndBuf /\ n.left - k \in Nat
  BY <1>1, <1>2
<1>6. m \in ConnRec
  BY <1>1, <1>5, Zenon DEF ConnRec
<1>7. m.socket = n.socket /\ Kept(n, m) /\ m.pcb = n.pcb /\ m.msg = n.msg /\ m.state = n.state
      /\ m.done = n.done /\ m.snd = n.snd - k
  BY <1>1, Zenon DEF ConnRec, Kept
<1> HIDE DEF m
<1>8. OnlyConn(s, w, c, m) /\ Touch(s, w, c) /\ SameCounts(s, w, c)
  BY <1>1, <1>6, <1>7, PutConnFields, PutConnTouch
<1> HIDE DEF w
<1>9. Fit(w, c)
  BY <1>8, FitTouch
<1>10. w.conn[c] = m /\ w.ans = s.ans /\ w \in NetRec
  BY <1>8 DEF OnlyConn
<1>11. /\ Touch(s, e, c) /\ Fit(e, c) /\ Kept(n, e.conn[c]) /\ e.conn[c].pcb = n.pcb
       /\ Stays(s, e, c) /\ Raw(e, c) = Raw(s, c) /\ e.conn[c].snd = m.snd
       /\ s.conn[c].socket >= 0 /\ (m.snd > SndLowat \/ r = "fatal") =>
            e.sock[s.conn[c].socket].sendevent = s.sock[s.conn[c].socket].sendevent
  <2>1. CASE r # "fatal" /\ w.conn[c].snd <= SndLowat
    <3>1. e = event_callback(w, c, "SENDMINUS")
      BY <2>1
    <3> HIDE DEF e
    <3>2. Told(w, e, c, "SENDMINUS")
      BY <1>9, <3>1, EventTold DEF Fit
    <3>3. Touch(s, e, c) /\ Fit(e, c)
      BY <1>1, <1>8, <1>9, <3>2, TouchTrans, FitTouch DEF Told
    <3>4. e.conn[c] = [m EXCEPT !.socket = e.conn[c].socket] /\ e.ans = w.ans /\ Raw(e, c) = Raw(w, c)
      BY <1>10, <3>2 DEF Told
    <3>5. Kept(m, e.conn[c]) /\ e.conn[c].pcb = m.pcb /\ e.conn[c].msg = m.msg
          /\ e.conn[c].state = m.state /\ e.conn[c].done = m.done /\ e.conn[c].snd = m.snd
      BY <1>6, <3>4, Zenon DEF ConnRec, Kept
    <3>6. ~(m.snd > SndLowat \/ r = "fatal")
      BY <1>1, <1>5, <1>7, <1>10, <2>1
    <3> QED BY <1>7, <1>8, <1>10, <3>3, <3>4, <3>5, <3>6 DEF Stays, SameCounts, Kept
  <2>2. CASE ~(r # "fatal" /\ w.conn[c].snd <= SndLowat)
    <3>1. e = w
      BY <2>2
    <3> HIDE DEF e
    <3> QED BY <1>7, <1>8, <1>9, <1>10, <3>1 DEF Stays, SameCounts
  <2> QED BY <2>1, <2>2
<1> HIDE DEF e
<1>12. RoomShown(s, e, c)
  BY <1>1, <1>2, <1>5, <1>7, <1>11 DEF RoomShown
<1>13. CASE r = "fatal" \/ (r = "ok" /\ e.conn[c].left = 0)
  <2>1. g = Completed(e, c, r)
    BY <1>13
  <2> HIDE DEF g
  <2>2. e \in NetRec /\ e.conn[c].msg \in User /\ e.conn[c] \in ConnRec
    BY <1>11, NetFields DEF Touch, Stays
  <2>3. Over(e, g, c, r)
    BY <2>1, <2>2, CompletedFields
  <2>4. Touch(s, g, c)
    BY <1>1, <1>11, <2>3, TouchTrans DEF Over
  <2> DEFINE x == e.conn[c]
  <2>5. g.conn[c] = [x EXCEPT !.msg = NoUser, !.state = "NONE", !.left = 0, !.done = x.done + 1]
    BY <2>3 DEF Over
  <2>6. /\ Kept(x, g.conn[c]) /\ g.conn[c].pcb = x.pcb /\ g.conn[c].snd = x.snd
        /\ g.conn[c].msg = NoUser /\ g.conn[c].state = "NONE" /\ g.conn[c].done = x.done + 1
    <3> HIDE DEF x
    <3>1. x \in ConnRec
      BY <2>2 DEF x
    <3> QED BY <2>5, <3>1, Zenon DEF ConnRec, Kept
  <2>7. Ends(s, g, c)
    BY <1>11, <2>3, <2>6 DEF Ends, Over, Stays
  <2>8. RoomShown(s, g, c)
    BY <1>11, <1>12, <2>3, <2>6 DEF RoomShown, Over, SameCounts, Touch
  <2>9. Raw(g, c) = Raw(s, c)
    BY <1>11, <2>3 DEF Over, SameCounts
  <2>10. Kept(n, g.conn[c]) /\ g.conn[c].pcb = n.pcb
    BY <1>11, <2>6 DEF Kept
  <2> QED BY <1>4, <2>4, <2>7, <2>8, <2>9, <2>10 DEF Wrote
<1>14. CASE ~(r = "fatal" \/ (r = "ok" /\ e.conn[c].left = 0))
  <2>1. g = e
    BY <1>14
  <2> HIDE DEF g
  <2> QED BY <1>4, <1>11, <1>12, <1>14, <2>1 DEF Wrote
<1> QED BY <1>13, <1>14

(* RCVPLUS and SENDPLUS, one after the other.                              *)
ToldBoth(s, e, c) ==
  /\ Touch(s, e, c) /\ e.ans = s.ans
  /\ e.conn[c] = [s.conn[c] EXCEPT !.socket = e.conn[c].socket]
  /\ s.conn[c].socket >= 0 => e.sock[s.conn[c].socket].sendevent = 1

(* err_tcp tells of RCVPLUS and of SENDPLUS, one after the other.          *)
LEMMA BothTold ==
  ASSUME NEW s, NEW c \in Conn, Fit(s, c)
  PROVE  ToldBoth(s, event_callback(event_callback(s, c, "RCVPLUS"), c, "SENDPLUS"), c)
<1> DEFINE e == event_callback(s, c, "RCVPLUS")
           g == event_callback(e, c, "SENDPLUS")
<1>1. s \in NetRec /\ s.conn[c] \in ConnRec
  BY NetFields DEF Fit
<1>2. Told(s, e, c, "RCVPLUS")
  BY EventTold DEF Fit
<1> HIDE DEF e
<1>3. Fit(e, c)
  BY <1>2, FitTouch DEF Told
<1>4. Told(e, g, c, "SENDPLUS")
  BY <1>3, EventTold DEF Fit
<1> HIDE DEF g
<1>5. Touch(s, g, c)
  BY <1>1, <1>2, <1>4, TouchTrans DEF Told
<1>6. g.conn[c] = [s.conn[c] EXCEPT !.socket = g.conn[c].socket]
  <2> DEFINE n == s.conn[c]  m == e.conn[c]  h == g.conn[c]
  <2>1. n \in ConnRec /\ m = [n EXCEPT !.socket = m.socket] /\ h = [m EXCEPT !.socket = h.socket]
    BY <1>1, <1>2, <1>4 DEF Told
  <2>2. m.socket \in Int
    BY <1>3, NetFields, ConnFields DEF Fit
  <2> HIDE DEF n, m, h
  <2>3. h = [n EXCEPT !.socket = h.socket]
    BY <2>1, <2>2, Zenon DEF ConnRec
  <2> QED BY <2>3 DEF n, h
<1>7. g.ans = s.ans /\ (s.conn[c].socket >= 0 => g.sock[s.conn[c].socket].sendevent = 1)
  BY <1>2, <1>4 DEF Told, Touch
<1> QED BY <1>5, <1>6, <1>7 DEF ToldBoth, e, g

(* do_close_internal has closed the pcb.                                   *)
Closed(s, e, c) ==
  /\ Touch(s, e, c) /\ Kept(s.conn[c], e.conn[c]) /\ e.conn[c].pcb = "none" /\ Ends(s, e, c)

(* do_close_internal closes the pcb, or leaves a live one to be tried      *)
(* again by poll_tcp.                                                      *)
LEMMA CloseInternal ==
  ASSUME NEW s, NEW c \in Conn, Fit(s, c), s.conn[c].msg \in User, NEW ok \in BOOLEAN
  PROVE  LET e == do_close_internal(s, c, ok)
         IN  (e = s /\ s.conn[c].pcb \in Live) \/ Closed(s, e, c)
<1>1. CASE ~ok /\ s.conn[c].pcb \in Live
  BY <1>1 DEF do_close_internal
<1>2. CASE ~(~ok /\ s.conn[c].pcb \in Live)
  <2> DEFINE n == s.conn[c]
             m == [n EXCEPT !.pcb = "none"]
             b == PutConn(s, c, m)
             v == [s EXCEPT !.conn[c].pcb = "none"]
             g == event_callback(event_callback(b, c, "RCVPLUS"), c, "SENDPLUS")
             e == Completed(g, c, "ok")
  <2>1. s \in NetRec /\ n \in ConnRec
    BY NetFields DEF Fit
  <2>2. v = b
    BY <2>1, Zenon DEF PutConn, NetRec
  <2>3. do_close_internal(s, c, ok) = e
    <3>1. do_close_internal(s, c, ok)
            = Completed(event_callback(event_callback(v, c, "RCVPLUS"), c, "SENDPLUS"), c, "ok")
      BY <1>2, Zenon DEF do_close_internal
    <3> HIDE DEF v, b
    <3> QED BY <2>2, <3>1
  <2>4. m \in ConnRec /\ m.socket = n.socket /\ Kept(n, m) /\ m.pcb = "none" /\ m.msg = n.msg
        /\ m.done = n.done
    <3>1. "none" \in Pcbs
      BY DEF Pcbs
    <3> QED BY <2>1, <3>1, Zenon DEF ConnRec, Kept
  <2> HIDE DEF m
  <2>5. OnlyConn(s, b, c, m) /\ Touch(s, b, c)
    BY <2>1, <2>4, PutConnFields, PutConnTouch
  <2> HIDE DEF b
  <2>6. Fit(b, c) /\ b.conn[c] = m /\ b.ans = s.ans
    BY <2>5, FitTouch DEF OnlyConn
  <2>7. ToldBoth(b, g, c)
    BY <2>6, BothTold
  <2> HIDE DEF g
  <2>8. Touch(s, g, c)
    BY <2>1, <2>5, <2>7, TouchTrans DEF ToldBoth
  <2>9. Kept(m, g.conn[c]) /\ g.conn[c].pcb = "none" /\ g.conn[c].msg = m.msg /\ g.conn[c].done = m.done
    <3>1. g.conn[c] = [m EXCEPT !.socket = g.conn[c].socket]
      BY <2>6, <2>7 DEF ToldBoth
    <3> QED BY <2>4, <3>1, Zenon DEF ConnRec, Kept
  <2>10. g \in NetRec /\ g.conn[c].msg \in User /\ g.conn[c] \in ConnRec
    BY <2>4, <2>8, <2>9, NetFields DEF Touch
  <2>11. "ok" \in Results
    BY DEF Results
  <2>12. Over(g, e, c, "ok")
    BY <2>10, <2>11, CompletedFields
  <2> HIDE DEF e
  <2>13. Touch(s, e, c)
    BY <2>1, <2>8, <2>12, TouchTrans DEF Over
  <2> DEFINE x == g.conn[c]
  <2>14. /\ Kept(x, e.conn[c]) /\ e.conn[c].pcb = x.pcb
         /\ e.conn[c].msg = NoUser /\ e.conn[c].state = "NONE" /\ e.conn[c].done = x.done + 1
    <3>1. e.conn[c] = [x EXCEPT !.msg = NoUser, !.state = "NONE", !.left = 0, !.done = x.done + 1]
      BY <2>12 DEF Over
    <3>2. x \in ConnRec
      BY <2>10 DEF x
    <3> HIDE DEF x
    <3> QED BY <3>1, <3>2, Zenon DEF ConnRec, Kept
  <2>15. Kept(n, e.conn[c]) /\ e.conn[c].pcb = "none"
    BY <2>4, <2>9, <2>14 DEF Kept
  <2>16. e.ans = [s.ans EXCEPT ![n.msg] = "ok"]
    BY <2>4, <2>6, <2>7, <2>9, <2>12 DEF Over, ToldBoth
  <2>17. Ends(s, e, c)
    BY <2>4, <2>9, <2>11, <2>14, <2>16 DEF Ends
  <2> QED BY <2>3, <2>13, <2>15, <2>17 DEF Closed
<1> QED BY <1>1, <1>2

(* Continued: the write or the close that waits goes on.                   *)
LEMMA ContinuedFields ==
  ASSUME NEW s, NEW c \in Conn, Fit(s, c), s.conn[c].state \in Busy => s.conn[c].msg \in User,
         NEW e \in Continued(s, c)
  PROVE  \/ e = s /\ (s.conn[c].state = "WRITE" => FALSE)
         \/ s.conn[c].state = "CLOSE" /\ Closed(s, e, c)
         \/ s.conn[c].state = "WRITE" /\ \E r \in tcp_write(s, c) : Wrote(s, e, c, r)
<1>1. CASE s.conn[c].state = "WRITE"
  <2>1. PICK r \in tcp_write(s, c) : e = do_writemore(s, c, r)
    BY <1>1 DEF Continued
  <2>2. r \in Results /\ s.conn[c].msg \in User
    BY <1>1 DEF tcp_write, Results, Busy
  <2>3. Wrote(s, e, c, r)
    BY <2>1, <2>2, WriteMore
  <2> QED BY <1>1, <2>3
<1>2. CASE s.conn[c].state = "CLOSE"
  <2>1. PICK ok \in BOOLEAN : e = do_close_internal(s, c, ok)
    BY <1>2 DEF Continued
  <2>2. s.conn[c].msg \in User
    BY <1>2 DEF Busy
  <2>3. e = s \/ Closed(s, e, c)
    BY <2>1, <2>2, CloseInternal, Zenon
  <2> QED BY <1>2, <2>3
<1>3. CASE s.conn[c].state \notin {"WRITE", "CLOSE"}
  BY <1>3 DEF Continued
<1> QED BY <1>1, <1>2, <1>3

-----------------------------------------------------------------------------
(* The invariant, of a state s of the stack and a state w of the tasks.    *)

Types(s, w) ==
  s \in NetRec /\ (\A c \in Conn : Bounds(s.conn[c])) /\ w \in [User -> UserRec]

(* What the fields of one netconn say of each other.                       *)
ConnSane(n) ==
  /\ ~n.used => n = FreeConn
  /\ n.msg # NoUser <=> n.state \in Busy
  /\ n.state = "CONNECT" <=> n.pcb = "syn"
  /\ n.state \in {"WRITE", "CLOSE"} => n.pcb \in Live
  /\ n.state = "LISTEN" <=> n.acceptOk
  /\ n.acceptOk => n.pcb = "listen" /\ n.type = "tcp" /\ n.socket >= 0 /\ ~n.recvOk
  /\ n.acceptmbox # <<>> => n.acceptOk
  /\ n.pcb \in {"new", "syn", "udp"} => n.recvmbox = <<>>
  /\ n.msg # NoUser => n.done = 0
  /\ n.done \in {0, 1}

Conns(s) == \A c \in Conn : ConnSane(s.conn[c])

(* Where a task is tells which call it makes and what it waits for.        *)
OnFd == {"bind", "connect", "listen", "send", "close", "accept", "recv"}
Engaged(u) == u.pc \in {"await", "back"}

FnOf(op) ==
  CASE op = "socket" -> {"new", "delconn"}
    [] op = "send" -> {"write", "send"}
    [] op = "close" -> {"delconn"}
    [] op = "accept" -> {"peer", "delconn"}
    [] op = "recv" -> {"recv", "recved"}
    [] OTHER -> {op}

Shape(u) ==
  /\ u.pc = "idle" => u = IdleUser
  /\ u.op = "none" => u.pc = "idle"
  /\ u.op = "select" <=> u.pc \in {"add", "count", "scan", "wait", "uncount", "remove"}
  /\ u.fd # NoFd <=> u.op \in OnFd
  /\ Engaged(u) => u.conn # NoFd /\ u.fn \in FnOf(u.op)
  /\ u.op = "socket" => Engaged(u)
  /\ u.op \in {"bind", "connect", "listen", "send"} => Engaged(u)
  /\ u.op = "close" => Engaged(u) \/ u.pc = "free"
  /\ u.pc = "free" => u.op = "close"
  /\ u.pc \in {"fetch", "event", "look"} => u.op \in {"accept", "recv"}
  /\ u.pc = "copy" => u.op = "recv"
  /\ u.pc = "settle" => u.op = "accept"
  /\ u.op = "accept" => (u.pc = "fetch" <=> u.conn = NoFd)
  /\ u.pc = "settle" <=> u.new # NoFd

Shapes(w) == \A t \in User : Shape(w[t])

(* The netconn that a socket() or an accept() is bringing.                 *)
Brought(u) == IF u.op \in {"socket", "accept"} THEN u.conn ELSE NoFd

(* No two tasks use one descriptor or bring one netconn.                   *)
Apart(u, v) ==
  /\ u.fd = v.fd => u.fd = NoFd
  /\ Brought(u) = Brought(v) => Brought(u) = NoFd
  /\ u.new # NoFd => v.fd # u.new

AllApart(w) == \A t, v \in User : t # v => Apart(w[t], w[v])

(* The descriptor of a call has its netconn; in close(), once the netconn  *)
(* is freed, no netconn has the descriptor.                                *)
Holds(s, u) ==
  u.fd # NoFd =>
    /\ s.sock[u.fd].conn # NoFd
    /\ u.pc # "free" => s.conn[s.sock[u.fd].conn].socket = u.fd
    /\ u.pc = "free" => \A c \in Conn : s.conn[c].socket # u.fd

(* A netconn that a task brings has no descriptor, or has it reserved.     *)
Brings(s, u) ==
  /\ Brought(u) # NoFd => s.conn[Brought(u)].used /\ s.conn[Brought(u)].socket < 0
  /\ u.new # NoFd => Brought(u) # NoFd /\ s.sock[u.new].conn = Brought(u)

SockConn(s) == \A c \in Conn : s.conn[c].socket >= 0 => s.sock[s.conn[c].socket].conn = c

(* A netconn in the queue of a listener is there once, and nobody's else.  *)
Boxed(s, w, c, i) ==
  LET d == s.conn[c].acceptmbox[i]
  IN  /\ s.conn[d].used /\ s.conn[d].socket < 0
      /\ \A e \in Conn : \A j \in 1 .. Len(s.conn[e].acceptmbox) :
           s.conn[e].acceptmbox[j] = d => e = c /\ j = i
      /\ \A t \in User : Brought(w[t]) # d

Boxes(s, w) == \A c \in Conn : \A i \in 1 .. Len(s.conn[c].acceptmbox) : Boxed(s, w, c, i)

InBox(s, c) == \E d \in Conn : \E i \in 1 .. Len(s.conn[d].acceptmbox) : s.conn[d].acceptmbox[i] = c

HasOwner(s, w, c) ==
  s.conn[c].socket >= 0 \/ InBox(s, c) \/ \E t \in User : Brought(w[t]) = c

OwnersExist(s, w) == \A c \in Conn : s.conn[c].used => HasOwner(s, w, c)

SockTaken(s, w, f) ==
  \/ s.conn[s.sock[f].conn].socket = f
  \/ \E t \in User : w[t].new = f \/ (w[t].pc = "free" /\ w[t].fd = f)

SocksTaken(s, w) == \A f \in Fd : s.sock[f].conn # NoFd => SockTaken(s, w, f)

Links(s, w) ==
  /\ SockConn(s) /\ (\A t \in User : Holds(s, w[t]) /\ Brings(s, w[t]))
  /\ Boxes(s, w) /\ OwnersExist(s, w) /\ SocksTaken(s, w)

(* A task that waits has its answer, or its message is kept; a netconn     *)
(* keeps a message or an answer only for a task that waits.                *)
Hears(s, t, u) ==
  /\ Engaged(u) /\ u.op \notin {"socket", "accept"} => u.conn = s.sock[u.fd].conn
  /\ u.pc = "await" =>
       \/ s.conn[u.conn].done = 1 /\ s.ans[t] # "unset" /\ s.conn[u.conn].msg = NoUser
       \/ s.conn[u.conn].msg = t /\ s.ans[t] = "unset"
  /\ u.pc = "back" => s.ans[t] # "unset"

HeardOf(s, w, c) ==
  /\ s.conn[c].msg # NoUser => w[s.conn[c].msg].pc = "await" /\ w[s.conn[c].msg].conn = c
  /\ s.conn[c].state = "CLOSE" => w[s.conn[c].msg].fn = "delconn"
  /\ s.conn[c].done # 0 => \E t \in User : w[t].pc = "await" /\ w[t].conn = c

Talks(s, w) == (\A t \in User : Hears(s, t, w[t])) /\ \A c \in Conn : HeardOf(s, w, c)

(* The netconn of a call that deletes it, makes it, or reads from it.      *)
Closing(u) == u.fn = "delconn" /\ Engaged(u)
Making(u) == u.fn = "new" /\ Engaged(u)

Deleting(n) ==
  /\ ~n.recvOk /\ ~n.acceptOk
  /\ n.msg = NoUser => n.pcb = "none"
  /\ n.msg # NoUser => n.state = "CLOSE"

Fresh(n, r) ==
  /\ n.recvmbox = <<>> /\ ~n.acceptOk /\ n.msg = NoUser /\ n.socket = -1 /\ ~n.fatal
  /\ r \in {"ok", "err"}
  /\ n.pcb = IF r # "ok" THEN "none" ELSE IF n.type = "tcp" THEN "new" ELSE "udp"

Fetching(n, u) == n.recvOk /\ (u.off \/ n.fatal => n.recvmbox # <<>>)

Stage(s, t, u) ==
  /\ Closing(u) => Deleting(s.conn[u.conn])
  /\ Making(u) => Fresh(s.conn[u.conn], s.ans[t])
  /\ u.pc = "fetch" /\ u.op = "recv" => Fetching(s.conn[s.sock[u.fd].conn], u)

Stages(s, w) == \A t \in User : Stage(s, t, w[t])

(* The counters of the descriptors.                                        *)
Fetched(u) ==
  /\ u.op \in {"recv", "accept"}
  /\ u.pc = "event" \/ (u.fn = "recv" /\ u.pc \in {"await", "back"})

Pending(w, f) == IF f >= 0 /\ \E t \in User : w[t].fd = f /\ Fetched(w[t]) THEN 1 ELSE 0

Unclosed(w, c) == \A t \in User : Closing(w[t]) => w[t].conn # c

CountOf(s, w, c) ==
  s.conn[c].used /\ ~s.conn[c].fatal /\ Unclosed(w, c) =>
    Raw(s, c) - Pending(w, s.conn[c].socket) = Len(s.conn[c].recvmbox) + Len(s.conn[c].acceptmbox)

Writable(s, c) ==
  s.conn[c].socket >= 0 /\ s.conn[c].pcb \in Live /\ s.conn[c].snd > SndLowat
    => s.sock[s.conn[c].socket].sendevent = 1

SlotFresh(s, u) ==
  u.new # NoFd => s.sock[u.new].rcvevent = 0 /\ s.sock[u.new].sendevent = 1

Counts(s, w) ==
  /\ \A c \in Conn : CountOf(s, w, c) /\ Writable(s, c)
  /\ \A t \in User : SlotFresh(s, w[t])

(* select() *)
WantsOf(s, t) == s.want[t][1] \cup s.want[t][2]

Wanted(s, w, t) ==
  /\ w[t].op # "select" => s.want[t] = <<{}, {}>>
  /\ w[t].op = "select" => s.want[t] \in FdSets
  /\ \A fd \in WantsOf(s, t) :
       /\ s.sock[fd].conn # NoFd /\ s.conn[s.sock[fd].conn].socket = fd
       /\ \A v \in User : w[v].op = "close" => w[v].fd # fd

Selecting(s, t, u) ==
  /\ u.pc \in {"count", "scan", "uncount"} => u.todo # {} /\ u.todo \subseteq WantsOf(s, t)
  /\ u.pc \in {"count", "scan", "wait", "uncount", "remove"} => t \in Listed(s)
  /\ u.pc = "wait" /\ t \notin s.sig => \A fd \in WantsOf(s, t) : ~Asks(s, t, fd)
  /\ u.pc = "scan" /\ ~u.ready /\ t \notin s.sig =>
       \A fd \in WantsOf(s, t) \ u.todo : ~Asks(s, t, fd)
  /\ u.pc = "look" => t \in s.moved \/ u.scb \in Listed(s)

CountedFor(s, t, u, fd) ==
  /\ fd \in WantsOf(s, t)
  /\ \/ u.pc = "count" /\ fd \notin u.todo
     \/ u.pc \in {"scan", "wait"}
     \/ u.pc = "uncount" /\ fd \in u.todo

Waiters(s, w, fd) == {t \in User : CountedFor(s, t, w[t], fd)}

Selects(s, w) ==
  /\ \A t \in User : Wanted(s, w, t) /\ Selecting(s, t, w[t])
  /\ \A fd \in Fd : s.sock[fd].waiting = Cardinality(Waiters(s, w, fd))

SockInv(s, w) ==
  /\ Types(s, w) /\ Conns(s) /\ Shapes(w) /\ AllApart(w) /\ Links(s, w)
  /\ Talks(s, w) /\ Stages(s, w) /\ Counts(s, w) /\ Selects(s, w)

-----------------------------------------------------------------------------
(* Who owns what.                                                          *)

(* From s to e no netconn, queue or descriptor changes hands.              *)
LinkSame(s, e) ==
  /\ \A c \in Conn : /\ e.conn[c].used = s.conn[c].used
                     /\ e.conn[c].acceptmbox = s.conn[c].acceptmbox
                     /\ s.conn[c].socket >= 0 => e.conn[c].socket = s.conn[c].socket
                     /\ s.conn[c].socket < 0 => e.conn[c].socket < 0
  /\ \A f \in Fd : e.sock[f].conn = s.sock[f].conn

(* A task goes on without taking or giving anything.                       *)
UserSame(u, x) ==
  x.fd = u.fd /\ Brought(x) = Brought(u) /\ x.new = u.new /\ (x.pc = "free" <=> u.pc = "free")

AllSame(w, x) == \A t \in User : UserSame(w[t], x[t])

(* The fields of a task.                                                   *)
LEMMA UserFields ==
  ASSUME NEW u \in UserRec
  PROVE  /\ u.fd \in Fd \cup {NoFd} /\ u.conn \in Conn \cup {NoFd} /\ u.new \in Fd \cup {NoFd}
         /\ u.off \in BOOLEAN /\ u.todo \subseteq Fd /\ u.ready \in BOOLEAN
         /\ u.scb \in User \cup {NoUser} /\ u.got \in {"none", "data", "null"}
         /\ Brought(u) \in Conn \cup {NoFd}
BY Zenon DEF UserRec, Brought

(* Conn and Fd are the same numbers, not -1.                               *)
LEMMA NoFdIsNone == NoFd \notin Fd /\ NoFd \notin Conn /\ Fd \subseteq Nat /\ Conn = Fd
BY SocketAssumption DEF NoFd, Fd, Conn

(* The netconns and descriptors of a state.                                *)
LEMMA Entries ==
  ASSUME NEW s \in NetRec
  PROVE  /\ \A c \in Conn : s.conn[c] \in ConnRec /\ s.conn[c].socket \in Int
                            /\ s.conn[c].acceptmbox \in Seq(Conn)
         /\ \A f \in Fd : s.sock[f] \in SockRec /\ s.sock[f].conn \in Conn \cup {NoFd}
BY NetFields, ConnFields, SockFields

(* A step by which nothing changes hands keeps who owns what: netconns,    *)
(* queues and entries of sockets[].                                        *)
LEMMA LinkFrame ==
  ASSUME NEW s, NEW e, NEW w, NEW x, Types(s, w), Types(e, x), LinkSame(s, e), AllSame(w, x),
         Links(s, w)
  PROVE  Links(e, x)
<1> USE DEF AllSame
<1>1. /\ \A c \in Conn : s.conn[c].socket \in Int /\ s.conn[c].socket < NumConn
                         /\ s.conn[c].acceptmbox \in Seq(Conn)
      /\ \A f \in Fd : s.sock[f].conn \in Conn \cup {NoFd}
  BY Entries DEF Types, Bounds
<1>2. \A t \in User : w[t].fd \in Fd \cup {NoFd} /\ Brought(w[t]) \in Conn \cup {NoFd}
                      /\ w[t].new \in Fd \cup {NoFd}
  BY UserFields DEF Types
<1>3. \A c \in Conn : s.conn[c].socket >= 0 => s.conn[c].socket \in Fd
  BY <1>1, SocketAssumption DEF Fd
<1>4. \A c \in Conn : e.conn[c].socket >= 0 <=> s.conn[c].socket >= 0
  BY <1>1, Entries DEF LinkSame, Types
<1>5. \A c \in Conn : \A f \in Fd : e.conn[c].socket = f <=> s.conn[c].socket = f
  BY <1>1, <1>4, NoFdIsNone DEF LinkSame
<1>6. SockConn(e)
  BY <1>3, <1>4 DEF Links, SockConn, LinkSame
<1>7. \A t \in User : Holds(e, x[t])
  <2> SUFFICES ASSUME NEW t \in User, x[t].fd # NoFd PROVE Holds(e, x[t])
    BY DEF Holds
  <2>1. w[t].fd = x[t].fd /\ x[t].fd \in Fd /\ (x[t].pc = "free" <=> w[t].pc = "free")
    BY <1>2 DEF UserSame
  <2>2. Holds(s, w[t]) /\ e.sock[x[t].fd].conn = s.sock[x[t].fd].conn
    BY <2>1 DEF Links, LinkSame
  <2> QED BY <1>1, <1>5, <2>1, <2>2 DEF Holds
<1>8. \A t \in User : Brings(e, x[t])
  BY <1>2 DEF Brings, UserSame, LinkSame, Links
<1>9. Boxes(e, x)
  <2> SUFFICES ASSUME NEW c \in Conn, NEW i \in 1 .. Len(e.conn[c].acceptmbox)
               PROVE  Boxed(e, x, c, i)
    BY DEF Boxes
  <2>1. i \in 1 .. Len(s.conn[c].acceptmbox) /\ e.conn[c].acceptmbox[i] = s.conn[c].acceptmbox[i]
    BY DEF LinkSame
  <2>2. Boxed(s, w, c, i) /\ s.conn[c].acceptmbox[i] \in Conn
    BY <1>1, <2>1 DEF Links, Boxes
  <2> QED BY <2>1, <2>2 DEF Boxed, LinkSame, UserSame
<1>10. OwnersExist(e, x)
  BY <1>4 DEF OwnersExist, HasOwner, InBox, Links, LinkSame, UserSame
<1>11. SocksTaken(e, x)
  <2> SUFFICES ASSUME NEW f \in Fd, e.sock[f].conn # NoFd PROVE SockTaken(e, x, f)
    BY DEF SocksTaken
  <2>1. SockTaken(s, w, f) /\ e.sock[f].conn = s.sock[f].conn /\ s.sock[f].conn \in Conn
    BY <1>1 DEF Links, SocksTaken, LinkSame
  <2> QED BY <1>5, <2>1 DEF SockTaken, UserSame
<1> QED BY <1>6, <1>7, <1>8, <1>9, <1>10, <1>11 DEF Links

(* Tasks that keep their descriptors and netconns stay apart.              *)
LEMMA ApartFrame ==
  ASSUME NEW w, NEW x, AllSame(w, x), AllApart(w)
  PROVE  AllApart(x)
BY DEF AllSame, AllApart, Apart, UserSame

(* A step on one netconn that leaves its queue alone.                      *)
LEMMA TouchLinks ==
  ASSUME NEW s \in NetRec, NEW e, NEW c \in Conn, Touch(s, e, c),
         e.conn[c].used = s.conn[c].used, e.conn[c].acceptmbox = s.conn[c].acceptmbox
  PROVE  LinkSame(s, e)
<1>1. s.conn[c].socket \in Int /\ e.conn[c].socket \in Int
  BY Entries DEF Touch
<1> QED BY <1>1 DEF Touch, LinkSame

(* A task that waits for the stack waits on the netconn it brings or on    *)
(* the one of its descriptor.                                              *)
LEMMA EngagedOn ==
  ASSUME NEW s, NEW w, Types(s, w), Shapes(w), Links(s, w), Talks(s, w),
         NEW z \in User, Engaged(w[z])
  PROVE  /\ w[z].conn \in Conn
         /\ \/ /\ Brought(w[z]) = w[z].conn /\ w[z].conn # NoFd
               /\ s.conn[w[z].conn].socket < 0 /\ s.conn[w[z].conn].used
            \/ /\ w[z].fd # NoFd /\ w[z].fd \in Fd /\ w[z].op \notin {"socket", "accept"}
               /\ s.conn[w[z].conn].socket = w[z].fd /\ s.sock[w[z].fd].conn = w[z].conn
<1>1. Shape(w[z]) /\ Holds(s, w[z]) /\ Brings(s, w[z]) /\ Hears(s, z, w[z]) /\ w[z] \in UserRec
  BY DEF Shapes, Links, Talks, Types
<1>2. w[z].conn # NoFd /\ w[z].pc # "free" /\ w[z].fd \in Fd \cup {NoFd} /\ w[z].conn \in Conn
  BY <1>1, UserFields DEF Shape, Engaged
<1>3. CASE w[z].op \in {"socket", "accept"}
  BY <1>1, <1>2, <1>3 DEF Brings, Brought
<1>4. CASE w[z].op \notin {"socket", "accept"}
  <2>1. w[z].op \in OnFd
    <3>1. w[z].op \notin {"none", "select"}
      BY <1>1 DEF Shape, Engaged, IdleUser
    <3>2. w[z].op \in {"none", "socket", "bind", "connect", "listen", "send", "close", "accept",
                       "recv", "select"}
      BY <1>1 DEF UserRec
    <3> QED BY <1>4, <3>1, <3>2 DEF OnFd
  <2>2. w[z].fd # NoFd /\ w[z].conn = s.sock[w[z].fd].conn
    BY <1>1, <1>4, <2>1 DEF Shape, Hears
  <2> QED BY <1>1, <1>2, <1>4, <2>2 DEF Holds
<1> QED BY <1>3, <1>4

(* Two tasks that wait for the stack wait on two netconns.                 *)
LEMMA Alone ==
  ASSUME NEW s, NEW w, Types(s, w), Shapes(w), AllApart(w), Links(s, w), Talks(s, w),
         NEW t \in User, NEW v \in User, Engaged(w[t]), Engaged(w[v]), w[t].conn = w[v].conn
  PROVE  t = v
<1> SUFFICES ASSUME t # v PROVE FALSE
  OBVIOUS
<1>1. Apart(w[t], w[v]) /\ Apart(w[v], w[t])
  BY DEF AllApart
<1>2. \A z \in {t, v} :
        \/ Brought(w[z]) = w[z].conn /\ w[z].conn # NoFd /\ s.conn[w[z].conn].socket < 0
        \/ w[z].fd # NoFd /\ w[z].fd \in Fd /\ s.conn[w[z].conn].socket = w[z].fd
  BY EngagedOn
<1>3. \A f \in Fd : ~(f < 0)
  BY NoFdIsNone
<1>4. ~(Brought(w[t]) = w[t].conn /\ Brought(w[v]) = w[v].conn /\ w[t].conn # NoFd)
  BY <1>1 DEF Apart
<1>5. ~(w[t].fd # NoFd /\ w[t].fd = w[v].fd)
  BY <1>1 DEF Apart
<1> QED BY <1>2, <1>3, <1>4, <1>5

-----------------------------------------------------------------------------
(* What the select() calls rely on.                                        *)

(* From s to e the lists and counters of select() stay, and who now has    *)
(* what it asks for is signalled.                                          *)
SelKept(s, e) ==
  /\ e.list = s.list /\ e.want = s.want /\ s.sig \subseteq e.sig
  /\ \A f \in Fd : e.sock[f].waiting = s.sock[f].waiting
  /\ \A f \in Fd : \A t \in Listed(s) :
       s.sock[f].waiting # 0 /\ Asks(e, t, f) => Asks(s, t, f) \/ t \in e.sig

(* From s to e the descriptors that a select() looks at keep their         *)
(* netconns.                                                               *)
WantKept(s, e) ==
  \A t \in User : \A fd \in WantsOf(s, t) :
    e.sock[fd].conn # NoFd /\ e.conn[e.sock[fd].conn].socket = fd

(* From w to x no task begins, goes on with or ends a select(), or begins  *)
(* to close what one looks at; and one that goes through the list stands   *)
(* on an entry of it.                                                      *)
SelUsers(s, e, w, x) ==
  /\ \A v \in User : w[v].op = "select" \/ x[v].op = "select" => x[v] = w[v]
  /\ \A v \in User : x[v].op = "close" =>
       \/ w[v].op = "close" /\ x[v].fd = w[v].fd
       \/ \A t \in User : x[v].fd \notin WantsOf(s, t)
  /\ \A v \in User : x[v].pc = "look" => v \in e.moved \/ x[v].scb \in Listed(e)

(* The sets of a select() hold descriptors.                                *)
LEMMA WantsAreFds ==
  ASSUME NEW s \in NetRec, NEW t \in User
  PROVE  WantsOf(s, t) \subseteq Fd /\ s.want[t] \in Wants
<1>1. s.want[t] \in Wants
  BY NetFields
<1>2. CASE s.want[t] \in FdSets
  <2>1. s.want[t] \in (SUBSET Fd) \X (SUBSET Fd)
    BY <1>2, SocketAssumption DEF Fd
  <2>2. s.want[t][1] \subseteq Fd /\ s.want[t][2] \subseteq Fd
    BY <2>1
  <2> QED BY <1>1, <2>2 DEF WantsOf
<1>3. CASE s.want[t] = <<{}, {}>>
  BY <1>1, <1>3 DEF WantsOf
<1> QED BY <1>1, <1>2, <1>3 DEF Wants

(* The pcs of select() are those of a task whose op is "select".           *)
LEMMA SelectPcs ==
  ASSUME NEW w, Shapes(w), NEW t \in User, w[t].op # "select"
  PROVE  w[t].pc \notin {"count", "scan", "wait", "uncount", "remove"}
BY DEF Shapes, Shape

(* A counter of select_waiting that a task has raised is not zero.         *)
LEMMA WaitersCount ==
  ASSUME NEW s, NEW w, NEW fd \in Fd, s.sock[fd].waiting = Cardinality(Waiters(s, w, fd)),
         NEW t \in User, CountedFor(s, t, w[t], fd)
  PROVE  s.sock[fd].waiting # 0
<1>1. Waiters(s, w, fd) \in SUBSET User /\ t \in Waiters(s, w, fd) /\ IsFiniteSet(User)
  BY SocketAssumption DEF Waiters
<1>2. IsFiniteSet(Waiters(s, w, fd))
  BY <1>1, FS_Subset
<1> QED BY <1>1, <1>2, FS_EmptySet

(* A step outside select(), by which every select() that now has what it   *)
(* asks for is signalled, keeps what select() relies on (event_callback).  *)
LEMMA SelectFrame ==
  ASSUME NEW s, NEW e, NEW w, NEW x, Types(s, w), Types(e, x), Shapes(w), Shapes(x),
         SelKept(s, e), WantKept(s, e), SelUsers(s, e, w, x), Selects(s, w)
  PROVE  Selects(e, x)
<1>0. Listed(e) = Listed(s) /\ \A t : WantsOf(e, t) = WantsOf(s, t)
  BY DEF SelKept, Listed, WantsOf
<1>1. \A t \in User : Wanted(e, x, t)
  <2> SUFFICES ASSUME NEW t \in User PROVE Wanted(e, x, t)
    OBVIOUS
  <2>1. Wanted(s, w, t) /\ e.want[t] = s.want[t]
    BY DEF Selects, SelKept
  <2>2. x[t].op = "select" <=> w[t].op = "select"
    BY DEF SelUsers
  <2>3. \A fd \in WantsOf(e, t) : \A v \in User : x[v].op = "close" => x[v].fd # fd
    BY <1>0, <2>1 DEF Wanted, SelUsers
  <2> QED BY <1>0, <2>1, <2>2, <2>3 DEF Wanted, WantKept
<1>2. \A t \in User : Selecting(e, t, x[t])
  <2> SUFFICES ASSUME NEW t \in User PROVE Selecting(e, t, x[t])
    OBVIOUS
  <2>1. CASE w[t].op # "select"
    <3>1. x[t].op # "select"
      BY <2>1 DEF SelUsers
    <3>2. x[t].pc \notin {"count", "scan", "wait", "uncount", "remove"}
      BY <3>1, SelectPcs
    <3> QED BY <3>2 DEF Selecting, SelUsers
  <2>2. CASE w[t].op = "select"
    <3>1. x[t] = w[t] /\ Selecting(s, t, w[t])
      BY <2>2 DEF SelUsers, Selects
    <3>2. \A fd \in WantsOf(s, t) :
             t \notin e.sig /\ t \in Listed(s) /\ CountedFor(s, t, w[t], fd) /\ Asks(e, t, fd)
               => Asks(s, t, fd) /\ t \notin s.sig
      <4> SUFFICES ASSUME NEW fd \in WantsOf(s, t), t \notin e.sig, t \in Listed(s),
                          CountedFor(s, t, w[t], fd), Asks(e, t, fd)
                   PROVE  Asks(s, t, fd) /\ t \notin s.sig
        OBVIOUS
      <4>1. fd \in Fd
        BY WantsAreFds DEF Types
      <4>2. s.sock[fd].waiting # 0
        BY <4>1, WaitersCount DEF Selects
      <4> QED BY <4>1, <4>2 DEF SelKept
    <3>3. w[t].pc = "wait" /\ t \notin e.sig => \A fd \in WantsOf(s, t) : ~Asks(e, t, fd)
      BY <3>1, <3>2 DEF Selecting, CountedFor
    <3>4. w[t].pc = "scan" /\ ~w[t].ready /\ t \notin e.sig =>
             \A fd \in WantsOf(s, t) \ w[t].todo : ~Asks(e, t, fd)
      BY <3>1, <3>2 DEF Selecting, CountedFor
    <3>5. w[t].pc # "look"
      BY <2>2 DEF Shapes, Shape
    <3> QED BY <1>0, <3>1, <3>3, <3>4, <3>5 DEF Selecting
  <2> QED BY <2>1, <2>2
<1>3. \A fd \in Fd : e.sock[fd].waiting = Cardinality(Waiters(e, x, fd))
  <2> SUFFICES ASSUME NEW fd \in Fd PROVE e.sock[fd].waiting = Cardinality(Waiters(e, x, fd))
    OBVIOUS
  <2>1. \A t \in User : CountedFor(e, t, x[t], fd) <=> CountedFor(s, t, w[t], fd)
    <3> SUFFICES ASSUME NEW t \in User
                 PROVE CountedFor(e, t, x[t], fd) <=> CountedFor(s, t, w[t], fd)
      OBVIOUS
    <3>1. CASE w[t].op # "select"
      <4>1. x[t].op # "select"
        BY <3>1 DEF SelUsers
      <4>2. /\ x[t].pc \notin {"count", "scan", "wait", "uncount", "remove"}
            /\ w[t].pc \notin {"count", "scan", "wait", "uncount", "remove"}
        BY <3>1, <4>1, SelectPcs
      <4> QED BY <4>2 DEF CountedFor
    <3>2. CASE w[t].op = "select"
      BY <1>0, <3>2 DEF CountedFor, SelUsers
    <3> QED BY <3>1, <3>2
  <2>2. Waiters(e, x, fd) = Waiters(s, w, fd)
    BY <2>1 DEF Waiters
  <2> QED BY <2>2 DEF SelKept, Selects
<1> QED BY <1>1, <1>2, <1>3 DEF Selects

(* A step on one netconn is one that select() follows.                     *)
LEMMA TouchSelect ==
  ASSUME NEW s, NEW e, NEW w, NEW c \in Conn, Types(s, w), Selects(s, w), Touch(s, e, c)
  PROVE  SelKept(s, e) /\ WantKept(s, e)
<1>1. SelKept(s, e)
  BY DEF SelKept, Touch
<1>2. WantKept(s, e)
  <2> SUFFICES ASSUME NEW t \in User, NEW fd \in WantsOf(s, t)
               PROVE  e.sock[fd].conn # NoFd /\ e.conn[e.sock[fd].conn].socket = fd
    BY DEF WantKept
  <2>1. fd \in Fd /\ s.sock[fd].conn # NoFd /\ s.conn[s.sock[fd].conn].socket = fd
    BY WantsAreFds DEF Types, Selects, Wanted
  <2>2. s.sock[fd].conn \in Conn /\ e.sock[fd].conn = s.sock[fd].conn
    BY <2>1, Entries DEF Types, Touch
  <2>3. fd >= 0
    BY <2>1, NoFdIsNone
  <2> QED BY <2>1, <2>2, <2>3 DEF Touch
<1> QED BY <1>1, <1>2

-----------------------------------------------------------------------------
(* The thread of the stack acts on netconn c by itself.                    *)

Shows(s, e, c) ==
  s.conn[c].socket >= 0 /\ e.conn[c].pcb \in Live /\ e.conn[c].snd > SndLowat =>
    \/ e.sock[s.conn[c].socket].sendevent = 1
    \/ /\ s.conn[c].pcb \in Live /\ s.conn[c].snd > SndLowat
       /\ e.sock[s.conn[c].socket].sendevent = s.sock[s.conn[c].socket].sendevent

Served(s, e, c) ==
  LET n == s.conn[c]  m == e.conn[c]
  IN  /\ Touch(s, e, c) /\ ConnSane(m) /\ Bounds(m)
      /\ m.used = n.used /\ m.acceptmbox = n.acceptmbox
      /\ m.recvOk = n.recvOk /\ m.acceptOk = n.acceptOk
      /\ n.pcb \in {"syn", "est", "wait", "bound"}
      /\ \/ n.msg \in User /\ Ends(s, e, c) /\ (n.state = "CLOSE" => m.pcb = "none")
         \/ Stays(s, e, c)
      /\ n.fatal => m.fatal
      /\ n.recvmbox # <<>> => m.recvmbox # <<>>
      /\ m.fatal /\ ~n.fatal /\ n.recvOk => m.recvmbox # <<>>
      /\ ~m.fatal /\ n.state # "CLOSE" => Raw(e, c) - Raw(s, c) = Len(m.recvmbox) - Len(n.recvmbox)
      /\ Shows(s, e, c)

(* What a callback of the stack does on netconn c keeps types, netconns    *)
(* and owners.                                                             *)
LEMMA ServedTypes ==
  ASSUME NEW s, NEW e, NEW w, NEW c \in Conn, SockInv(s, w), Served(s, e, c)
  PROVE  Types(e, w) /\ Conns(e) /\ Links(e, w) /\ LinkSame(s, e)
<1>1. Types(e, w)
  BY DEF SockInv, Types, Served, Touch
<1>2. Conns(e)
  BY DEF SockInv, Conns, Served, Touch
<1>3. LinkSame(s, e)
  BY TouchLinks DEF SockInv, Types, Served
<1>4. AllSame(w, w)
  BY DEF AllSame, UserSame
<1>5. Links(e, w)
  BY <1>1, <1>3, <1>4, LinkFrame DEF SockInv
<1> QED BY <1>1, <1>2, <1>3, <1>5

(* A callback that ends a call answers the task whose message the netconn  *)
(* keeps, and no other.                                                    *)
LEMMA ServedTalks ==
  ASSUME NEW s, NEW e, NEW w, NEW c \in Conn, SockInv(s, w), Served(s, e, c)
  PROVE  Talks(e, w) /\ \A t \in User : Engaged(w[t]) /\ w[t].conn # c => e.ans[t] = s.ans[t]
<1>0. /\ s \in NetRec /\ e \in NetRec /\ Touch(s, e, c) /\ Talks(s, w) /\ ConnSane(s.conn[c])
      /\ \A t \in User : w[t] \in UserRec /\ Shape(w[t])
      /\ s.conn[c] \in ConnRec /\ s.conn[c].done \in Nat
      /\ e.ans \in [User -> {"unset", "ok", "err", "fatal"}]
      /\ s.ans \in [User -> {"unset", "ok", "err", "fatal"}]
  BY NetFields, ConnFields DEF SockInv, Types, Served, Touch, Conns, Shapes
<1>1. \A t \in User : /\ Engaged(w[t]) => w[t].conn \in Conn
                      /\ Engaged(w[t]) /\ w[t].op \notin {"socket", "accept"} =>
                           w[t].conn = e.sock[w[t].fd].conn
  <2> SUFFICES ASSUME NEW t \in User, Engaged(w[t])
      PROVE /\ w[t].conn \in Conn
            /\ w[t].op \notin {"socket", "accept"} => w[t].conn = e.sock[w[t].fd].conn
    OBVIOUS
  <2>1. w[t].conn \in Conn
    BY <1>0, UserFields DEF Shape
  <2>2. ASSUME w[t].op \notin {"socket", "accept"} PROVE w[t].conn = e.sock[w[t].fd].conn
    <3>1. w[t].conn = s.sock[w[t].fd].conn
      BY <1>0, <2>2 DEF Talks, Hears
    <3>2. w[t].fd \in Fd
      <4>1. w[t].op \in OnFd
        <5>1. w[t].op \in {"none", "socket", "bind", "connect", "listen", "send", "close", "accept",
                           "recv", "select"}
          BY <1>0 DEF UserRec
        <5>2. w[t].op \notin {"none", "select"}
          BY <1>0 DEF Shape, Engaged
        <5> QED BY <2>2, <5>1, <5>2 DEF OnFd
      <4> QED BY <1>0, <4>1, UserFields DEF Shape
    <3> QED BY <1>0, <3>1, <3>2 DEF Touch
  <2> QED BY <2>1, <2>2
<1>2. CASE Stays(s, e, c)
  <2>1. \A d \in Conn : /\ e.conn[d].msg = s.conn[d].msg /\ e.conn[d].done = s.conn[d].done
                        /\ e.conn[d].state = s.conn[d].state
    BY <1>0, <1>2 DEF Touch, Stays
  <2>2. e.ans = s.ans
    BY <1>2 DEF Stays
  <2>3. \A t \in User : Hears(e, t, w[t])
    BY <1>0, <1>1, <2>1, <2>2 DEF Talks, Hears, Engaged
  <2>4. \A d \in Conn : HeardOf(e, w, d)
    BY <1>0, <2>1 DEF Talks, HeardOf
  <2> QED BY <2>2, <2>3, <2>4 DEF Talks
<1>3. CASE s.conn[c].msg \in User /\ Ends(s, e, c)
  <2> DEFINE z == s.conn[c].msg
  <2>1. PICK r \in Results : e.ans = [s.ans EXCEPT ![z] = r]
    BY <1>3 DEF Ends
  <2>2. z \in User /\ z # NoUser /\ w[z].pc = "await" /\ w[z].conn = c
    BY <1>0, <1>3, SocketAssumption DEF Talks, HeardOf
  <2>3. e.ans[z] # "unset" /\ \A t \in User : t # z => e.ans[t] = s.ans[t]
    BY <1>0, <2>1, <2>2 DEF Results
  <2>4. e.conn[c].msg = NoUser /\ e.conn[c].done = 1 /\ e.conn[c].state = "NONE"
    BY <1>0, <1>3, <2>2 DEF Ends, ConnSane
  <2>5. \A t \in User : Engaged(w[t]) /\ t # z => w[t].conn # c
    BY <2>2, Alone DEF SockInv, Engaged
  <2>6. \A d \in Conn : d # c => e.conn[d] = s.conn[d]
    BY <1>0 DEF Touch
  <2>7. ASSUME NEW t \in User PROVE Hears(e, t, w[t])
    <3>1. CASE t = z
      BY <1>1, <2>2, <2>3, <2>4, <3>1 DEF Hears, Engaged
    <3>2. CASE t # z
      BY <1>0, <1>1, <2>3, <2>5, <2>6, <3>2 DEF Hears, Engaged, Talks
    <3> QED BY <3>1, <3>2
  <2>8. ASSUME NEW d \in Conn PROVE HeardOf(e, w, d)
    <3>1. CASE d = c
      BY <2>2, <2>4, <3>1 DEF HeardOf
    <3>2. CASE d # c
      BY <1>0, <2>6, <3>2 DEF HeardOf, Talks
    <3> QED BY <3>1, <3>2
  <2> QED BY <2>2, <2>3, <2>7, <2>8 DEF Talks
<1> QED BY <1>2, <1>3 DEF Served

(* A callback disturbs no task that deletes, makes or reads a netconn:     *)
(* after err_tcp there is something to fetch.                              *)
LEMMA ServedStages ==
  ASSUME NEW s, NEW e, NEW w, NEW c \in Conn, SockInv(s, w), Served(s, e, c)
  PROVE  Stages(e, w)
<1> SUFFICES ASSUME NEW t \in User PROVE Stage(e, t, w[t])
  BY DEF Stages
<1> DEFINE u == w[t]
<1>0. /\ s \in NetRec /\ Touch(s, e, c) /\ Stage(s, t, u) /\ ConnSane(s.conn[c])
      /\ u \in UserRec /\ Shape(u) /\ Holds(s, u)
      /\ \A d \in Conn : d # c => e.conn[d] = s.conn[d]
  BY DEF SockInv, Types, Served, Touch, Stages, Conns, Shapes, Links
<1>1. Closing(u) => Deleting(e.conn[u.conn])
  <2> SUFFICES ASSUME Closing(u) PROVE Deleting(e.conn[u.conn])
    OBVIOUS
  <2>1. u.conn \in Conn /\ Deleting(s.conn[u.conn])
    BY <1>0, UserFields DEF Closing, Shape, Stage
  <2>2. CASE u.conn # c
    BY <1>0, <2>1, <2>2
  <2>3. CASE u.conn = c
    <3>1. s.conn[c].msg # NoUser /\ s.conn[c].state = "CLOSE"
      BY <2>1, <2>3 DEF Deleting, Served
    <3>2. CASE Stays(s, e, c)
      BY <2>1, <2>3, <3>1, <3>2 DEF Deleting, Served, Stays
    <3>3. CASE Ends(s, e, c) /\ (s.conn[c].state = "CLOSE" => e.conn[c].pcb = "none")
      BY <2>1, <2>3, <3>1, <3>3 DEF Deleting, Served, Ends
    <3> QED BY <3>2, <3>3 DEF Served
  <2> QED BY <2>2, <2>3
<1>2. Making(u) => Fresh(e.conn[u.conn], e.ans[t])
  <2> SUFFICES ASSUME Making(u) PROVE Fresh(e.conn[u.conn], e.ans[t])
    OBVIOUS
  <2>1. u.conn \in Conn /\ Fresh(s.conn[u.conn], s.ans[t])
    BY <1>0, UserFields DEF Making, Shape, Stage
  <2>2. u.conn # c
    BY <2>1 DEF Fresh, Served
  <2>3. e.ans[t] = s.ans[t]
    BY <2>2, ServedTalks DEF Making
  <2> QED BY <1>0, <2>1, <2>2, <2>3
<1>3. u.pc = "fetch" /\ u.op = "recv" => Fetching(e.conn[e.sock[u.fd].conn], u)
  <2> SUFFICES ASSUME u.pc = "fetch", u.op = "recv" PROVE Fetching(e.conn[e.sock[u.fd].conn], u)
    OBVIOUS
  <2>1. u.fd \in Fd /\ s.sock[u.fd].conn # NoFd
    BY <1>0, UserFields DEF Shape, OnFd, Holds
  <2>2. e.sock[u.fd].conn = s.sock[u.fd].conn /\ s.sock[u.fd].conn \in Conn
    BY <1>0, <2>1, Entries DEF Touch
  <2>3. Fetching(s.conn[s.sock[u.fd].conn], u)
    BY <1>0 DEF Stage
  <2>4. s.conn[c].fatal \in BOOLEAN /\ e.conn[c].fatal \in BOOLEAN
    BY <1>0, NetFields, ConnFields DEF Touch
  <2>5. CASE s.sock[u.fd].conn = c
    BY <2>2, <2>3, <2>4, <2>5 DEF Fetching, Served
  <2>6. CASE s.sock[u.fd].conn # c
    BY <1>0, <2>2, <2>3, <2>6
  <2> QED BY <2>5, <2>6
<1> QED BY <1>1, <1>2, <1>3 DEF Stage

(* What counts for a netconn that is not c.                                *)
LEMMA OthersCount ==
  ASSUME NEW s, NEW e, NEW w, NEW c \in Conn, NEW d \in Conn, d # c, Types(s, w), SockConn(s),
         Touch(s, e, c)
  PROVE  /\ e.conn[d] = s.conn[d] /\ Raw(e, d) = Raw(s, d)
         /\ s.conn[d].socket >= 0 => e.sock[s.conn[d].socket] = s.sock[s.conn[d].socket]
<1>1. e.conn[d] = s.conn[d] /\ s.conn[d].socket \in Int /\ s.conn[d].socket < NumConn
  BY Entries DEF Touch, Types, Bounds
<1>2. ASSUME s.conn[d].socket >= 0
      PROVE e.sock[s.conn[d].socket] = s.sock[s.conn[d].socket]
  <2>1. s.conn[d].socket \in Fd
    BY <1>1, <1>2, SocketAssumption DEF Fd
  <2>2. s.conn[d].socket # s.conn[c].socket
    BY <1>2 DEF SockConn
  <2> QED BY <2>1, <2>2 DEF Touch
<1>3. Raw(e, d) = Raw(s, d)
  BY <1>1, <1>2 DEF Raw
<1> QED BY <1>1, <1>2, <1>3

(* A descriptor that accept() has reserved is nobody's yet.                *)
LEMMA OthersSlot ==
  ASSUME NEW s, NEW e, NEW w, NEW c \in Conn, NEW u \in UserRec, Types(s, w), SockConn(s),
         Brings(s, u), Touch(s, e, c), SlotFresh(s, u)
  PROVE  SlotFresh(e, u)
<1> SUFFICES ASSUME u.new # NoFd PROVE SlotFresh(e, u)
  BY DEF SlotFresh
<1>0. u.new \in Fd \cup {NoFd} /\ Brought(u) \in Conn \cup {NoFd}
  BY UserFields
<1>1. u.new \in Fd /\ Brought(u) \in Conn
  BY <1>0, Zenon DEF Brings
<1>2. s.conn[c].socket # u.new
  <2> SUFFICES ASSUME s.conn[c].socket = u.new PROVE FALSE
    OBVIOUS
  <2>0. \A f \in Fd : f >= 0 /\ ~(f < 0)
    BY NoFdIsNone
  <2>1. u.new >= 0 /\ ~(u.new < 0)
    BY <1>1, <2>0, Zenon
  <2>2. s.sock[u.new].conn = c
    BY <2>1 DEF SockConn
  <2>3. Brought(u) = c /\ s.conn[c].socket < 0
    BY <1>1, <2>2, Zenon DEF Brings
  <2> QED BY <2>1, <2>3
<1> QED BY <1>1, <1>2 DEF Touch, SlotFresh

(* A callback counts in rcvevent what it puts in the mailbox, and shows    *)
(* room to send.                                                           *)
LEMMA ServedCounts ==
  ASSUME NEW s, NEW e, NEW w, NEW c \in Conn, SockInv(s, w), Served(s, e, c)
  PROVE  Counts(e, w)
<1>0. /\ s \in NetRec /\ Touch(s, e, c) /\ Counts(s, w) /\ Types(s, w) /\ SockConn(s) /\ Talks(s, w)
      /\ s.conn[c] \in ConnRec /\ e.conn[c] \in ConnRec /\ e \in NetRec
      /\ ConnSane(s.conn[c])
  BY NetFields DEF SockInv, Types, Served, Touch, Links, Conns
<1>1. \A d \in Conn : d # c => CountOf(e, w, d) /\ Writable(e, d)
  <2> SUFFICES ASSUME NEW d \in Conn, d # c PROVE CountOf(e, w, d) /\ Writable(e, d)
    OBVIOUS
  <2>1. /\ e.conn[d] = s.conn[d] /\ Raw(e, d) = Raw(s, d)
        /\ s.conn[d].socket >= 0 => e.sock[s.conn[d].socket] = s.sock[s.conn[d].socket]
    BY <1>0, OthersCount
  <2> QED BY <1>0, <2>1, Zenon DEF Counts, CountOf, Writable
<1>2. CountOf(e, w, c)
  <2> SUFFICES ASSUME e.conn[c].used, ~e.conn[c].fatal, Unclosed(w, c)
               PROVE Raw(e, c) - Pending(w, e.conn[c].socket)
                       = Len(e.conn[c].recvmbox) + Len(e.conn[c].acceptmbox)
    BY Zenon DEF CountOf
  <2>1. s.conn[c].used /\ ~s.conn[c].fatal /\ e.conn[c].acceptmbox = s.conn[c].acceptmbox
    BY <1>0, ConnFields DEF Served
  <2>2. s.conn[c].state # "CLOSE"
    <3> SUFFICES ASSUME s.conn[c].state = "CLOSE" PROVE FALSE
      OBVIOUS
    <3>1. s.conn[c].msg # NoUser /\ s.conn[c].msg \in User
      BY <1>0, ConnFields DEF ConnSane, Busy
    <3>2. Closing(w[s.conn[c].msg]) /\ w[s.conn[c].msg].conn = c
      BY <1>0, <3>1 DEF Talks, HeardOf, Closing, Engaged
    <3> QED BY <3>1, <3>2 DEF Unclosed
  <2>3. Raw(s, c) - Pending(w, s.conn[c].socket)
          = Len(s.conn[c].recvmbox) + Len(s.conn[c].acceptmbox)
    BY <1>0, <2>1, Zenon DEF Counts, CountOf
  <2>4. Raw(e, c) - Raw(s, c) = Len(e.conn[c].recvmbox) - Len(s.conn[c].recvmbox)
    BY <2>2, Zenon DEF Served
  <2>5. Pending(w, e.conn[c].socket) = Pending(w, s.conn[c].socket)
    <3>1. s.conn[c].socket \in Int /\ e.conn[c].socket \in Int
      BY <1>0, Entries
    <3> QED BY <1>0, <3>1 DEF Touch, Pending
  <2>6. /\ Raw(e, c) \in Int /\ Raw(s, c) \in Int /\ Pending(w, s.conn[c].socket) \in Int
        /\ Len(e.conn[c].recvmbox) \in Nat /\ Len(s.conn[c].recvmbox) \in Nat
        /\ Len(s.conn[c].acceptmbox) \in Nat
    <3>1. \A g \in NetRec : Bounds(g.conn[c]) => Raw(g, c) \in Int
      <4> SUFFICES ASSUME NEW g \in NetRec, Bounds(g.conn[c]) PROVE Raw(g, c) \in Int
        OBVIOUS
      <4>1. g.conn[c].socket \in Int
        BY Entries
      <4>2. CASE g.conn[c].socket < 0
        BY <4>1, <4>2 DEF Raw
      <4>3. CASE ~(g.conn[c].socket < 0)
        <5>1. g.conn[c].socket \in Fd
          BY <4>1, <4>3, SocketAssumption DEF Fd, Bounds
        <5> DEFINE k == g.sock[g.conn[c].socket]
        <5>2. k \in SockRec
          BY <5>1, Entries
        <5> HIDE DEF k
        <5>3. k.rcvevent \in Int
          BY <5>2, SockFields
        <5>4. Raw(g, c) = k.rcvevent
          BY <4>3 DEF Raw, k
        <5> QED BY <5>3, <5>4
      <4> QED BY <4>1, <4>2, <4>3
    <3>2. Raw(e, c) \in Int /\ Raw(s, c) \in Int
      BY <1>0, <3>1 DEF Types, Served
    <3>3. Pending(w, s.conn[c].socket) \in Int
      <4>1. 0 \in Int /\ 1 \in Int
        OBVIOUS
      <4> QED BY <4>1, Zenon DEF Pending
    <3>4. /\ e.conn[c].recvmbox \in Seq({"data", "null"}) /\ s.conn[c].recvmbox \in Seq({"data", "null"})
          /\ s.conn[c].acceptmbox \in Seq(Conn)
      BY <1>0, ConnFields
    <3>5. \A S : \A q \in Seq(S) : Len(q) \in Nat
      OBVIOUS
    <3>6. Len(e.conn[c].recvmbox) \in Nat /\ Len(s.conn[c].recvmbox) \in Nat
          /\ Len(s.conn[c].acceptmbox) \in Nat
      BY <3>4, <3>5, Zenon
    <3> QED BY <3>2, <3>3, <3>6
  <2> DEFINE a == Raw(e, c)
             b == Raw(s, c)
             p == Pending(w, s.conn[c].socket)
             l == Len(e.conn[c].recvmbox)
             k == Len(s.conn[c].recvmbox)
             q == Len(s.conn[c].acceptmbox)
  <2>7. a - p = l + q
    <3>1. a \in Int /\ b \in Int /\ p \in Int /\ l \in Nat /\ k \in Nat /\ q \in Nat
          /\ b - p = k + q /\ a - b = l - k
      BY <2>3, <2>4, <2>6, Zenon
    <3> HIDE DEF a, b, p, l, k, q
    <3> QED BY <3>1
  <2> QED BY <2>1, <2>5, <2>7, Zenon
<1>3. Writable(e, c)
  <2> SUFFICES ASSUME e.conn[c].socket >= 0, e.conn[c].pcb \in Live, e.conn[c].snd > SndLowat
               PROVE  e.sock[e.conn[c].socket].sendevent = 1
    BY DEF Writable
  <2>1. s.conn[c].socket >= 0 /\ e.conn[c].socket = s.conn[c].socket
    <3>1. s.conn[c].socket \in Int /\ e.conn[c].socket \in Int
      BY <1>0, Entries
    <3> QED BY <1>0, <3>1 DEF Touch
  <2> QED BY <1>0, <2>1 DEF Served, Shows, Counts, Writable
<1>4. \A t \in User : SlotFresh(e, w[t])
  <2> SUFFICES ASSUME NEW t \in User PROVE SlotFresh(e, w[t])
    OBVIOUS
  <2>1. w[t] \in UserRec /\ Brings(s, w[t]) /\ SlotFresh(s, w[t])
    BY DEF SockInv, Types, Links, Counts
  <2> QED BY <1>0, <2>1, OthersSlot
<1> QED BY <1>1, <1>2, <1>3, <1>4 DEF Counts

(* What a callback of the stack does on netconn c keeps the invariant.     *)
LEMMA ServedKeeps ==
  ASSUME NEW s, NEW e, NEW w, NEW c \in Conn, SockInv(s, w), Served(s, e, c)
  PROVE  SockInv(e, w)
<1>1. Types(e, w) /\ Conns(e) /\ Links(e, w)
  BY ServedTypes
<1>2. Talks(e, w) /\ Stages(e, w) /\ Counts(e, w)
  BY ServedTalks, ServedStages, ServedCounts
<1>3. Selects(e, w)
  <2>0. Types(s, w) /\ Selects(s, w) /\ Touch(s, e, c) /\ Shapes(w)
    BY DEF SockInv, Served
  <2>1. SelKept(s, e) /\ WantKept(s, e)
    BY <2>0, TouchSelect
  <2>2. Listed(e) = Listed(s) /\ e.moved = s.moved
    BY <2>0 DEF Touch, Listed
  <2>3. \A v \in User : w[v].pc = "look" => v \in e.moved \/ w[v].scb \in Listed(e)
    BY <2>0, <2>2 DEF Selects, Selecting
  <2>4. SelUsers(s, e, w, w)
    BY <2>3 DEF SelUsers
  <2> QED BY <1>1, <2>0, <2>1, <2>4, SelectFrame
<1> QED BY <1>1, <1>2, <1>3 DEF SockInv

-----------------------------------------------------------------------------
(* What the thread of the stack does by itself.                            *)

(* All of a netconn but its descriptor.                                    *)
Alike(n, m) ==
  /\ Kept(n, m) /\ m.pcb = n.pcb /\ m.state = n.state /\ m.snd = n.snd
  /\ m.msg = n.msg /\ m.done = n.done

(* An event changes no field of the netconn but its descriptor.            *)
LEMMA AlikeButSocket ==
  ASSUME NEW n \in ConnRec, NEW m, m = [n EXCEPT !.socket = m.socket]
  PROVE  Alike(n, m)
<1>1. /\ m.used = n.used /\ m.type = n.type /\ m.fatal = n.fatal
      /\ m.recvOk = n.recvOk /\ m.recvmbox = n.recvmbox
      /\ m.acceptOk = n.acceptOk /\ m.acceptmbox = n.acceptmbox
      /\ m.pcb = n.pcb /\ m.state = n.state /\ m.snd = n.snd
      /\ m.msg = n.msg /\ m.done = n.done
  BY Zenon DEF ConnRec
<1> QED BY <1>1, Zenon DEF Alike, Kept

(* The end of a call changes its message, its state and its answer.        *)
LEMMA OverFields ==
  ASSUME NEW s \in NetRec, NEW e, NEW c \in Conn, NEW r, Over(s, e, c, r)
  PROVE  /\ Kept(s.conn[c], e.conn[c]) /\ e.conn[c].pcb = s.conn[c].pcb
         /\ e.conn[c].snd = s.conn[c].snd /\ e.conn[c].socket = s.conn[c].socket
         /\ e.conn[c].msg = NoUser /\ e.conn[c].state = "NONE"
         /\ e.conn[c].done = s.conn[c].done + 1
<1> DEFINE x == s.conn[c]
           m == e.conn[c]
<1>1. x \in ConnRec
  BY NetFields
<1>2. m = [x EXCEPT !.msg = NoUser, !.state = "NONE", !.left = 0, !.done = x.done + 1]
  BY DEF Over
<1> HIDE DEF x, m
<1>3. /\ m.used = x.used /\ m.type = x.type /\ m.fatal = x.fatal
      /\ m.recvOk = x.recvOk /\ m.recvmbox = x.recvmbox
      /\ m.acceptOk = x.acceptOk /\ m.acceptmbox = x.acceptmbox
      /\ m.pcb = x.pcb /\ m.snd = x.snd /\ m.socket = x.socket
      /\ m.msg = NoUser /\ m.state = "NONE" /\ m.done = x.done + 1
  BY <1>1, <1>2, Zenon DEF ConnRec
<1>4. Kept(x, m)
  BY <1>3, Zenon DEF Kept
<1> QED BY <1>3, <1>4 DEF x, m

(* What the invariant says of one netconn.                                 *)
LEMMA ConnFacts ==
  ASSUME NEW s, NEW w, SockInv(s, w), NEW c \in Conn
  PROVE  /\ s \in NetRec /\ Fit(s, c) /\ s.conn[c] \in ConnRec /\ ConnSane(s.conn[c])
         /\ Bounds(s.conn[c])
         /\ s.conn[c].state \in Busy => s.conn[c].msg \in User /\ s.conn[c].msg # NoUser
<1>1. s \in NetRec /\ Bounds(s.conn[c]) /\ ConnSane(s.conn[c]) /\ SockConn(s)
  BY DEF SockInv, Types, Conns, Links
<1>2. s.conn[c] \in ConnRec
  BY <1>1, NetFields
<1>3. Fit(s, c)
  BY <1>1, NoFdIsNone DEF Fit, SockConn, Bounds
<1>4. s.conn[c].msg \in User \cup {NoUser}
  BY <1>2, ConnFields
<1> QED BY <1>1, <1>2, <1>3, <1>4 DEF ConnSane

(* rcvevent and the lengths of the mailboxes are numbers.                  *)
LEMMA RawInt ==
  ASSUME NEW s, NEW c \in Conn, Fit(s, c)
  PROVE  /\ Raw(s, c) \in Int /\ Raw(s, c) - Raw(s, c) = 0
         /\ Len(s.conn[c].recvmbox) \in Nat /\ Len(s.conn[c].acceptmbox) \in Nat
         /\ Len(s.conn[c].recvmbox) - Len(s.conn[c].recvmbox) = 0
<1>1. s \in NetRec /\ s.conn[c].socket \in Int
  BY Entries DEF Fit
<1>2. Raw(s, c) \in Int
  <2>1. CASE s.conn[c].socket < 0
    BY <1>1, <2>1 DEF Raw
  <2>2. CASE ~(s.conn[c].socket < 0)
    <3> DEFINE k == s.sock[s.conn[c].socket]
    <3>1. s.conn[c].socket \in Fd
      BY <1>1, <2>2, SocketAssumption DEF Fd, Fit
    <3>2. k \in SockRec
      BY <1>1, <3>1, Entries
    <3> HIDE DEF k
    <3>3. k.rcvevent \in Int
      BY <3>2, SockFields
    <3>4. Raw(s, c) = k.rcvevent
      BY <2>2 DEF Raw, k
    <3> QED BY <3>3, <3>4
  <2> QED BY <2>1, <2>2
<1>3. s.conn[c].recvmbox \in Seq({"data", "null"}) /\ s.conn[c].acceptmbox \in Seq(Conn)
  BY <1>1, NetFields, ConnFields
<1>4. \A S : \A q \in Seq(S) : Len(q) \in Nat
  OBVIOUS
<1>5. Len(s.conn[c].recvmbox) \in Nat /\ Len(s.conn[c].acceptmbox) \in Nat
  BY <1>3, <1>4, Zenon
<1>6. \A i \in Int : i - i = 0
  OBVIOUS
<1>7. Nat \subseteq Int
  OBVIOUS
<1> QED BY <1>2, <1>5, <1>6, <1>7, Zenon

(* A netconn with a pcb is in use.                                         *)
LEMMA PcbUsed ==
  ASSUME NEW n \in ConnRec, ConnSane(n), n.pcb # "none"
  PROVE  n.used
BY Zenon DEF ConnSane, FreeConn, netconn_alloc

(* tcp_connect has succeeded: do_connected.                                *)
LEMMA ConnectedServed ==
  ASSUME NEW s, NEW w, SockInv(s, w), NEW c \in Conn,
         s.conn[c].pcb = "syn", s.conn[c].state = "CONNECT"
  PROVE  Served(s, Completed(event_callback(
                     [s EXCEPT !.conn[c].pcb = "est", !.conn[c].snd = SndBuf],
                     c, "SENDPLUS"), c, "ok"), c)
<1> DEFINE n == s.conn[c]
           m == [n EXCEPT !.pcb = "est", !.snd = SndBuf]
           v == [s EXCEPT !.conn[c].pcb = "est", !.conn[c].snd = SndBuf]
           b == PutConn(s, c, m)
           g == event_callback(b, c, "SENDPLUS")
           e == Completed(g, c, "ok")
<1>1. /\ s \in NetRec /\ Fit(s, c) /\ n \in ConnRec /\ ConnSane(n) /\ Bounds(n) /\ n.msg \in User
      /\ n.msg # NoUser /\ n.done \in Nat /\ SndLowat \in Int
  BY ConnFacts, ConnFields, SocketAssumption DEF Busy
<1>2. v = b
  BY <1>1, Zenon DEF PutConn, NetRec
<1>3. Completed(event_callback(v, c, "SENDPLUS"), c, "ok") = e
  <2> HIDE DEF v, b
  <2> QED BY <1>2
<1>4. m \in ConnRec /\ Kept(n, m) /\ m.pcb = "est" /\ m.socket = n.socket /\ m.msg = n.msg
      /\ m.done = n.done
  <2>1. "est" \in Pcbs /\ SndBuf \in 0 .. SndBuf
    BY SocketAssumption DEF Pcbs
  <2> QED BY <1>1, <2>1, Zenon DEF ConnRec, Kept
<1> HIDE DEF m
<1>5. OnlyConn(s, b, c, m) /\ Touch(s, b, c) /\ SameCounts(s, b, c)
  BY <1>1, <1>4, PutConnFields, PutConnTouch
<1> HIDE DEF b
<1>6. Fit(b, c) /\ b.conn[c] = m /\ b.ans = s.ans
  BY <1>1, <1>5, FitTouch DEF OnlyConn
<1>7. Told(b, g, c, "SENDPLUS")
  BY <1>6, EventTold DEF Fit
<1> HIDE DEF g
<1>8. Alike(m, g.conn[c]) /\ g \in NetRec /\ Touch(s, g, c)
  <2>1. Touch(b, g, c) /\ g.conn[c] = [m EXCEPT !.socket = g.conn[c].socket]
    BY <1>6, <1>7 DEF Told
  <2>2. Alike(m, g.conn[c])
    BY <1>4, <2>1, AlikeButSocket
  <2>3. Touch(s, g, c)
    BY <1>1, <1>5, <2>1, TouchTrans
  <2> QED BY <2>2, <2>3 DEF Touch
<1>9. g.conn[c].msg \in User /\ "ok" \in Results
  BY <1>1, <1>4, <1>8 DEF Alike, Results
<1>10. Over(g, e, c, "ok")
  BY <1>8, <1>9, CompletedFields
<1> HIDE DEF e
<1>11. /\ Kept(g.conn[c], e.conn[c]) /\ e.conn[c].pcb = g.conn[c].pcb
       /\ e.conn[c].msg = NoUser /\ e.conn[c].state = "NONE" /\ e.conn[c].done = g.conn[c].done + 1
  BY <1>8, <1>10, OverFields
<1>12. Touch(s, e, c)
  BY <1>1, <1>8, <1>10, TouchTrans DEF Over
<1>13. Kept(n, e.conn[c]) /\ e.conn[c].pcb = "est" /\ e.conn[c].done = n.done + 1
  BY <1>4, <1>8, <1>11 DEF Alike, Kept
<1>14. Ends(s, e, c)
  BY <1>4, <1>6, <1>7, <1>8, <1>9, <1>10, <1>11, <1>13 DEF Ends, Over, Alike, Told
<1>15. ConnSane(e.conn[c])
  <2>1. n.used
    BY <1>1, PcbUsed
  <2> QED BY <1>1, <1>11, <1>13, <2>1 DEF ConnSane, Kept, Busy, Live
<1>16. Bounds(e.conn[c])
  BY <1>1, <1>12, <1>13, FitTouch DEF Bounds, Fit, Kept
<1>17. Raw(e, c) = Raw(s, c)
  BY <1>5, <1>7, <1>10 DEF SameCounts, Told, Over
<1>18. s.conn[c].socket >= 0 => e.sock[s.conn[c].socket].sendevent = 1
  <2> SUFFICES ASSUME s.conn[c].socket >= 0 PROVE e.sock[s.conn[c].socket].sendevent = 1
    OBVIOUS
  <2>1. b.conn[c].socket = n.socket /\ g.conn[c].socket = n.socket
    BY <1>4, <1>6, <1>7 DEF Told, Touch
  <2>2. g.sock[n.socket].sendevent = 1
    BY <1>7, <2>1 DEF Told
  <2> QED BY <1>10, <2>1, <2>2 DEF Over, SameCounts
<1>19. Raw(e, c) - Raw(s, c) = Len(e.conn[c].recvmbox) - Len(n.recvmbox)
  BY <1>1, <1>13, <1>17, RawInt DEF Kept
<1> QED BY <1>1, <1>3, <1>12, <1>13, <1>14, <1>15, <1>16, <1>18, <1>19, Zenon DEF Served, Shows, Kept

(* A segment or a datagram goes into the mailbox: recv_tcp, recv_udp.      *)
LEMMA ReceivedServed ==
  ASSUME NEW s, NEW w, SockInv(s, w), NEW c \in Conn, NEW p \in {"data", "null"}, NEW q,
         (s.conn[c].pcb = q /\ q \in {"est", "bound"}) \/ (s.conn[c].pcb = "est" /\ q = "wait"),
         Len(s.conn[c].recvmbox) < RecvMbox
  PROVE  LET m == [s.conn[c] EXCEPT !.pcb = q, !.recvmbox = Append(s.conn[c].recvmbox, p)]
         IN  Served(s, event_callback(PutConn(s, c, m), c, "RCVPLUS"), c)
<1> DEFINE n == s.conn[c]
           box == Append(n.recvmbox, p)
           m == [n EXCEPT !.pcb = q, !.recvmbox = box]
           b == PutConn(s, c, m)
           e == event_callback(b, c, "RCVPLUS")
<1>1. /\ s \in NetRec /\ Fit(s, c) /\ n \in ConnRec /\ ConnSane(n) /\ Bounds(n)
      /\ n.recvmbox \in Seq({"data", "null"}) /\ n.used /\ RecvMbox \in Nat
  BY ConnFacts, ConnFields, PcbUsed, SocketAssumption
<1>2. box \in Seq({"data", "null"}) /\ Len(box) = Len(n.recvmbox) + 1 /\ box # <<>>
      /\ Len(n.recvmbox) \in Nat
  <2>1. Len(n.recvmbox) \in Nat
    BY <1>1, RawInt
  <2> QED BY <1>1, <2>1, AppendProperties
<1> HIDE DEF box
<1>3. m \in ConnRec
  <2>1. q \in Pcbs
    BY DEF Pcbs
  <2> QED BY <1>1, <1>2, <2>1, Zenon DEF ConnRec
<1>4. /\ m.used = n.used /\ m.type = n.type /\ m.pcb = q /\ m.state = n.state /\ m.socket = n.socket
      /\ m.recvOk = n.recvOk /\ m.recvmbox = box /\ m.acceptOk = n.acceptOk
      /\ m.acceptmbox = n.acceptmbox /\ m.fatal = n.fatal /\ m.snd = n.snd
      /\ m.msg = n.msg /\ m.done = n.done
  BY <1>1, Zenon DEF ConnRec
<1> HIDE DEF m
<1>5. OnlyConn(s, b, c, m) /\ Touch(s, b, c) /\ SameCounts(s, b, c)
  BY <1>1, <1>3, <1>4, PutConnFields, PutConnTouch
<1> HIDE DEF b
<1>6. Fit(b, c) /\ b.conn[c] = m /\ b.ans = s.ans
  BY <1>1, <1>5, FitTouch DEF OnlyConn
<1>7. Told(b, e, c, "RCVPLUS")
  BY <1>6, EventTold DEF Fit
<1> HIDE DEF e
<1>8. Touch(b, e, c) /\ e.conn[c] = [m EXCEPT !.socket = e.conn[c].socket] /\ e.ans = s.ans
  BY <1>6, <1>7 DEF Told
<1>9. Alike(m, e.conn[c])
  BY <1>3, <1>8, AlikeButSocket
<1>10. Touch(s, e, c) /\ Fit(e, c)
  BY <1>1, <1>5, <1>8, TouchTrans, FitTouch
<1>11. Raw(e, c) = Raw(s, c) + 1 /\ Raw(s, c) \in Int
  BY <1>1, <1>5, <1>7, RawInt DEF Told, SameCounts
<1>12. n.socket >= 0 => e.sock[n.socket].sendevent = s.sock[n.socket].sendevent
  BY <1>4, <1>5, <1>6, <1>7 DEF Told, SameCounts
<1>13. Stays(s, e, c)
  BY <1>4, <1>8, <1>9 DEF Stays, Alike
<1>14. ConnSane(e.conn[c])
  <2>1. n.pcb \in {"est", "bound"}
    OBVIOUS
  <2>2. /\ e.conn[c].used = n.used /\ e.conn[c].acceptOk = n.acceptOk /\ e.conn[c].msg = n.msg
        /\ e.conn[c].state = n.state /\ e.conn[c].pcb = q /\ e.conn[c].acceptmbox = n.acceptmbox
        /\ e.conn[c].done = n.done
    BY <1>4, <1>9 DEF Alike, Kept
  <2>3. ~n.acceptOk
    BY <1>1, <2>1 DEF ConnSane
  <2> QED BY <1>1, <2>1, <2>2, <2>3 DEF ConnSane, Busy, Live
<1>15. Bounds(e.conn[c])
  BY <1>1, <1>2, <1>4, <1>9, <1>10 DEF Bounds, Fit, Alike, Kept
<1>16. Raw(e, c) - Raw(s, c) = Len(e.conn[c].recvmbox) - Len(n.recvmbox)
  BY <1>2, <1>4, <1>9, <1>11 DEF Alike, Kept
<1>17. Shows(s, e, c)
  BY <1>4, <1>9, <1>12 DEF Shows, Alike, Live
<1>18. /\ e.conn[c].used = n.used /\ e.conn[c].acceptmbox = n.acceptmbox
       /\ e.conn[c].recvOk = n.recvOk /\ e.conn[c].acceptOk = n.acceptOk
       /\ e.conn[c].fatal = n.fatal /\ e.conn[c].recvmbox # <<>>
  BY <1>2, <1>4, <1>9 DEF Alike, Kept
<1>19. Served(s, e, c)
  BY <1>10, <1>13, <1>14, <1>15, <1>16, <1>17, <1>18, Zenon DEF Served
<1> QED BY <1>19 DEF e, b, m, box

(* The mailbox is full and the peer has closed: only the pcb knows.        *)
LEMMA ShutServed ==
  ASSUME NEW s, NEW w, SockInv(s, w), NEW c \in Conn, s.conn[c].pcb = "est"
  PROVE  Served(s, PutConn(s, c, [s.conn[c] EXCEPT !.pcb = "wait"]), c)
<1> DEFINE n == s.conn[c]
           m == [n EXCEPT !.pcb = "wait"]
           e == PutConn(s, c, m)
<1>1. /\ s \in NetRec /\ Fit(s, c) /\ n \in ConnRec /\ ConnSane(n) /\ Bounds(n) /\ n.used
  BY ConnFacts, PcbUsed
<1>3. m \in ConnRec
  <2>1. "wait" \in Pcbs
    BY DEF Pcbs
  <2> QED BY <1>1, <2>1, Zenon DEF ConnRec
<1>4. /\ m.used = n.used /\ m.type = n.type /\ m.pcb = "wait" /\ m.state = n.state
      /\ m.socket = n.socket /\ m.recvOk = n.recvOk /\ m.recvmbox = n.recvmbox
      /\ m.acceptOk = n.acceptOk /\ m.acceptmbox = n.acceptmbox /\ m.fatal = n.fatal
      /\ m.snd = n.snd /\ m.msg = n.msg /\ m.done = n.done
  BY <1>1, Zenon DEF ConnRec
<1> HIDE DEF m
<1>5. OnlyConn(s, e, c, m) /\ Touch(s, e, c) /\ SameCounts(s, e, c)
  BY <1>1, <1>3, <1>4, PutConnFields, PutConnTouch
<1> HIDE DEF e
<1>6. e.conn[c] = m /\ e.ans = s.ans
  BY <1>5 DEF OnlyConn
<1>7. ConnSane(m)
  BY <1>1, <1>4 DEF ConnSane, Busy, Live
<1>8. Raw(e, c) - Raw(s, c) = Len(m.recvmbox) - Len(n.recvmbox)
  BY <1>1, <1>4, <1>5, RawInt DEF SameCounts
<1>9. Shows(s, e, c)
  BY <1>4, <1>5, <1>6 DEF Shows, SameCounts, Live
<1>10. Stays(s, e, c) /\ Bounds(m)
  BY <1>1, <1>4, <1>6 DEF Stays, Bounds
<1>11. Served(s, e, c)
  BY <1>4, <1>5, <1>6, <1>7, <1>8, <1>9, <1>10, Zenon DEF Served
<1> QED BY <1>11 DEF e, m

(* Served, but for what is shown writable.                                 *)
Advanced(s, e, c) ==
  LET n == s.conn[c]  m == e.conn[c]
  IN  /\ Touch(s, e, c) /\ ConnSane(m) /\ Bounds(m) /\ Kept(n, m)
      /\ n.pcb \in Live /\ m.pcb \in {n.pcb, "none"}
      /\ \/ n.msg \in User /\ Ends(s, e, c) /\ (n.state = "CLOSE" => m.pcb = "none")
         \/ Stays(s, e, c)
      /\ n.state # "CLOSE" => Raw(e, c) = Raw(s, c)

(* A callback that changes pcb, mailbox, room or error of a netconn is one *)
(* of those.                                                               *)
LEMMA AdvancedServed ==
  ASSUME NEW s, NEW w, SockInv(s, w), NEW e, NEW c \in Conn, Advanced(s, e, c), Shows(s, e, c)
  PROVE  Served(s, e, c)
<1>1. Fit(s, c)
  BY ConnFacts
<1>2. s.conn[c].state # "CLOSE" => Raw(e, c) - Raw(s, c) = Len(e.conn[c].recvmbox) - Len(s.conn[c].recvmbox)
  BY <1>1, RawInt DEF Advanced, Kept
<1> QED BY <1>2 DEF Advanced, Kept, Served, Live

(* A write or a close that waits goes on, with more room than before.      *)
LEMMA GoesOn ==
  ASSUME NEW s, NEW w, SockInv(s, w), NEW c \in Conn, s.conn[c].pcb \in Live,
         NEW b, Touch(s, b, c), SameCounts(s, b, c), b.ans = s.ans,
         Kept(s.conn[c], b.conn[c]), b.conn[c].pcb = s.conn[c].pcb,
         b.conn[c].state = s.conn[c].state, b.conn[c].msg = s.conn[c].msg,
         b.conn[c].done = s.conn[c].done,
         NEW e \in Continued(b, c)
  PROVE  /\ Advanced(s, e, c)
         /\ e = b \/ e.conn[c].pcb = "none" \/ RoomShown(b, e, c)
<1> DEFINE n == s.conn[c]
           m == b.conn[c]
<1>1. /\ s \in NetRec /\ Fit(s, c) /\ n \in ConnRec /\ ConnSane(n) /\ Bounds(n) /\ n.used
      /\ n.state \in Busy => n.msg \in User /\ n.msg # NoUser
      /\ n.done \in Nat
  <2>1. n.pcb # "none"
    BY DEF Live
  <2> QED BY <2>1, ConnFacts, ConnFields, PcbUsed
<1>2. Fit(b, c) /\ (m.state \in Busy => m.msg \in User)
  BY <1>1, FitTouch
<1>3. \/ e = b
      \/ m.state = "CLOSE" /\ Closed(b, e, c)
      \/ m.state = "WRITE" /\ \E r \in tcp_write(b, c) : Wrote(b, e, c, r)
  BY <1>2, ContinuedFields
<1>4. Raw(b, c) = Raw(s, c) /\ b.conn[c].used /\ ~n.acceptOk /\ n.state # "CONNECT"
  BY <1>1 DEF SameCounts, Kept, ConnSane, Live
<1>5. CASE e = b
  <2>1. Stays(s, e, c)
    BY <1>5 DEF Stays
  <2>2. ConnSane(m)
    BY <1>1, <1>4 DEF ConnSane, Kept, Live
  <2>3. Bounds(m)
    BY <1>1, <1>2 DEF Bounds, Fit, Kept
  <2> QED BY <1>4, <1>5, <2>1, <2>2, <2>3 DEF Advanced
<1>6. CASE n.state = "CLOSE" /\ Closed(b, e, c)
  <2>1. Touch(s, e, c) /\ Fit(e, c)
    BY <1>1, <1>6, TouchTrans, FitTouch DEF Closed
  <2>2. Kept(n, e.conn[c]) /\ e.conn[c].pcb = "none" /\ n.msg \in User
    BY <1>1, <1>6, Zenon DEF Closed, Kept, Busy
  <2>3. Ends(s, e, c)
    BY <1>6 DEF Closed, Ends
  <2>4. ConnSane(e.conn[c])
    BY <1>1, <1>4, <1>6, <2>2, <2>3 DEF ConnSane, Ends, Kept, Busy, Live
  <2>5. Bounds(e.conn[c])
    BY <1>1, <2>1, <2>2 DEF Bounds, Fit, Kept
  <2> QED BY <1>6, <2>1, <2>2, <2>3, <2>4, <2>5 DEF Advanced
<1>7. CASE n.state = "WRITE" /\ \E r \in tcp_write(b, c) : Wrote(b, e, c, r)
  <2>0. PICK r \in tcp_write(b, c) : Wrote(b, e, c, r)
    BY <1>7
  <2>1. Touch(s, e, c) /\ Fit(e, c)
    BY <1>1, <2>0, TouchTrans, FitTouch DEF Wrote
  <2>2. Kept(n, e.conn[c]) /\ e.conn[c].pcb = n.pcb /\ n.msg \in User
    BY <1>1, <1>7, <2>0, Zenon DEF Wrote, Kept, Busy
  <2>3. Ends(s, e, c) \/ Stays(s, e, c)
    BY <2>0 DEF Wrote, Ends, Stays
  <2>4. ConnSane(e.conn[c])
    <3>1. CASE Ends(s, e, c)
      BY <1>1, <1>4, <1>7, <2>2, <3>1 DEF ConnSane, Ends, Kept, Busy, Live
    <3>2. CASE Stays(s, e, c)
      BY <1>1, <1>4, <1>7, <2>2, <3>2 DEF ConnSane, Stays, Kept, Busy, Live
    <3> QED BY <2>3, <3>1, <3>2
  <2>5. Bounds(e.conn[c])
    BY <1>1, <2>1, <2>2 DEF Bounds, Fit, Kept
  <2>6. Raw(e, c) = Raw(s, c)
    BY <1>4, <2>0 DEF Wrote
  <2> QED BY <1>7, <2>0, <2>1, <2>2, <2>3, <2>4, <2>5, <2>6 DEF Advanced, Wrote
<1> QED BY <1>3, <1>5, <1>6, <1>7 DEF Closed

(* poll_tcp *)
LEMMA PolledServed ==
  ASSUME NEW s, NEW w, SockInv(s, w), NEW c \in Conn, s.conn[c].state \in {"WRITE", "CLOSE"},
         NEW e \in Continued(s, c)
  PROVE  Served(s, e, c)
<1>1. s \in NetRec /\ ConnSane(s.conn[c]) /\ s.conn[c].socket \in Int /\ s.conn[c] \in ConnRec
  BY ConnFacts, ConnFields
<1>2. s.conn[c].pcb \in Live
  BY <1>1 DEF ConnSane
<1>3. Touch(s, s, c) /\ SameCounts(s, s, c)
  BY <1>1 DEF Touch, SameCounts
<1>4. Kept(s.conn[c], s.conn[c])
  BY DEF Kept
<1>5. Advanced(s, e, c) /\ (e = s \/ e.conn[c].pcb = "none" \/ RoomShown(s, e, c))
  BY <1>2, <1>3, <1>4, GoesOn
<1>6. Shows(s, e, c)
  <2>1. CASE e = s
    BY <2>1 DEF Shows
  <2>2. CASE e.conn[c].pcb = "none"
    BY <2>2 DEF Shows, Live
  <2>3. CASE RoomShown(s, e, c)
    BY <1>2, <2>3 DEF Shows, RoomShown
  <2> QED BY <1>5, <2>1, <2>2, <2>3
<1> QED BY <1>5, <1>6, AdvancedServed

(* sent_tcp *)
LEMMA SentServed ==
  ASSUME NEW s, NEW w, SockInv(s, w), NEW c \in Conn, s.conn[c].pcb \in Live,
         NEW k \in 1 .. SndBuf - s.conn[c].snd,
         NEW e \in Continued([s EXCEPT !.conn[c].snd = @ + k], c)
  PROVE  Served(s, IF e.conn[c].pcb # "none" /\ e.conn[c].snd > SndLowat
                   THEN event_callback(e, c, "SENDPLUS") ELSE e, c)
<1> DEFINE n == s.conn[c]
           m == [n EXCEPT !.snd = n.snd + k]
           b == PutConn(s, c, m)
           g == IF e.conn[c].pcb # "none" /\ e.conn[c].snd > SndLowat
                THEN event_callback(e, c, "SENDPLUS") ELSE e
<1>1. s \in NetRec /\ n \in ConnRec /\ n.snd \in 0 .. SndBuf /\ SndBuf \in Nat /\ Fit(s, c)
  BY ConnFacts, ConnFields, SocketAssumption
<1>2. n.snd + k \in 0 .. SndBuf
  BY <1>1
<1>3. m \in ConnRec
  BY <1>1, <1>2, Zenon DEF ConnRec
<1>4. Kept(n, m) /\ m.pcb = n.pcb /\ m.state = n.state /\ m.msg = n.msg /\ m.done = n.done
      /\ m.socket = n.socket
  BY <1>1, Zenon DEF ConnRec, Kept
<1>5. [s EXCEPT !.conn[c].snd = @ + k] = b
  BY <1>1, Zenon DEF PutConn, NetRec
<1> HIDE DEF m
<1>6. OnlyConn(s, b, c, m) /\ Touch(s, b, c) /\ SameCounts(s, b, c)
  BY <1>1, <1>3, <1>4, PutConnFields, PutConnTouch
<1> HIDE DEF b
<1>7. b.conn[c] = m /\ b.ans = s.ans
  BY <1>6 DEF OnlyConn
<1>8. Advanced(s, e, c)
  BY <1>4, <1>5, <1>6, <1>7, GoesOn
<1>9. CASE e.conn[c].pcb # "none" /\ e.conn[c].snd > SndLowat
  <2>1. Fit(e, c) /\ Touch(s, e, c) /\ e.conn[c] \in ConnRec /\ e \in NetRec
    <3>1. Touch(s, e, c)
      BY <1>8 DEF Advanced
    <3>2. Fit(e, c)
      BY <1>1, <3>1, FitTouch
    <3>3. e \in NetRec
      BY <3>1 DEF Touch
    <3> QED BY <3>1, <3>2, <3>3, NetFields
  <2>2. g = event_callback(e, c, "SENDPLUS")
    BY <1>9
  <2> HIDE DEF g
  <2>3. Told(e, g, c, "SENDPLUS")
    BY <2>1, <2>2, EventTold DEF Fit
  <2>4. Touch(s, g, c) /\ Fit(g, c)
    BY <1>1, <2>1, <2>3, TouchTrans, FitTouch DEF Told
  <2>5. Alike(e.conn[c], g.conn[c])
    BY <2>1, <2>3, AlikeButSocket DEF Told
  <2>6. Raw(g, c) = Raw(e, c) /\ g.ans = e.ans
    BY <2>3 DEF Told
  <2>7. Kept(n, g.conn[c]) /\ g.conn[c].pcb = e.conn[c].pcb
    BY <1>8, <2>5 DEF Advanced, Kept, Alike
  <2>8. Bounds(g.conn[c]) /\ ConnSane(g.conn[c])
    <3>1. g.conn[c].used /\ ~g.conn[c].acceptOk
      <4>1. n.used /\ ~n.acceptOk
        <5>1. n.pcb # "none" /\ ConnSane(n)
          BY ConnFacts DEF Live
        <5> QED BY <1>1, <5>1, PcbUsed DEF ConnSane, Live
      <4> QED BY <2>7, <4>1 DEF Kept
    <3>2. Bounds(g.conn[c])
      BY <1>8, <2>4, <2>5 DEF Advanced, Bounds, Fit, Alike, Kept
    <3> QED BY <1>8, <2>5, <3>1, <3>2 DEF Advanced, ConnSane, Alike, Kept
  <2>9. Ends(s, e, c) => Ends(s, g, c)
    BY <2>5, <2>6 DEF Ends, Alike
  <2>10. Stays(s, e, c) => Stays(s, g, c)
    BY <2>5, <2>6 DEF Stays, Alike
  <2>11. Advanced(s, g, c)
    BY <1>8, <2>4, <2>6, <2>7, <2>8, <2>9, <2>10 DEF Advanced
  <2>12. Shows(s, g, c)
    <3>1. s.conn[c].socket >= 0 => e.conn[c].socket = s.conn[c].socket
      BY <2>1 DEF Touch
    <3> QED BY <2>3, <3>1 DEF Shows, Told
  <2>13. Served(s, g, c)
    BY <2>11, <2>12, AdvancedServed
  <2> QED BY <2>13 DEF g
<1>10. CASE ~(e.conn[c].pcb # "none" /\ e.conn[c].snd > SndLowat)
  <2>1. Shows(s, e, c)
    BY <1>10 DEF Shows, Live
  <2> QED BY <1>8, <1>10, <2>1, AdvancedServed
<1> QED BY <1>9, <1>10

(* err_tcp *)
LEMMA ResetServed ==
  ASSUME NEW s, NEW w, SockInv(s, w), NEW c \in Conn, s.conn[c].pcb \in {"syn"} \cup Live
  PROVE  LET v == [s EXCEPT !.conn[c].pcb = "none", !.conn[c].fatal = TRUE]
             e == event_callback(event_callback(v, c, "RCVPLUS"), c, "SENDPLUS")
             m == IF e.conn[c].recvOk /\ Len(e.conn[c].recvmbox) < RecvMbox
                  THEN [e EXCEPT !.conn[c].recvmbox = Append(@, "null")] ELSE e
         IN  Served(s, IF s.conn[c].state \in {"WRITE", "CLOSE", "CONNECT"}
                       THEN Completed(m, c, "fatal") ELSE m, c)
<1> DEFINE n == s.conn[c]
           v == [s EXCEPT !.conn[c].pcb = "none", !.conn[c].fatal = TRUE]
           y == [n EXCEPT !.pcb = "none", !.fatal = TRUE]
           b == PutConn(s, c, y)
           e == event_callback(event_callback(b, c, "RCVPLUS"), c, "SENDPLUS")
           full == ~(e.conn[c].recvOk /\ Len(e.conn[c].recvmbox) < RecvMbox)
           a == [e EXCEPT !.conn[c].recvmbox = Append(@, "null")]
           m == IF full THEN e ELSE a
           g == IF n.state \in {"WRITE", "CLOSE", "CONNECT"} THEN Completed(m, c, "fatal") ELSE m
<1>1. /\ s \in NetRec /\ Fit(s, c) /\ n \in ConnRec /\ ConnSane(n) /\ Bounds(n) /\ n.used
      /\ n.state \in Busy => n.msg \in User /\ n.msg # NoUser
      /\ n.done \in Nat /\ n.recvmbox \in Seq({"data", "null"}) /\ Len(n.recvmbox) \in Nat
      /\ n.recvOk \in BOOLEAN /\ n.state \in Busy \cup {"NONE", "LISTEN"}
  <2>1. n.pcb # "none"
    BY DEF Live
  <2> QED BY <2>1, ConnFacts, ConnFields, PcbUsed, RawInt
<1>2. v = b
  BY <1>1, Zenon DEF PutConn, NetRec
<1>3. y \in ConnRec
  <2>1. "none" \in Pcbs
    BY DEF Pcbs
  <2> QED BY <1>1, <2>1, Zenon DEF ConnRec
<1>4. /\ y.used = n.used /\ y.pcb = "none" /\ y.state = n.state /\ y.socket = n.socket
      /\ y.recvOk = n.recvOk /\ y.recvmbox = n.recvmbox /\ y.acceptOk = n.acceptOk
      /\ y.acceptmbox = n.acceptmbox /\ y.fatal = TRUE /\ y.msg = n.msg /\ y.done = n.done
  BY <1>1, Zenon DEF ConnRec
<1> HIDE DEF y
<1>5. OnlyConn(s, b, c, y) /\ Touch(s, b, c)
  BY <1>1, <1>3, <1>4, PutConnFields, PutConnTouch
<1> HIDE DEF b, v
<1>6. Fit(b, c) /\ b.conn[c] = y /\ b.ans = s.ans
  BY <1>1, <1>5, FitTouch DEF OnlyConn
<1>7. ToldBoth(b, e, c)
  BY <1>6, BothTold
<1>8. LET ev == event_callback(event_callback(v, c, "RCVPLUS"), c, "SENDPLUS")
      IN  ev = e
  BY <1>2
<1> HIDE DEF e
<1>9. Touch(s, e, c) /\ Fit(e, c) /\ e.ans = s.ans /\ e \in NetRec
  <2>1. Touch(s, e, c)
    BY <1>1, <1>5, <1>7, TouchTrans DEF ToldBoth
  <2> QED BY <1>1, <1>6, <1>7, <2>1, FitTouch DEF ToldBoth, Touch
<1>10. Alike(y, e.conn[c]) /\ e.conn[c] \in ConnRec
  BY <1>3, <1>6, <1>7, <1>9, AlikeButSocket, NetFields DEF ToldBoth
(* What the reset leaves in the netconn.                                   *)
<1> DEFINE Left(h) ==
             /\ Touch(s, h, c) /\ h.conn[c].used /\ h.conn[c].pcb = "none"
             /\ h.conn[c].recvOk = n.recvOk /\ h.conn[c].acceptOk = n.acceptOk
             /\ h.conn[c].acceptmbox = n.acceptmbox /\ h.conn[c].fatal = TRUE
             /\ Len(h.conn[c].recvmbox) <= RecvMbox
             /\ n.recvmbox # <<>> => h.conn[c].recvmbox # <<>>
             /\ n.recvOk => h.conn[c].recvmbox # <<>>
<1>11. Left(m) /\ Stays(s, m, c)
  <2> DEFINE x == e.conn[c]
  <2>1. /\ x.recvmbox = n.recvmbox /\ x.recvOk = n.recvOk /\ x.acceptOk = n.acceptOk
        /\ x.acceptmbox = n.acceptmbox /\ x.fatal = TRUE /\ x.pcb = "none" /\ x.used
        /\ x.msg = n.msg /\ x.state = n.state /\ x.done = n.done
    BY <1>1, <1>4, <1>10 DEF Alike, Kept
  <2>2. Len(n.recvmbox) <= RecvMbox /\ RecvMbox \in Nat \ {0}
    BY <1>1, SocketAssumption DEF Bounds
  <2>3. CASE full
    <3>1. m = e
      BY <2>3
    <3>2. n.recvOk => Len(n.recvmbox) >= RecvMbox
      BY <1>1, <2>1, <2>2, <2>3
    <3>3. n.recvOk => n.recvmbox # <<>>
      BY <1>1, <2>2, <3>2, EmptySeq
    <3> HIDE DEF m
    <3> QED BY <1>9, <2>1, <2>2, <3>1, <3>3 DEF Stays
  <2>4. CASE ~full
    <3> DEFINE box == Append(n.recvmbox, "null")
               z == [x EXCEPT !.recvmbox = box]
    <3>1. box \in Seq({"data", "null"}) /\ box # <<>> /\ Len(box) <= RecvMbox
      <4>1. Len(n.recvmbox) < RecvMbox
        BY <2>1, <2>4
      <4>2. box \in Seq({"data", "null"}) /\ box # <<>> /\ Len(box) = Len(n.recvmbox) + 1
        BY <1>1, AppendProperties
      <4> QED BY <1>1, <2>2, <4>1, <4>2
    <3>2. m = PutConn(e, c, z)
      <4>1. m = a
        BY <2>4
      <4>2. a = [e EXCEPT !.conn[c].recvmbox = box]
        BY <1>9, <2>1, Zenon DEF NetRec
      <4> HIDE DEF box, a, m, x
      <4>3. [e EXCEPT !.conn[c].recvmbox = box] = PutConn(e, c, [e.conn[c] EXCEPT !.recvmbox = box])
        BY <1>9, Zenon DEF NetRec, PutConn
      <4> QED BY <4>1, <4>2, <4>3 DEF x
    <3> HIDE DEF box
    <3>3. x \in ConnRec
      BY <1>10
    <3> HIDE DEF m, a, x
    <3>4. z \in ConnRec /\ z.socket = x.socket
      BY <3>1, <3>3, Zenon DEF ConnRec
    <3>5. /\ z.used = x.used /\ z.pcb = x.pcb /\ z.state = x.state
          /\ z.recvOk = x.recvOk /\ z.recvmbox = box /\ z.acceptOk = x.acceptOk
          /\ z.acceptmbox = x.acceptmbox /\ z.fatal = x.fatal /\ z.msg = x.msg /\ z.done = x.done
      BY <3>3, Zenon DEF ConnRec
    <3> HIDE DEF z
    <3>6. OnlyConn(e, m, c, z) /\ Touch(e, m, c)
      BY <1>9, <3>2, <3>4, PutConnFields, PutConnTouch DEF x
    <3>7. Touch(s, m, c)
      BY <1>1, <1>9, <3>6, TouchTrans
    <3>8. m.conn[c] = z /\ m.ans = e.ans
      BY <3>6 DEF OnlyConn
    <3> QED BY <1>9, <2>1, <3>1, <3>5, <3>7, <3>8, Zenon DEF Stays
  <2> QED BY <2>3, <2>4, Zenon
<1> HIDE DEF m
<1>12. Left(g) /\ g.conn[c].state \in {"NONE", "LISTEN"} /\ g.conn[c].msg = NoUser
       /\ g.conn[c].done \in {0, 1}
       /\ ((n.msg \in User /\ Ends(s, g, c)) \/ Stays(s, g, c))
  <2>1. CASE n.state \in Busy
    <3>1. g = Completed(m, c, "fatal") /\ m \in NetRec /\ m.conn[c].msg \in User /\ "fatal" \in Results
      BY <1>1, <1>11, <2>1 DEF Busy, Stays, Results, Touch
    <3> HIDE DEF g
    <3>2. Over(m, g, c, "fatal")
      BY <3>1, CompletedFields
    <3>3. /\ Kept(m.conn[c], g.conn[c]) /\ g.conn[c].pcb = m.conn[c].pcb
          /\ g.conn[c].msg = NoUser /\ g.conn[c].state = "NONE"
          /\ g.conn[c].done = m.conn[c].done + 1
      BY <3>1, <3>2, OverFields
    <3>4. Touch(s, g, c)
      BY <1>1, <1>11, <3>2, TouchTrans DEF Over
    <3>5. Left(g)
      BY <1>11, <3>3, <3>4 DEF Kept
    <3>6. n.msg \in User /\ Ends(s, g, c)
      BY <1>1, <1>11, <2>1, <3>1, <3>2, <3>3 DEF Ends, Stays, Over
    <3>7. g.conn[c].done = 1
      BY <1>1, <1>11, <2>1, <3>3 DEF Stays, ConnSane
    <3> QED BY <3>3, <3>5, <3>6, <3>7
  <2>2. CASE n.state \notin Busy
    <3>1. g = m
      BY <2>2 DEF Busy
    <3> HIDE DEF g
    <3> QED BY <1>1, <1>11, <2>2, <3>1 DEF Stays, ConnSane
  <2> QED BY <2>1, <2>2, Zenon
<1>13. ~n.acceptOk
  BY <1>1 DEF ConnSane, Live
<1>14. g = IF s.conn[c].state \in {"WRITE", "CLOSE", "CONNECT"} THEN Completed(m, c, "fatal") ELSE m
  OBVIOUS
<1> HIDE DEF g
<1>15. ConnSane(g.conn[c])
  <2>1. g.conn[c].state = "NONE"
    <3>1. CASE Ends(s, g, c)
      BY <3>1 DEF Ends
    <3>2. CASE Stays(s, g, c)
      BY <1>1, <1>12, <1>13, <3>2 DEF Stays, ConnSane
    <3> QED BY <1>12, <3>1, <3>2
  <2>2. n.acceptmbox = <<>>
    BY <1>1, <1>13 DEF ConnSane
  <2> QED BY <1>12, <1>13, <2>1, <2>2 DEF ConnSane, Busy
<1>16. Bounds(g.conn[c])
  BY <1>1, <1>12, FitTouch DEF Bounds, Fit
<1>17. Shows(s, g, c)
  BY <1>12 DEF Shows, Live
<1>18. Served(s, g, c)
  <2>1. n.pcb \in {"syn", "est", "wait", "bound"}
    BY DEF Live
  <2> QED BY <1>1, <1>12, <1>15, <1>16, <1>17, <2>1, Zenon DEF Served
<1>19. m = IF e.conn[c].recvOk /\ Len(e.conn[c].recvmbox) < RecvMbox
           THEN [e EXCEPT !.conn[c].recvmbox = Append(@, "null")] ELSE e
  BY DEF m
<1> QED BY <1>8, <1>14, <1>18, <1>19, Zenon DEF v

(* The thread of the stack, accept_function apart.                         *)
LEMMA StackKeeps ==
  ASSUME SockInv(net, user), NEW c \in Conn,
         \/ do_connected(c) \/ recv_tcp(c) \/ recv_udp(c)
         \/ sent_tcp(c) \/ poll_tcp(c) \/ err_tcp(c)
  PROVE  SockInv(net', user')
<1> DEFINE n == net.conn[c]
<1>0. net \in NetRec /\ n \in ConnRec
  BY ConnFacts
<1>1. user' = user
  BY Zenon DEF do_connected, recv_tcp, recv_udp, sent_tcp, poll_tcp, err_tcp, Callback
<1>2. Served(net, net', c) => SockInv(net', user')
  BY <1>1, ServedKeeps
<1>3. CASE do_connected(c)
  <2>1. Served(net, net', c)
    BY <1>3, ConnectedServed, Zenon DEF do_connected
  <2> QED BY <1>2, <2>1
<1>4. CASE recv_tcp(c)
  <2>1. PICK p \in {"data", "null"} :
          LET s == IF p = "null" THEN [net EXCEPT !.conn[c].pcb = "wait"] ELSE net
          IN  IF Len(net.conn[c].recvmbox) < RecvMbox
              THEN net' = event_callback([s EXCEPT !.conn[c].recvmbox = Append(@, p)], c, "RCVPLUS")
              ELSE net' = s
    BY <1>4, Zenon DEF recv_tcp
  <2>2. n.pcb = "est"
    BY <1>4 DEF recv_tcp
  <2> DEFINE q == IF p = "null" THEN "wait" ELSE "est"
             m == [n EXCEPT !.pcb = q, !.recvmbox = Append(n.recvmbox, p)]
             s == IF p = "null" THEN [net EXCEPT !.conn[c].pcb = "wait"] ELSE net
  <2>3. CASE Len(n.recvmbox) < RecvMbox
    <3>1. net' = event_callback([s EXCEPT !.conn[c].recvmbox = Append(@, p)], c, "RCVPLUS")
      BY <2>1, <2>3
    <3>2. [s EXCEPT !.conn[c].recvmbox = Append(@, p)] = PutConn(net, c, m)
      <4>1. CASE p = "null"
        <5>1. s = [net EXCEPT !.conn[c].pcb = "wait"] /\ q = "wait"
          BY <4>1
        <5> HIDE DEF s, q
        <5> QED BY <1>0, <5>1, Zenon DEF PutConn, NetRec, ConnRec
      <4>2. CASE p # "null"
        <5>1. s = net /\ q = "est"
          BY <4>2
        <5>2. n = [n EXCEPT !.pcb = "est"]
          BY <1>0, <2>2, Zenon DEF ConnRec
        <5>3. [n EXCEPT !.recvmbox = Append(n.recvmbox, p)] = m
          <6> HIDE DEF q
          <6> QED BY <1>0, <2>2, <5>1, Zenon DEF ConnRec
        <5>4. [net EXCEPT !.conn[c].recvmbox = Append(@, p)]
                = PutConn(net, c, [n EXCEPT !.recvmbox = Append(n.recvmbox, p)])
          BY <1>0, Zenon DEF PutConn, NetRec
        <5> HIDE DEF s, m
        <5> QED BY <5>1, <5>3, <5>4, Zenon
      <4> QED BY <4>1, <4>2
    <3>3. (net.conn[c].pcb = q /\ q \in {"est", "bound"}) \/ (net.conn[c].pcb = "est" /\ q = "wait")
      <4>1. CASE p = "null"
        BY <2>2, <4>1
      <4>2. CASE p # "null"
        <5>1. q = "est"
          BY <4>2
        <5> HIDE DEF q
        <5> QED BY <2>2, <5>1, Zenon
      <4> QED BY <4>1, <4>2
    <3> HIDE DEF s, q
    <3>4. Served(net, event_callback(PutConn(net, c, m), c, "RCVPLUS"), c)
      BY <2>3, <3>3, ReceivedServed, Zenon
    <3> HIDE DEF m
    <3> QED BY <1>2, <3>1, <3>2, <3>4, Zenon
  <2>4. CASE ~(Len(n.recvmbox) < RecvMbox)
    <3>1. CASE p = "null"
      <4>1. net' = [net EXCEPT !.conn[c].pcb = "wait"]
        BY <2>1, <2>4, <3>1
      <4>2. [net EXCEPT !.conn[c].pcb = "wait"] = PutConn(net, c, [n EXCEPT !.pcb = "wait"])
        BY <1>0, Zenon DEF PutConn, NetRec
      <4>3. Served(net, PutConn(net, c, [n EXCEPT !.pcb = "wait"]), c)
        BY <2>2, ShutServed
      <4> QED BY <1>2, <4>1, <4>2, <4>3
    <3>2. CASE p # "null"
      <4>1. net' = net
        BY <2>1, <2>4, <3>2
      <4> QED BY <1>1, <4>1
    <3> QED BY <3>1, <3>2
  <2> QED BY <2>3, <2>4
<1>5. CASE recv_udp(c)
  <2>1. n.pcb = "bound" /\ Len(n.recvmbox) < RecvMbox
        /\ net' = event_callback([net EXCEPT !.conn[c].recvmbox = Append(@, "data")], c, "RCVPLUS")
    BY <1>5 DEF recv_udp
  <2> DEFINE m == [n EXCEPT !.pcb = "bound", !.recvmbox = Append(n.recvmbox, "data")]
  <2>2. [net EXCEPT !.conn[c].recvmbox = Append(@, "data")] = PutConn(net, c, m)
    <3>1. [n EXCEPT !.recvmbox = Append(n.recvmbox, "data")] = m
      BY <1>0, <2>1, Zenon DEF ConnRec
    <3>2. [net EXCEPT !.conn[c].recvmbox = Append(@, "data")]
            = PutConn(net, c, [n EXCEPT !.recvmbox = Append(n.recvmbox, "data")])
      BY <1>0, Zenon DEF PutConn, NetRec
    <3> HIDE DEF m
    <3> QED BY <3>1, <3>2, Zenon
  <2>3. Served(net, event_callback(PutConn(net, c, m), c, "RCVPLUS"), c)
    <3> DEFINE q == "bound"
    <3>0. net.conn[c].pcb = q /\ q = "bound"
      BY <2>1
    <3> HIDE DEF q
    <3>1. (net.conn[c].pcb = q /\ q \in {"est", "bound"}) \/ (net.conn[c].pcb = "est" /\ q = "wait")
      BY <3>0, Zenon
    <3>2. "data" \in {"data", "null"}
      OBVIOUS
    <3> HIDE DEF q
    <3>3. LET z == [net.conn[c] EXCEPT !.pcb = q, !.recvmbox = Append(net.conn[c].recvmbox, "data")]
          IN  Served(net, event_callback(PutConn(net, c, z), c, "RCVPLUS"), c)
      BY <2>1, <3>1, <3>2, ReceivedServed, Zenon
    <3> QED BY <3>3 DEF q
  <2> HIDE DEF m
  <2> QED BY <1>2, <2>1, <2>2, <2>3
<1>6. CASE sent_tcp(c)
  <2>0. PICK k \in 1 .. SndBuf - net.conn[c].snd :
          \E e \in Continued([net EXCEPT !.conn[c].snd = @ + k], c) :
            net' = IF e.conn[c].pcb # "none" /\ e.conn[c].snd > SndLowat
                   THEN event_callback(e, c, "SENDPLUS") ELSE e
    BY <1>6, Zenon DEF sent_tcp
  <2>1. PICK e \in Continued([net EXCEPT !.conn[c].snd = @ + k], c) :
          net' = IF e.conn[c].pcb # "none" /\ e.conn[c].snd > SndLowat
                 THEN event_callback(e, c, "SENDPLUS") ELSE e
    BY <2>0
  <2>2. n.pcb \in Live
    BY <1>6 DEF sent_tcp
  <2>3. Served(net, IF e.conn[c].pcb # "none" /\ e.conn[c].snd > SndLowat
                    THEN event_callback(e, c, "SENDPLUS") ELSE e, c)
    BY <2>2, SentServed, Zenon
  <2> QED BY <1>2, <2>1, <2>3, Zenon
<1>7. CASE poll_tcp(c)
  <2>1. Served(net, net', c)
    BY <1>7, PolledServed DEF poll_tcp
  <2> QED BY <1>2, <2>1
<1>8. CASE err_tcp(c)
  <2>1. n.pcb \in {"syn"} \cup Live
    BY <1>8, Zenon DEF err_tcp
  <2>2. Served(net, net', c)
    <3> DEFINE v == [net EXCEPT !.conn[c].pcb = "none", !.conn[c].fatal = TRUE]
               e == event_callback(event_callback(v, c, "RCVPLUS"), c, "SENDPLUS")
               m == IF e.conn[c].recvOk /\ Len(e.conn[c].recvmbox) < RecvMbox
                    THEN [e EXCEPT !.conn[c].recvmbox = Append(@, "null")] ELSE e
               g == IF net.conn[c].state \in {"WRITE", "CLOSE", "CONNECT"}
                    THEN Completed(m, c, "fatal") ELSE m
    <3>1. net' = g
      BY <1>8, Zenon DEF err_tcp
    <3>2. Served(net, g, c)
      BY <2>1, ResetServed, Zenon
    <3> HIDE DEF g
    <3> QED BY <3>1, <3>2
  <2> QED BY <1>2, <2>2
<1> QED BY <1>3, <1>4, <1>5, <1>6, <1>7, <1>8

-----------------------------------------------------------------------------
(* A step of one task on the netconns of C.                                *)

(* No task but t has to do with netconn c.                                 *)
Private(s, w, t, c) ==
  \A v \in User : v # t =>
    /\ Engaged(w[v]) => w[v].conn # c
    /\ Brought(w[v]) # c
    /\ w[v].fd # NoFd /\ w[v].pc # "free" => s.sock[w[v].fd].conn # c

(* A netconn whose descriptor no other task uses.                          *)
LEMMA PrivateFd ==
  ASSUME NEW s, NEW w, SockInv(s, w), NEW t \in User, NEW c \in Conn, s.conn[c].socket \in Fd,
         \A v \in User : v # t => w[v].fd # s.conn[c].socket
  PROVE  Private(s, w, t, c)
<1> SUFFICES ASSUME NEW v \in User, v # t
             PROVE  /\ Engaged(w[v]) => w[v].conn # c
                    /\ Brought(w[v]) # c
                    /\ w[v].fd # NoFd /\ w[v].pc # "free" => s.sock[w[v].fd].conn # c
  BY DEF Private
<1>0. \A f \in Fd : ~(f < 0)
  BY NoFdIsNone
<1>1. Types(s, w) /\ Shapes(w) /\ Links(s, w) /\ Talks(s, w) /\ Brings(s, w[v]) /\ Holds(s, w[v])
  BY DEF SockInv, Links
<1>2. Brought(w[v]) # c
  BY <1>0, <1>1, NoFdIsNone, Zenon DEF Brings
<1>3. Engaged(w[v]) => w[v].conn # c
  BY <1>0, <1>1, EngagedOn
<1>4. w[v].fd # NoFd /\ w[v].pc # "free" => s.sock[w[v].fd].conn # c
  BY <1>1 DEF Holds
<1> QED BY <1>2, <1>3, <1>4

(* A netconn that has no descriptor, and that no other task brings.        *)
LEMMA PrivateNew ==
  ASSUME NEW s, NEW w, SockInv(s, w), NEW t \in User, NEW c \in Conn, s.conn[c].socket < 0,
         \A v \in User : v # t => Brought(w[v]) # c
  PROVE  Private(s, w, t, c)
<1> SUFFICES ASSUME NEW v \in User, v # t
             PROVE  /\ Engaged(w[v]) => w[v].conn # c
                    /\ Brought(w[v]) # c
                    /\ w[v].fd # NoFd /\ w[v].pc # "free" => s.sock[w[v].fd].conn # c
  BY DEF Private
<1>0. \A f \in Fd : ~(f < 0)
  BY NoFdIsNone
<1>1. /\ Types(s, w) /\ Shapes(w) /\ Links(s, w) /\ Talks(s, w) /\ Brings(s, w[v]) /\ Holds(s, w[v])
      /\ w[v].fd \in Fd \cup {NoFd}
  BY UserFields DEF SockInv, Links, Types
<1>3. Engaged(w[v]) => w[v].conn # c
  BY <1>0, <1>1, EngagedOn
<1>4. w[v].fd # NoFd /\ w[v].pc # "free" => s.sock[w[v].fd].conn # c
  BY <1>0, <1>1 DEF Holds
<1> QED BY <1>3, <1>4

(* The descriptor of a task that is in a call is used by no other.         *)
LEMMA PrivateCall ==
  ASSUME NEW s, NEW w, SockInv(s, w), NEW t \in User, w[t].fd # NoFd, w[t].pc # "free"
  PROVE  /\ w[t].fd \in Fd /\ s.sock[w[t].fd].conn \in Conn
         /\ s.conn[s.sock[w[t].fd].conn].socket = w[t].fd
         /\ s.conn[s.sock[w[t].fd].conn].used
         /\ Private(s, w, t, s.sock[w[t].fd].conn)
<1>1. w[t].fd \in Fd /\ Holds(s, w[t]) /\ s \in NetRec
  BY UserFields DEF SockInv, Links, Types
<1>2. s.sock[w[t].fd].conn \in Conn /\ s.conn[s.sock[w[t].fd].conn].socket = w[t].fd
  BY <1>1, Entries DEF Holds
<1>3. \A v \in User : v # t => w[v].fd # w[t].fd
  BY DEF SockInv, AllApart, Apart
<1>4. Private(s, w, t, s.sock[w[t].fd].conn)
  BY <1>1, <1>2, <1>3, PrivateFd
<1>5. s.conn[s.sock[w[t].fd].conn].used
  <2>1. w[t].fd # -1
    BY <1>1, NoFdIsNone DEF NoFd
  <2> QED BY <1>2, <2>1, Zenon DEF SockInv, Conns, ConnSane, FreeConn, netconn_alloc
<1> QED BY <1>1, <1>2, <1>4, <1>5

(* The netconn that a task brings is brought by no other.                  *)
LEMMA PrivateBrought ==
  ASSUME NEW s, NEW w, SockInv(s, w), NEW t \in User, Brought(w[t]) # NoFd
  PROVE  /\ Brought(w[t]) \in Conn /\ s.conn[Brought(w[t])].socket < 0
         /\ s.conn[Brought(w[t])].used /\ Private(s, w, t, Brought(w[t]))
<1>1. Brought(w[t]) \in Conn /\ Brings(s, w[t])
  BY UserFields DEF SockInv, Links, Types
<1>2. s.conn[Brought(w[t])].socket < 0 /\ s.conn[Brought(w[t])].used
  BY <1>1 DEF Brings
<1>3. \A v \in User : v # t => Brought(w[v]) # Brought(w[t])
  BY DEF SockInv, AllApart, Apart
<1> QED BY <1>1, <1>2, <1>3, PrivateNew

(* A free netconn.                                                         *)
LEMMA PrivateFree ==
  ASSUME NEW s, NEW w, SockInv(s, w), NEW t \in User, NEW c \in Conn, ~s.conn[c].used
  PROVE  /\ s.conn[c] = FreeConn /\ s.conn[c].socket = -1 /\ Private(s, w, t, c)
         /\ \A v \in User : Brought(w[v]) # c
<1>1. s.conn[c] = FreeConn
  BY DEF SockInv, Conns, ConnSane
<1>2. FreeConn.socket = -1
  BY DEF FreeConn, netconn_alloc
<1>3. \A v \in User : Brought(w[v]) # c
  BY NoFdIsNone DEF SockInv, Links, Brings
<1> QED BY <1>1, <1>2, <1>3, PrivateNew

(* From s to e only the netconns of C and the descriptors F change, which  *)
(* are those of C or free.                                                 *)
OnlyOn(s, e, C, F) ==
  /\ e \in NetRec
  /\ \A d \in Conn : d \notin C => e.conn[d] = s.conn[d]
  /\ \A f \in Fd : f \notin F => e.sock[f] = s.sock[f]
  /\ \A f \in Fd : f \in F => s.sock[f].conn \in C \cup {NoFd}

(* What task u waits for or has fetched is of a netconn of C.              *)
OnIt(s, u, C) ==
  (Engaged(u) => u.conn \in C) /\ (Fetched(u) => s.sock[u.fd].conn \in C)

(* The invariant for netconn c, and for task t.                            *)
ConnOK(e, x, c) ==
  /\ ConnSane(e.conn[c]) /\ Bounds(e.conn[c])
  /\ HeardOf(e, x, c) /\ CountOf(e, x, c) /\ Writable(e, c)

TaskOK(e, t, u) == Shape(u) /\ Hears(e, t, u) /\ Stage(e, t, u) /\ SlotFresh(e, u)

(* What a step of task t to u, not in select(), keeps for select().        *)
SelOK(s, e, w, t, u) ==
  /\ SelKept(s, e) /\ WantKept(s, e) /\ w[t].op # "select" /\ u.op # "select"
  /\ u.op = "close" => \/ w[t].op = "close" /\ u.fd = w[t].fd
                       \/ \A z \in User : u.fd \notin WantsOf(s, z)
  /\ \A v \in User : v # t /\ v \in s.moved => v \in e.moved
  /\ u.pc = "look" => t \in e.moved \/ u.scb \in Listed(e)

(* A step of task t, on the netconns of C and their descriptors F, is done. *)
TaskDone(s, w, e, x, t, u, C, F) ==
  /\ t \in User /\ C \in SUBSET Conn /\ u \in UserRec /\ x = [w EXCEPT ![t] = u]
  /\ OnlyOn(s, e, C, F) /\ \A c \in C : Private(s, w, t, c) /\ ConnOK(e, x, c)
  /\ \A v \in User : v # t => e.ans[v] = s.ans[v]
  /\ OnIt(s, w[t], C) /\ OnIt(s, u, C) /\ TaskOK(e, t, u) /\ SelOK(s, e, w, t, u)
  /\ AllApart(x) /\ Links(e, x)

(* Such a step keeps the invariant of the other tasks and netconns.        *)
LEMMA TaskStep ==
  ASSUME NEW s, NEW w, SockInv(s, w), NEW e, NEW x, NEW t, NEW u, NEW C, NEW F,
         TaskDone(s, w, e, x, t, u, C, F)
  PROVE  SockInv(e, x)
<1> SUFFICES
      ASSUME t \in User, C \in SUBSET Conn, u \in UserRec, x = [w EXCEPT ![t] = u],
             OnlyOn(s, e, C, F), \A c \in C : Private(s, w, t, c) /\ ConnOK(e, x, c),
             \A v \in User : v # t => e.ans[v] = s.ans[v],
             OnIt(s, w[t], C), OnIt(s, u, C), TaskOK(e, t, u), SelOK(s, e, w, t, u),
             AllApart(x), Links(e, x)
      PROVE  SockInv(e, x)
  BY Zenon DEF TaskDone
<1>0. /\ Types(s, w) /\ Conns(s) /\ Shapes(w) /\ Links(s, w) /\ Talks(s, w) /\ Stages(s, w)
      /\ Counts(s, w) /\ Selects(s, w) /\ SockConn(s) /\ s \in NetRec /\ e \in NetRec
      /\ w \in [User -> UserRec]
  BY DEF SockInv, Links, Types, OnlyOn
<1>1. x[t] = u /\ (\A v \in User : v # t => x[v] = w[v]) /\ x \in [User -> UserRec]
  BY <1>0
<1>2. \A d \in Conn : d \notin C => e.conn[d] = s.conn[d]
  BY DEF OnlyOn
<1>3. Types(e, x)
  BY <1>0, <1>1, <1>2 DEF Types, ConnOK
<1>4. Conns(e)
  BY <1>0, <1>2 DEF Conns, ConnOK
<1>5. Shapes(x)
  BY <1>0, <1>1 DEF Shapes, TaskOK
(* A descriptor of a netconn that is not in C stays as it is.              *)
<1>6. \A f \in Fd : s.sock[f].conn \notin C \cup {NoFd} => e.sock[f] = s.sock[f]
  BY DEF OnlyOn
<1>7. \A d \in Conn : d \notin C => HeardOf(e, x, d)
  <2> SUFFICES ASSUME NEW d \in Conn, d \notin C PROVE HeardOf(e, x, d)
    OBVIOUS
  <2>1. HeardOf(s, w, d) /\ e.conn[d] = s.conn[d]
    BY <1>0, <1>2 DEF Talks
  <2>2. s.conn[d].msg \in User \cup {NoUser}
    BY <1>0, NetFields, ConnFields
  <2>3. \A z \in User : w[z].pc = "await" /\ w[z].conn = d => x[z] = w[z]
    BY <1>1 DEF OnIt, Engaged
  <2>4. s.conn[d].msg # NoUser =>
          x[s.conn[d].msg].pc = "await" /\ x[s.conn[d].msg].conn = d
          /\ x[s.conn[d].msg] = w[s.conn[d].msg]
    BY <2>1, <2>2, <2>3 DEF HeardOf
  <2>5. s.conn[d].done # 0 => \E z \in User : x[z].pc = "await" /\ x[z].conn = d
    BY <2>1, <2>3 DEF HeardOf
  <2>6. s.conn[d].state = "CLOSE" => s.conn[d].msg # NoUser
    BY <1>0 DEF Conns, ConnSane, Busy
  <2> QED BY <2>1, <2>4, <2>5, <2>6 DEF HeardOf
<1>8. \A v \in User : v # t => Hears(e, v, w[v]) /\ Stage(e, v, w[v]) /\ SlotFresh(e, w[v])
  <2> SUFFICES ASSUME NEW v \in User, v # t
               PROVE  Hears(e, v, w[v]) /\ Stage(e, v, w[v]) /\ SlotFresh(e, w[v])
    OBVIOUS
  <2>0. /\ Hears(s, v, w[v]) /\ Stage(s, v, w[v]) /\ SlotFresh(s, w[v]) /\ Shape(w[v])
        /\ Holds(s, w[v]) /\ Brings(s, w[v]) /\ e.ans[v] = s.ans[v] /\ w[v] \in UserRec
    BY <1>0 DEF Talks, Stages, Counts, Shapes, Links
  <2>1. \A c \in C : /\ Engaged(w[v]) => w[v].conn # c
                     /\ Brought(w[v]) # c
                     /\ w[v].fd # NoFd /\ w[v].pc # "free" => s.sock[w[v].fd].conn # c
    BY DEF Private
  <2>2. Engaged(w[v]) => /\ e.conn[w[v].conn] = s.conn[w[v].conn]
                         /\ w[v].op \notin {"socket", "accept"} => w[v].conn = e.sock[w[v].fd].conn
    <3> SUFFICES ASSUME Engaged(w[v])
                 PROVE  /\ e.conn[w[v].conn] = s.conn[w[v].conn]
                        /\ w[v].op \notin {"socket", "accept"} => w[v].conn = e.sock[w[v].fd].conn
      OBVIOUS
    <3>1. w[v].conn \in Conn /\ w[v].conn \notin C /\ w[v].conn # NoFd
      <4>1. w[v].conn \in Conn
        BY <1>0, EngagedOn
      <4> QED BY <2>1, <4>1, NoFdIsNone
    <3>2. w[v].op \notin {"socket", "accept"} => w[v].fd \in Fd /\ s.sock[w[v].fd].conn = w[v].conn
      BY <1>0, <2>0, EngagedOn DEF Brought, Hears
    <3> QED BY <1>2, <1>6, <3>1, <3>2
  <2>3. Hears(e, v, w[v])
    BY <2>0, <2>2 DEF Hears, Engaged
  <2>4. w[v].pc = "fetch" /\ w[v].op = "recv" =>
          e.sock[w[v].fd].conn = s.sock[w[v].fd].conn
          /\ e.conn[s.sock[w[v].fd].conn] = s.conn[s.sock[w[v].fd].conn]
    <3> SUFFICES ASSUME w[v].pc = "fetch", w[v].op = "recv"
                 PROVE  e.sock[w[v].fd].conn = s.sock[w[v].fd].conn
                        /\ e.conn[s.sock[w[v].fd].conn] = s.conn[s.sock[w[v].fd].conn]
      OBVIOUS
    <3>1. w[v].fd \in Fd /\ w[v].fd # NoFd /\ w[v].pc # "free"
      BY <2>0, UserFields DEF Shape, OnFd
    <3>2. s.sock[w[v].fd].conn \notin C \cup {NoFd} /\ s.sock[w[v].fd].conn \in Conn
      BY <1>0, <2>0, <2>1, <3>1, Entries DEF Holds
    <3> QED BY <1>2, <1>6, <3>1, <3>2
  <2>5. Stage(e, v, w[v])
    BY <2>0, <2>2, <2>4 DEF Stage, Closing, Making
  <2>6. SlotFresh(e, w[v])
    <3> SUFFICES ASSUME w[v].new # NoFd PROVE e.sock[w[v].new] = s.sock[w[v].new]
      BY <2>0 DEF SlotFresh
    <3>1. w[v].new \in Fd
      BY <2>0, UserFields
    <3>2. s.sock[w[v].new].conn \notin C \cup {NoFd}
      BY <2>0, <2>1 DEF Brings
    <3> QED BY <1>6, <3>1, <3>2
  <2> QED BY <2>3, <2>5, <2>6
<1>9. \A d \in Conn : d \notin C => CountOf(e, x, d) /\ Writable(e, d)
  <2> SUFFICES ASSUME NEW d \in Conn, d \notin C PROVE CountOf(e, x, d) /\ Writable(e, d)
    OBVIOUS
  <2>0. CountOf(s, w, d) /\ Writable(s, d) /\ e.conn[d] = s.conn[d]
    BY <1>0, <1>2 DEF Counts
  <2> DEFINE f == s.conn[d].socket
  <2>1. f \in Int /\ f < NumConn
    BY <1>0, Entries DEF Types, Bounds
  <2>2. f >= 0 => f \in Fd /\ s.sock[f].conn = d /\ d # NoFd
    BY <1>0, <2>1, NoFdIsNone, SocketAssumption DEF Fd, SockConn
  <2>3. f >= 0 => e.sock[f] = s.sock[f]
    BY <1>6, <2>2
  <2>4. Raw(e, d) = Raw(s, d)
    BY <2>0, <2>1, <2>3 DEF Raw
  <2>5. Pending(x, f) = Pending(w, f)
    <3>1. CASE f >= 0
      <4>1. \A z \in User : (x[z].fd = f /\ Fetched(x[z])) <=> (w[z].fd = f /\ Fetched(w[z]))
        BY <1>1, <2>2, <3>1 DEF OnIt
      <4> QED BY <4>1 DEF Pending
    <3>2. CASE ~(f >= 0)
      BY <3>2 DEF Pending
    <3> QED BY <3>1, <3>2
  <2>6. Unclosed(x, d) => Unclosed(w, d)
    BY <1>1 DEF Unclosed, OnIt, Closing
  <2> QED BY <2>0, <2>3, <2>4, <2>5, <2>6, Zenon DEF CountOf, Writable
<1>10. Talks(e, x) /\ Stages(e, x) /\ Counts(e, x)
  BY <1>1, <1>7, <1>8, <1>9, Zenon DEF Talks, Stages, Counts, TaskOK, ConnOK
<1>11. Selects(e, x)
  <2>1. Listed(e) = Listed(s)
    BY DEF SelOK, SelKept, Listed
  <2>2. SelUsers(s, e, w, x)
    <3>1. \A v \in User : w[v].op = "select" \/ x[v].op = "select" => x[v] = w[v]
      BY <1>1 DEF SelOK
    <3>2. \A v \in User : x[v].op = "close" =>
             \/ w[v].op = "close" /\ x[v].fd = w[v].fd
             \/ \A z \in User : x[v].fd \notin WantsOf(s, z)
      BY <1>1 DEF SelOK
    <3>3. \A v \in User : x[v].pc = "look" => v \in e.moved \/ x[v].scb \in Listed(e)
      BY <1>0, <1>1, <2>1 DEF SelOK, Selects, Selecting
    <3> QED BY <3>1, <3>2, <3>3 DEF SelUsers
  <2>3. SelKept(s, e) /\ WantKept(s, e)
    BY DEF SelOK
  <2> QED BY <1>0, <1>3, <1>5, <2>2, <2>3, SelectFrame
<1> QED BY <1>3, <1>4, <1>5, <1>10, <1>11 DEF SockInv

(* A task takes a descriptor that is free for it, goes on, or gives its    *)
(* descriptor back.                                                        *)
FdStep(s, w, t, u) ==
  /\ Brought(u) = Brought(w[t]) /\ u.new = w[t].new /\ (u.pc = "free" <=> w[t].pc = "free")
  /\ w[t].pc = "free" => u.fd = w[t].fd
  /\ \/ u.fd = w[t].fd
     \/ u.fd = NoFd
     \/ Holds(s, u) /\ u.pc # "free" /\ \A v \in User : v # t => w[v].fd # u.fd

(* A call that begins or ends on a descriptor of its own keeps who owns    *)
(* what.                                                                   *)
LEMMA LinkStep ==
  ASSUME NEW s, NEW e, NEW w, NEW t \in User, NEW u \in UserRec, NEW x, x = [w EXCEPT ![t] = u],
         Types(s, w), Types(e, x), LinkSame(s, e), Links(s, w), AllApart(w), FdStep(s, w, t, u)
  PROVE  AllApart(x) /\ Links(e, x)
<1>0. w \in [User -> UserRec] /\ s \in NetRec
  BY DEF Types
<1>1. x[t] = u /\ (\A v \in User : v # t => x[v] = w[v]) /\ x \in [User -> UserRec]
  BY <1>0
<1>2. \A v \in User : /\ Brought(x[v]) = Brought(w[v]) /\ x[v].new = w[v].new
                      /\ (x[v].pc = "free" <=> w[v].pc = "free")
                      /\ w[v].pc = "free" => x[v].fd = w[v].fd
  BY <1>1 DEF FdStep
<1>3. \A v \in User : Holds(s, x[v])
  <2>1. \A v \in User : Holds(s, w[v])
    BY DEF Links
  <2>2. u.fd = NoFd => Holds(s, u)
    BY DEF Holds
  <2>3. u.fd = w[t].fd => Holds(s, u)
    BY <2>1 DEF Holds, FdStep
  <2> QED BY <1>1, <2>1, <2>2, <2>3 DEF FdStep
<1>4. \A v \in User : Brings(s, x[v])
  BY <1>2 DEF Brings, Links
<1>5. Links(s, x)
  <2>1. Boxes(s, x)
    BY <1>2 DEF Links, Boxes, Boxed
  <2>2. OwnersExist(s, x)
    BY <1>2 DEF Links, OwnersExist, HasOwner
  <2>3. SocksTaken(s, x)
    BY <1>2 DEF Links, SocksTaken, SockTaken
  <2> QED BY <1>3, <1>4, <2>1, <2>2, <2>3 DEF Links
<1>6. Types(s, x)
  BY <1>1 DEF Types
<1>7. AllSame(x, x)
  BY DEF AllSame, UserSame
<1>8. Links(e, x)
  BY <1>5, <1>6, <1>7, LinkFrame
<1>9. AllApart(x)
  <2> SUFFICES ASSUME NEW a \in User, NEW b \in User, a # b PROVE Apart(x[a], x[b])
    BY DEF AllApart
  <2>0. Apart(w[a], w[b]) /\ Apart(w[b], w[a])
    BY DEF AllApart
  <2>1. Brought(x[a]) = Brought(x[b]) => Brought(x[a]) = NoFd
    BY <1>2, <2>0 DEF Apart
  <2>2. x[a].fd = x[b].fd => x[a].fd = NoFd
    BY <1>1, <2>0 DEF Apart, FdStep
  <2>3. ASSUME x[a].new # NoFd PROVE x[b].fd # x[a].new
    <3>1. x[a].new \in Fd /\ w[a].new = x[a].new /\ Brings(s, w[a])
      BY <1>1, <1>2, <2>3, UserFields DEF Links
    <3>2. CASE x[b].fd = w[b].fd
      BY <2>0, <3>1, <3>2, <2>3 DEF Apart
    <3>3. CASE x[b].fd = NoFd
      BY <2>3, <3>3
    <3>4. CASE b = t /\ Holds(s, u) /\ u.pc # "free"
      <4> SUFFICES ASSUME u.fd = w[a].new PROVE FALSE
        BY <1>1, <3>1, <3>4
      <4>1. s.conn[s.sock[u.fd].conn].socket = u.fd /\ u.fd \in Fd
        BY <2>3, <3>1, <3>4 DEF Holds
      <4>2. Brought(w[a]) # NoFd /\ s.sock[u.fd].conn = Brought(w[a]) /\ s.conn[Brought(w[a])].socket < 0
        BY <2>3, <3>1 DEF Brings
      <4>3. \A f \in Fd : ~(f < 0)
        BY NoFdIsNone
      <4> QED BY <4>1, <4>2, <4>3
    <3> QED BY <1>1, <3>2, <3>3, <3>4 DEF FdStep
  <2> QED BY <2>1, <2>2, <2>3 DEF Apart
<1> QED BY <1>8, <1>9

(* What task u has fetched of descriptor f and not counted.                *)
Due(u, f) == IF f >= 0 /\ u.fd = f /\ Fetched(u) THEN 1 ELSE 0

(* The counter of netconn c, if only task u has to do with it.             *)
MyCount(s, u, c) ==
  s.conn[c].used /\ ~s.conn[c].fatal /\ ~(Closing(u) /\ u.conn = c) =>
    Raw(s, c) - Due(u, s.conn[c].socket) = Len(s.conn[c].recvmbox) + Len(s.conn[c].acceptmbox)

(* The counter of a netconn that no other task has to do with is due to    *)
(* task t alone.                                                           *)
LEMMA CountMine ==
  ASSUME NEW s, NEW w, NEW t \in User, NEW c \in Conn, Private(s, w, t, c), SockConn(s)
  PROVE  CountOf(s, w, c) <=> MyCount(s, w[t], c)
<1>1. Unclosed(w, c) <=> ~(Closing(w[t]) /\ w[t].conn = c)
  BY DEF Unclosed, Closing, Private
<1>2. Pending(w, s.conn[c].socket) = Due(w[t], s.conn[c].socket)
  <2> DEFINE f == s.conn[c].socket
  <2>1. CASE f >= 0
    <3>1. s.sock[f].conn = c
      BY <2>1 DEF SockConn
    <3>2. ASSUME NEW v \in User, v # t, w[v].fd = f PROVE ~Fetched(w[v])
      <4>1. f # NoFd
        BY <2>1 DEF NoFd
      <4> QED BY <3>1, <3>2, <4>1 DEF Private, Fetched
    <3> QED BY <3>2 DEF Pending, Due
  <2>2. CASE ~(f >= 0)
    BY <2>2 DEF Pending, Due
  <2> QED BY <2>1, <2>2
<1> QED BY <1>1, <1>2, Zenon DEF CountOf, MyCount

(* From s to e only netconn c changes, and changes no hands.               *)
Handled(s, e, c) ==
  /\ e \in NetRec /\ LinkSame(s, e) /\ SelKept(s, e)
  /\ \A d \in Conn : d # c => e.conn[d] = s.conn[d]
  /\ \A f \in Fd : f # s.conn[c].socket => e.sock[f] = s.sock[f]

(* The step of task t to u, but for the netconn.                           *)
TaskMoves(s, e, w, t, u, c) ==
  /\ \A v \in User : v # t => e.ans[v] = s.ans[v]
  /\ OnIt(s, w[t], {c}) /\ OnIt(s, u, {c}) /\ TaskOK(e, t, u) /\ FdStep(s, w, t, u)
  /\ w[t].op # "select" /\ u.op # "select"
  /\ u.op = "close" => \/ w[t].op = "close" /\ u.fd = w[t].fd
                       \/ \A z \in User : u.fd \notin WantsOf(s, z)
  /\ \A v \in User : v # t /\ v \in s.moved => v \in e.moved
  /\ u.pc = "look" => t \in e.moved \/ u.scb \in Listed(e)

(* A call of task t on netconn c, which no other task has to do with,      *)
(* keeps the invariant (tcpip_apimsg).                                     *)
LEMMA CallStep ==
  ASSUME NEW s, NEW w, SockInv(s, w), NEW t \in User, NEW c \in Conn, Private(s, w, t, c),
         NEW e, Handled(s, e, c), NEW u \in UserRec, NEW x, x = [w EXCEPT ![t] = u],
         ConnSane(e.conn[c]), Bounds(e.conn[c]), HeardOf(e, x, c), MyCount(e, u, c),
         Writable(e, c), TaskMoves(s, e, w, t, u, c)
  PROVE  SockInv(e, x)
<1> DEFINE C == {c}
           F == {s.conn[c].socket}
<1>0. Types(s, w) /\ Links(s, w) /\ AllApart(w) /\ SockConn(s) /\ s \in NetRec
      /\ w \in [User -> UserRec] /\ Selects(s, w)
  BY DEF SockInv, Links, Types
<1>1. OnlyOn(s, e, C, F)
  <2>1. \A f \in Fd : f \in F => s.sock[f].conn \in C \cup {NoFd}
    <3>1. \A f \in Fd : f >= 0
      BY NoFdIsNone
    <3> QED BY <1>0, <3>1 DEF SockConn
  <2> QED BY <2>1 DEF OnlyOn, Handled
<1>2. x[t] = u /\ (\A v \in User : v # t => x[v] = w[v]) /\ x \in [User -> UserRec]
  BY <1>0
<1>3. Types(e, x)
  BY <1>0, <1>2 DEF Types, Handled
<1>4. AllApart(x) /\ Links(e, x)
  BY <1>0, <1>3, LinkStep, Zenon DEF Handled, TaskMoves
<1>5. CountOf(e, x, c)
  <2>1. SockConn(e)
    BY <1>4 DEF Links
  <2>2. Private(e, x, t, c)
    <3>1. \A v \in User : w[v].fd \in Fd \cup {NoFd}
      BY <1>0, UserFields
    <3> QED BY <1>2, <3>1 DEF Private, Handled, LinkSame
  <2> QED BY <1>2, <2>1, <2>2, CountMine, Zenon
<1>6. WantKept(s, e)
  <2> SUFFICES ASSUME NEW z \in User, NEW fd \in WantsOf(s, z)
               PROVE  e.sock[fd].conn # NoFd /\ e.conn[e.sock[fd].conn].socket = fd
    BY DEF WantKept
  <2>1. fd \in Fd /\ s.sock[fd].conn # NoFd /\ s.conn[s.sock[fd].conn].socket = fd
    BY <1>0, WantsAreFds DEF Selects, Wanted
  <2>2. s.sock[fd].conn \in Conn /\ e.sock[fd].conn = s.sock[fd].conn
    BY <1>0, <2>1, Entries DEF Handled, LinkSame
  <2>3. fd >= 0
    BY <2>1, NoFdIsNone
  <2> QED BY <2>1, <2>2, <2>3 DEF Handled, LinkSame
<1>7. SelOK(s, e, w, t, u)
  BY <1>6 DEF SelOK, TaskMoves, Handled
<1>8. \A d \in C : Private(s, w, t, d) /\ ConnOK(e, x, d)
  BY <1>5 DEF ConnOK
<1>9. OnIt(s, w[t], C) /\ OnIt(s, u, C) /\ TaskOK(e, t, u)
      /\ \A v \in User : v # t => e.ans[v] = s.ans[v]
  BY DEF TaskMoves
<1>10. C \in SUBSET Conn
  OBVIOUS
<1> HIDE DEF C, F
<1>11. TaskDone(s, w, e, x, t, u, C, F)
  BY <1>1, <1>4, <1>7, <1>8, <1>9, <1>10, Zenon DEF TaskDone
<1> QED BY ONLY SockInv(s, w), <1>11, TaskStep

(* What descriptors are not.                                               *)
LEMMA FdFacts == \A f \in Fd : f # NoFd /\ f # -1 /\ f >= 0 /\ ~(f < 0) /\ f \in Int
BY NoFdIsNone DEF NoFd

(* A netconn with a descriptor is in use.                                  *)
LEMMA FdUsed ==
  ASSUME NEW s, NEW w, SockInv(s, w), NEW c \in Conn, s.conn[c].socket \in Fd
  PROVE  s.conn[c].used
<1>1. ConnSane(s.conn[c])
  BY DEF SockInv, Conns
<1>2. FreeConn.socket = -1
  BY DEF FreeConn, netconn_alloc
<1>3. s.conn[c].socket # -1
  BY FdFacts, Zenon
<1> QED BY <1>1, <1>2, <1>3, Zenon DEF ConnSane

(* A step on one netconn that keeps its owner and its queue.               *)
LEMMA TouchHandled ==
  ASSUME NEW s \in NetRec, NEW e, NEW c \in Conn, Touch(s, e, c),
         e.conn[c].used = s.conn[c].used, e.conn[c].acceptmbox = s.conn[c].acceptmbox
  PROVE  Handled(s, e, c)
<1>1. LinkSame(s, e)
  BY TouchLinks
<1>2. SelKept(s, e)
  BY DEF SelKept, Touch
<1> QED BY <1>1, <1>2 DEF Handled, Touch

(* A handler of api_msg.c that goes through a state in between.            *)
LEMMA HandledTrans ==
  ASSUME NEW s \in NetRec, NEW g, NEW e, NEW c \in Conn, Handled(s, g, c), Handled(g, e, c)
  PROVE  Handled(s, e, c)
<1>1. /\ s.conn[c].socket \in Int /\ g.conn[c].socket \in Int /\ e.conn[c].socket \in Int
      /\ e \in NetRec /\ g \in NetRec
  BY Entries DEF Handled
<1>2. LinkSame(s, e)
  BY <1>1, Entries DEF Handled, LinkSame
<1>3. SelKept(s, e)
  <2>1. Listed(g) = Listed(s)
    BY DEF Handled, SelKept, Listed
  <2> QED BY <2>1 DEF Handled, SelKept
<1>4. \A f \in Fd : f # s.conn[c].socket => e.sock[f] = s.sock[f]
  <2>1. \A f \in Fd : ~(f < 0)
    BY NoFdIsNone
  <2>2. \A f \in Fd : f # s.conn[c].socket => f # g.conn[c].socket
    BY <1>1, <2>1 DEF Handled, LinkSame
  <2> QED BY <2>2 DEF Handled
<1>5. \A d \in Conn : d # c => e.conn[d] = s.conn[d]
  BY DEF Handled
<1> QED BY <1>1, <1>2, <1>3, <1>4, <1>5 DEF Handled

(* A netconn that no task waits on has no message and no answer.           *)
LEMMA Quiet ==
  ASSUME NEW s, NEW w, SockInv(s, w), NEW t \in User, NEW c \in Conn, Private(s, w, t, c),
         ~(w[t].pc = "await" /\ w[t].conn = c)
  PROVE  s.conn[c].msg = NoUser /\ s.conn[c].done = 0 /\ s.conn[c].state \in {"NONE", "LISTEN"}
<1>1. s.conn[c] \in ConnRec /\ ConnSane(s.conn[c]) /\ HeardOf(s, w, c)
  BY ConnFacts DEF SockInv, Talks
<1>2. \A v \in User : ~(w[v].pc = "await" /\ w[v].conn = c)
  BY DEF Private, Engaged
<1>3. s.conn[c].msg \in User \cup {NoUser} /\ s.conn[c].state \in Busy \cup {"NONE", "LISTEN"}
  BY <1>1, ConnFields
<1> QED BY <1>1, <1>2, <1>3 DEF HeardOf, ConnSane

(* The netconn on which a task waits is its own.                           *)
LEMMA PrivateEngaged ==
  ASSUME NEW s, NEW w, SockInv(s, w), NEW t \in User, Engaged(w[t])
  PROVE  w[t].conn \in Conn /\ Private(s, w, t, w[t].conn) /\ s.conn[w[t].conn].used
<1>1. Types(s, w) /\ Shapes(w) /\ Links(s, w) /\ Talks(s, w)
  BY DEF SockInv
<1>2. CASE Brought(w[t]) = w[t].conn /\ w[t].conn # NoFd
  BY <1>2, PrivateBrought
<1>3. CASE w[t].fd # NoFd /\ s.sock[w[t].fd].conn = w[t].conn
  <2>1. w[t].pc # "free"
    BY DEF Engaged
  <2> QED BY <1>3, <2>1, PrivateCall
<1> QED BY <1>1, <1>2, <1>3, EngagedOn

(* The stack answers a message of task t at once: tcpip_apimsg.            *)
LEMMA AskStep ==
  ASSUME NEW s, NEW w, SockInv(s, w), NEW t \in User, NEW c \in Conn, Private(s, w, t, c),
         NEW g, Handled(s, g, c), ConnSane(g.conn[c]), Bounds(g.conn[c]),
         g.conn[c].msg = NoUser, g.conn[c].done = 0, Writable(g, c),
         \A v \in User : v # t => g.ans[v] = s.ans[v],
         \A v \in User : v # t /\ v \in s.moved => v \in g.moved,
         NEW r \in Results, NEW e, Acked(g, e, c, t, r),
         NEW u \in UserRec, NEW x, x = [w EXCEPT ![t] = u], Shape(u),
         u.pc = "await", u.conn = c, u.fn \notin {"delconn", "new"}, MyCount(g, u, c),
         u.op \notin {"socket", "accept"} => u.fd \in Fd /\ s.sock[u.fd].conn = c,
         OnIt(s, w[t], {c}), FdStep(s, w, t, u), w[t].op # "select", u.op # "close"
  PROVE  SockInv(e, x)
<1> DEFINE m == g.conn[c]
           h == e.conn[c]
<1>0. /\ s \in NetRec /\ g \in NetRec /\ m \in ConnRec /\ Touch(g, e, c) /\ SameCounts(g, e, c)
      /\ w \in [User -> UserRec] /\ g.ans \in [User -> {"unset", "ok", "err", "fatal"}]
  BY NetFields DEF SockInv, Types, Handled, Acked
<1>1. h = [m EXCEPT !.done = m.done + 1] /\ e.ans = [g.ans EXCEPT ![t] = r]
  BY DEF Acked
<1>2. /\ h.used = m.used /\ h.pcb = m.pcb /\ h.state = m.state /\ h.socket = m.socket
      /\ h.recvOk = m.recvOk /\ h.recvmbox = m.recvmbox /\ h.acceptOk = m.acceptOk
      /\ h.acceptmbox = m.acceptmbox /\ h.fatal = m.fatal /\ h.snd = m.snd
      /\ h.msg = m.msg /\ h.done = m.done + 1 /\ h.type = m.type
  <2> HIDE DEF m, h
  <2> QED BY <1>0, <1>1, Zenon DEF ConnRec
<1>3. h.done = 1 /\ h.msg = NoUser
  BY <1>2
<1>4. x[t] = u /\ \A v \in User : v # t => x[v] = w[v]
  BY <1>0
<1>5. Handled(s, e, c)
  BY <1>0, <1>2, TouchHandled, HandledTrans
<1>6. ConnSane(h) /\ Bounds(h)
  <2>1. m.used
    <3>1. u.conn \in Conn /\ s.conn[c].used
      <4>1. CASE u.op \in {"socket", "accept"}
        <5>1. Brought(w[t]) = c
          BY <4>1 DEF Brought, FdStep
        <5>2. c # NoFd
          BY NoFdIsNone
        <5> QED BY <5>1, <5>2, PrivateBrought
      <4>2. CASE u.op \notin {"socket", "accept"}
        <5>0. u.fd \in Fd /\ s.sock[u.fd].conn = c
          BY <4>2
        <5>1. u.fd # NoFd
          BY <5>0, FdFacts, Zenon
        <5>2. Holds(s, w[t])
          BY DEF SockInv, Links
        <5>3. s.conn[c].socket = u.fd
          BY <5>0, <5>1, <5>2 DEF FdStep, Holds
        <5> QED BY <5>0, <5>3, FdUsed
      <4> QED BY <4>1, <4>2
    <3> QED BY <3>1 DEF Handled, LinkSame
  <2> QED BY <1>2, <1>3, <2>1 DEF ConnSane, Bounds
<1>7. HeardOf(e, x, c)
  <2>1. h.state # "CLOSE"
    BY <1>2 DEF ConnSane, Busy
  <2> QED BY <1>3, <1>4, <2>1 DEF HeardOf
<1>8. MyCount(e, u, c)
  <2>1. Raw(e, c) = Raw(g, c)
    BY <1>0 DEF SameCounts
  <2> QED BY <1>2, <2>1, Zenon DEF MyCount
<1>9. Writable(e, c)
  BY <1>0, <1>2 DEF Writable, SameCounts
<1>10. e.ans[t] = r /\ r # "unset" /\ \A v \in User : v # t => e.ans[v] = g.ans[v]
  BY <1>0, <1>1 DEF Results
<1>11. TaskOK(e, t, u)
  <2>1. Hears(e, t, u)
    <3>1. u.op \notin {"socket", "accept"} => u.conn = e.sock[u.fd].conn
      BY <1>5 DEF Handled, LinkSame
    <3> QED BY <1>3, <1>10, <3>1 DEF Hears
  <2>2. Stage(e, t, u)
    BY DEF Stage, Closing, Making
  <2>3. SlotFresh(e, u)
    BY DEF SlotFresh, Shape
  <2> QED BY <2>1, <2>2, <2>3 DEF TaskOK
<1>12. TaskMoves(s, e, w, t, u, c)
  <2>1. OnIt(s, u, {c})
    <3>1. Engaged(u) => u.conn \in {c}
      OBVIOUS
    <3>2. Fetched(u) => s.sock[u.fd].conn \in {c}
      BY DEF Fetched, Shape, FnOf, Engaged
    <3> QED BY <3>1, <3>2 DEF OnIt
  <2>2. u.op # "select"
    BY DEF Shape
  <2>3. \A v \in User : v # t /\ v \in s.moved => v \in e.moved
    BY <1>0 DEF Touch
  <2> QED BY <1>10, <1>11, <2>1, <2>2, <2>3 DEF TaskMoves
<1> QED BY <1>5, <1>6, <1>7, <1>8, <1>9, <1>12, CallStep, Zenon

-----------------------------------------------------------------------------
(* Calls on a descriptor begin.                                            *)

(* Task t may use descriptor fd of netconn c.                              *)
Begun(s, w, t, fd, c) ==
  /\ fd \in Fd /\ c \in Conn /\ s.sock[fd].conn = c /\ s.conn[c].socket = fd
  /\ w[t] = IdleUser /\ s.conn[c].used /\ Private(s, w, t, c)
  /\ s.conn[c].msg = NoUser /\ s.conn[c].done = 0 /\ s.conn[c].state \in {"NONE", "LISTEN"}
  /\ \A v \in User : v # t => w[v].fd # fd

(* MayCall: a call begins on a descriptor that no other task uses, and on  *)
(* its netconn no message is kept.                                         *)
LEMMA Begins ==
  ASSUME SockInv(net, user), Shared = FALSE, NEW t \in User, NEW fd \in Fd, NEW op,
         MayCall(t, fd, op)
  PROVE  Begun(net, user, t, fd, ConnOf(fd))
<1> DEFINE c == net.sock[fd].conn
<1>1. c \in Conn /\ net.conn[c].socket = fd
  BY Entries DEF SockInv, Types, MayCall
<1>2. user[t] = IdleUser
  BY DEF SockInv, Shapes, Shape, MayCall
<1>3. \A v \in User : v # t => user[v].fd # fd
  BY DEF MayCall
<1>4. Private(net, user, t, c)
  BY <1>1, <1>3, PrivateFd
<1>5. net.conn[c].used
  BY <1>1, FdUsed
<1>6. user[t].pc # "await"
  BY <1>2 DEF IdleUser
<1>7. net.conn[c].msg = NoUser /\ net.conn[c].done = 0 /\ net.conn[c].state \in {"NONE", "LISTEN"}
  BY <1>1, <1>4, <1>6, Quiet
<1> QED BY <1>1, <1>2, <1>3, <1>4, <1>5, <1>7 DEF Begun, ConnOf

(* An idle task is in no call.                                             *)
LEMMA IdleFacts ==
  /\ IdleUser \in UserRec /\ Shape(IdleUser) /\ Brought(IdleUser) = NoFd /\ ~Engaged(IdleUser)
  /\ ~Fetched(IdleUser) /\ IdleUser.fd = NoFd /\ IdleUser.new = NoFd /\ IdleUser.pc = "idle"
  /\ IdleUser.op = "none"
<1>1. IdleUser \in UserRec
  BY DEF IdleUser, UserRec
<1>2. /\ IdleUser.fd = NoFd /\ IdleUser.new = NoFd /\ IdleUser.pc = "idle"
      /\ IdleUser.op = "none" /\ IdleUser.fn = "none"
  BY DEF IdleUser
<1>3. Brought(IdleUser) = NoFd /\ ~Engaged(IdleUser) /\ ~Fetched(IdleUser)
  BY <1>2 DEF Brought, Engaged, Fetched
<1>4. Shape(IdleUser)
  BY <1>2, <1>3 DEF Shape, OnFd, Engaged
<1> QED BY <1>1, <1>2, <1>3, <1>4

(* A call op on descriptor fd.                                             *)
CallOps == {"socket"} \cup OnFd

Calls(v, fd, op) ==
  /\ v \in UserRec /\ v.op = op /\ v.fd = fd /\ v.new = NoFd /\ v.conn = NoFd /\ v.fn = "none"
  /\ v.off = FALSE /\ v.pc = "idle"

(* The fields of a call on descriptor fd.                                  *)
LEMMA CallFields ==
  ASSUME NEW fd \in Fd \cup {NoFd}, NEW op \in CallOps
  PROVE  Calls(Call(fd, op), fd, op)
<1>1. op \in {"none", "socket", "bind", "connect", "listen", "send", "close", "accept", "recv", "select"}
  BY DEF CallOps, OnFd
<1>2. Call(fd, op) \in UserRec
  BY <1>1, IdleFacts, Zenon DEF Call, UserRec
<1>3. /\ Call(fd, op).op = op /\ Call(fd, op).fd = fd
      /\ Call(fd, op).new = NoFd /\ Call(fd, op).conn = NoFd /\ Call(fd, op).fn = "none"
      /\ Call(fd, op).off = FALSE /\ Call(fd, op).pc = "idle"
  BY DEF Call, IdleUser
<1> QED BY <1>2, <1>3 DEF Calls

(* tcpip_apimsg: task v posts message fn to netconn c and is u then.       *)
Fns == {"none", "new", "bind", "connect", "listen", "write", "send", "delconn", "recved", "recv", "peer"}

Posted(v, u, fn, c) ==
  /\ u \in UserRec /\ u.pc = "await" /\ u.fn = fn /\ u.conn = c
  /\ u.op = v.op /\ u.fd = v.fd /\ u.new = v.new /\ u.off = v.off /\ u.got = v.got

(* tcpip_apimsg changes nothing else of the task.                          *)
LEMMA PostFields ==
  ASSUME NEW v \in UserRec, NEW c \in Conn, NEW fn \in Fns
  PROVE  Posted(v, [v EXCEPT !.pc = "await", !.fn = fn, !.conn = c], fn, c)
<1> DEFINE u == [v EXCEPT !.pc = "await", !.fn = fn, !.conn = c]
           a == [v EXCEPT !.pc = "await"]
           b == [a EXCEPT !.fn = fn]
<1>1. a \in UserRec
  BY DEF UserRec
<1> HIDE DEF a
<1>2. b \in UserRec
  BY <1>1 DEF UserRec, Fns
<1> HIDE DEF b
<1>3. [b EXCEPT !.conn = c] \in UserRec
  BY <1>2 DEF UserRec
<1>4. u = [b EXCEPT !.conn = c]
  BY DEF a, b
<1>5. /\ u.pc = "await" /\ u.fn = fn /\ u.conn = c
      /\ u.op = v.op /\ u.fd = v.fd /\ u.new = v.new /\ u.off = v.off /\ u.got = v.got
  BY DEF UserRec
<1> QED BY <1>3, <1>4, <1>5 DEF Posted

(* A task that waits for the answer to its first message.                  *)
Waiting(fd, op, fn, c) == [Call(fd, op) EXCEPT !.pc = "await", !.fn = fn, !.conn = c]

Awaits(u, fd, op, fn, c) ==
  /\ u \in UserRec /\ u.pc = "await" /\ u.op = op /\ u.fn = fn /\ u.fd = fd /\ u.conn = c
  /\ u.new = NoFd

(* Such a task is in its call and waits on netconn c.                      *)
LEMMA WaitingFields ==
  ASSUME NEW fd \in Fd \cup {NoFd}, NEW c \in Conn, NEW fn \in Fns, NEW op \in CallOps
  PROVE  Awaits(Waiting(fd, op, fn, c), fd, op, fn, c)
<1> DEFINE v == Call(fd, op)
<1>1. Calls(v, fd, op)
  BY CallFields
<1> HIDE DEF v
<1>2. v \in UserRec /\ v.op = op /\ v.fd = fd /\ v.new = NoFd
  BY <1>1 DEF Calls
<1>3. Posted(v, [v EXCEPT !.pc = "await", !.fn = fn, !.conn = c], fn, c)
  BY <1>2, PostFields, Zenon
<1>4. Posted(v, Waiting(fd, op, fn, c), fn, c)
  BY <1>3 DEF v, Waiting
<1> QED BY <1>2, <1>4 DEF Posted, Awaits

(* How a call that is answered at once may leave its netconn.              *)
Mild(n, m) ==
  /\ m \in ConnRec /\ ConnSane(m)
  /\ m.used = n.used /\ m.acceptmbox = n.acceptmbox /\ m.socket = n.socket /\ m.msg = n.msg
  /\ m.done = n.done /\ m.fatal = n.fatal /\ m.recvmbox = n.recvmbox
  /\ m.pcb \in Live => n.pcb \in Live /\ m.snd = n.snd

(* bind(), connect(), listen() and send() that are answered at once.       *)
LEMMA BeginAck ==
  ASSUME NEW s, NEW w, SockInv(s, w), NEW t \in User, NEW fd, NEW c, Begun(s, w, t, fd, c),
         NEW op \in {"bind", "connect", "listen", "send"}, NEW fn \in FnOf(op),
         NEW m, Mild(s.conn[c], m), NEW r \in Results
  PROVE  SockInv(Ack(PutConn(PutAns(s, t, "unset"), c, m), c, t, r),
                 [w EXCEPT ![t] = Waiting(fd, op, fn, c)])
<1> DEFINE n == s.conn[c]
           a == PutAns(s, t, "unset")
           g == PutConn(a, c, m)
           e == Ack(g, c, t, r)
           u == Waiting(fd, op, fn, c)
           x == [w EXCEPT ![t] = u]
<1>0. /\ s \in NetRec /\ c \in Conn /\ fd \in Fd /\ n \in ConnRec /\ Bounds(n)
      /\ w[t] = IdleUser /\ n.used /\ Private(s, w, t, c) /\ n.socket = fd
  BY ConnFacts DEF Begun
<1>1. OnlyAns(s, a, [s.ans EXCEPT ![t] = "unset"]) /\ Touch(s, a, c) /\ SameCounts(s, a, c)
  BY <1>0, PutAnsFields, PutAnsTouch, Zenon
<1> HIDE DEF a
<1>2. a \in NetRec /\ a.conn[c] = n /\ a.sock = s.sock /\ m \in ConnRec
  BY <1>1 DEF OnlyAns, Mild
<1>3. OnlyConn(a, g, c, m) /\ Touch(a, g, c) /\ SameCounts(a, g, c)
  BY <1>0, <1>2, PutConnFields, PutConnTouch DEF Mild
<1> HIDE DEF g
<1>4. /\ g.conn[c] = m /\ g \in NetRec /\ g.ans = a.ans /\ g.moved = a.moved
      /\ Touch(s, g, c) /\ SameCounts(s, g, c)
  BY <1>0, <1>1, <1>3, TouchTrans, CountsTrans DEF OnlyConn
<1>5. Acked(g, e, c, t, r)
  BY <1>0, <1>4, AckFields
<1> HIDE DEF e
<1>6. Handled(s, g, c)
  BY <1>0, <1>4, TouchHandled, Zenon DEF Mild
<1>7. Awaits(u, fd, op, fn, c)
  <2>1. fn \in Fns
    BY DEF FnOf, Fns
  <2>2. op \in CallOps
    BY DEF CallOps, OnFd
  <2>3. fd \in Fd \cup {NoFd} /\ c \in Conn
    BY <1>0
  <2> QED BY <2>1, <2>2, <2>3, WaitingFields
<1> HIDE DEF u
<1>8. /\ u \in UserRec /\ u.pc = "await" /\ u.op = op /\ u.fn = fn /\ u.fd = fd /\ u.conn = c /\ u.new = NoFd
  BY <1>7 DEF Awaits
<1>9. fn \notin {"delconn", "new", "recv"}
  BY DEF FnOf
<1>10. Shape(u)
  <2>1. fd # NoFd /\ c # NoFd
    BY <1>0, NoFdIsNone
  <2> QED BY <1>8, <2>1 DEF Shape, Engaged, OnFd
<1>11. FdStep(s, w, t, u)
  <2>1. Brought(u) = NoFd /\ Brought(w[t]) = NoFd /\ w[t].new = NoFd /\ w[t].pc # "free"
    BY <1>0, <1>8, IdleFacts DEF Brought
  <2>2. Holds(s, u)
    <3>1. c # NoFd
      BY <1>0, NoFdIsNone
    <3> QED BY <1>8, <3>1 DEF Holds, Begun
  <2> QED BY <1>8, <2>1, <2>2 DEF FdStep, Begun
<1>12. OnIt(s, w[t], {c}) /\ w[t].op # "select"
  BY <1>0, IdleFacts DEF OnIt
<1>13. MyCount(g, u, c)
  <2>1. Raw(g, c) = Raw(s, c) /\ g.conn[c].socket = n.socket
    BY <1>4 DEF SameCounts, Mild
  <2>2. MyCount(s, w[t], c)
    BY <1>0, CountMine, Zenon DEF SockInv, Counts, Links
  <2>3. Due(u, n.socket) = 0 /\ Due(w[t], n.socket) = 0
    BY <1>0, <1>8, <1>9, IdleFacts DEF Due, Fetched
  <2>4. ~Closing(w[t])
    BY <1>0, IdleFacts DEF Closing
  <2> QED BY <1>4, <2>1, <2>2, <2>3, <2>4, Zenon DEF MyCount, Mild
<1>14. Writable(g, c)
  <2>1. Writable(s, c)
    BY <1>0 DEF SockInv, Counts
  <2> QED BY <1>4, <2>1 DEF Writable, SameCounts, Mild
<1>15. \A v \in User : v # t => g.ans[v] = s.ans[v]
  BY <1>0, <1>1, <1>4, NetFields DEF OnlyAns
<1>16. g.moved = s.moved
  BY <1>1, <1>4 DEF OnlyAns
<1>17. ConnSane(m) /\ Bounds(m) /\ m.msg = NoUser /\ m.done = 0
  BY <1>0 DEF Mild, Bounds, Begun
<1>18. SockInv(e, x)
  BY <1>0, <1>4, <1>5, <1>6, <1>7, <1>8, <1>9, <1>10, <1>11, <1>12, <1>13, <1>14, <1>15, <1>16,
     <1>17, AskStep, Zenon DEF Begun
<1> QED BY <1>18 DEF e, g, a, u

(* How the message of a call stands with netconn c: answered, or kept.     *)
Stands(e, t, c) ==
  \/ e.conn[c].done = 1 /\ e.ans[t] # "unset" /\ e.conn[c].msg = NoUser
  \/ e.conn[c].msg = t /\ e.ans[t] = "unset" /\ e.conn[c].state # "CLOSE"

(* connect() and send() whose answer may come later.                       *)
LEMMA BeginWait ==
  ASSUME NEW s, NEW w, SockInv(s, w), NEW t \in User, NEW fd, NEW c, Begun(s, w, t, fd, c),
         NEW op \in {"bind", "connect", "listen", "send"}, NEW fn \in FnOf(op),
         NEW e, Touch(s, e, c), Kept(s.conn[c], e.conn[c]), ConnSane(e.conn[c]),
         Raw(e, c) = Raw(s, c), Writable(e, c), Stands(e, t, c),
         \A v \in User : v # t => e.ans[v] = s.ans[v]
  PROVE  SockInv(e, [w EXCEPT ![t] = Waiting(fd, op, fn, c)])
<1> DEFINE n == s.conn[c]
           m == e.conn[c]
           u == Waiting(fd, op, fn, c)
           x == [w EXCEPT ![t] = u]
<1>0. /\ s \in NetRec /\ c \in Conn /\ fd \in Fd /\ n \in ConnRec /\ Bounds(n)
      /\ w[t] = IdleUser /\ n.used /\ Private(s, w, t, c) /\ n.socket = fd /\ w \in [User -> UserRec]
      /\ s.sock[fd].conn = c
  BY ConnFacts DEF Begun, SockInv, Types
<1>1. Handled(s, e, c)
  BY <1>0, TouchHandled, Zenon DEF Kept
<1>2. Awaits(u, fd, op, fn, c)
  <2>1. fn \in Fns
    BY DEF FnOf, Fns
  <2>2. op \in CallOps
    BY DEF CallOps, OnFd
  <2>3. fd \in Fd \cup {NoFd} /\ c \in Conn
    BY <1>0
  <2> QED BY <2>1, <2>2, <2>3, WaitingFields
<1> HIDE DEF u
<1>3. /\ u \in UserRec /\ u.pc = "await" /\ u.op = op /\ u.fn = fn /\ u.fd = fd /\ u.conn = c /\ u.new = NoFd
  BY <1>2 DEF Awaits
<1>4. fn \notin {"delconn", "new", "recv"}
  BY DEF FnOf
<1>5. fd # NoFd /\ c # NoFd /\ fd >= 0 /\ ~(fd < 0)
  BY <1>0, NoFdIsNone, FdFacts
<1>6. m.socket = fd /\ Bounds(m) /\ e.moved = s.moved
  BY <1>0, <1>5 DEF Touch, Kept, Bounds
<1>7. x[t] = u /\ \A v \in User : v # t => x[v] = w[v]
  BY <1>0
<1> HIDE DEF x
<1>8. m.state = "CLOSE" => m.msg # NoUser
  BY DEF ConnSane, Busy
<1>9. HeardOf(e, x, c)
  BY <1>3, <1>7, <1>8 DEF HeardOf, Stands
<1>10. MyCount(e, u, c)
  <2>1. MyCount(s, w[t], c)
    BY <1>0, CountMine DEF SockInv, Counts, Links
  <2>2. Due(u, m.socket) = 0 /\ Due(w[t], n.socket) = 0
    BY <1>0, <1>3, <1>4, IdleFacts DEF Due, Fetched
  <2>3. ~Closing(w[t])
    BY <1>0, IdleFacts DEF Closing
  <2> QED BY <2>1, <2>2, <2>3, Zenon DEF MyCount, Kept
<1>11. Shape(u)
  BY <1>3, <1>5 DEF Shape, Engaged, OnFd
<1>12. FdStep(s, w, t, u)
  <2>1. Brought(u) = NoFd /\ Brought(w[t]) = NoFd /\ w[t].new = NoFd /\ w[t].pc # "free"
    BY <1>0, <1>3, IdleFacts DEF Brought
  <2>2. Holds(s, u)
    BY <1>3, <1>5 DEF Holds, Begun
  <2> QED BY <1>3, <2>1, <2>2 DEF FdStep, Begun
<1>13. OnIt(s, w[t], {c}) /\ w[t].op # "select"
  BY <1>0, IdleFacts DEF OnIt
<1>14. OnIt(s, u, {c})
  BY <1>0, <1>3 DEF OnIt
<1>15. TaskOK(e, t, u)
  <2>1. e.sock[fd].conn = c
    BY <1>0 DEF Touch
  <2>2. Hears(e, t, u)
    BY <1>3, <2>1 DEF Hears, Stands
  <2>3. Stage(e, t, u)
    BY <1>3, <1>4 DEF Stage, Closing, Making
  <2>4. SlotFresh(e, u)
    BY <1>3 DEF SlotFresh
  <2> QED BY <1>11, <2>2, <2>3, <2>4 DEF TaskOK
<1>16. TaskMoves(s, e, w, t, u, c)
  <2>1. u.op # "select" /\ u.op # "close" /\ u.pc # "look"
    BY <1>3
  <2> QED BY <1>6, <1>12, <1>13, <1>14, <1>15, <2>1 DEF TaskMoves
<1>17. x = [w EXCEPT ![t] = u]
  BY DEF x
<1>18. SockInv(e, x)
  BY <1>0, <1>1, <1>3, <1>6, <1>9, <1>10, <1>16, <1>17, CallStep, Zenon
<1> QED BY <1>18 DEF x, u

(* A netconn put back as it was, and put twice.                            *)
LEMMA PutAgain ==
  ASSUME NEW s \in NetRec, NEW c \in Conn
  PROVE  /\ PutConn(s, c, s.conn[c]) = s
         /\ \A k, m : PutConn(PutConn(s, c, k), c, m) = PutConn(s, c, m)
BY Zenon DEF PutConn, NetRec

(* Unanswered: the message that a task posts has no answer yet.            *)
LEMMA UnansweredFields ==
  ASSUME NEW s \in NetRec, NEW t \in User
  PROVE  /\ [s EXCEPT !.ans[t] = "unset"] = PutAns(s, t, "unset")
         /\ PutAns(s, t, "unset") \in NetRec
         /\ PutAns(s, t, "unset").conn = s.conn /\ PutAns(s, t, "unset").sock = s.sock
BY PutAnsFields, Zenon DEF PutAns, OnlyAns

(* A call that is answered and changes nothing else.                       *)
LEMMA BeginSame ==
  ASSUME NEW s, NEW w, SockInv(s, w), NEW t \in User, NEW fd, NEW c, Begun(s, w, t, fd, c),
         NEW op \in {"bind", "connect", "listen", "send"}, NEW fn \in FnOf(op), NEW r \in Results
  PROVE  SockInv(Ack(PutAns(s, t, "unset"), c, t, r), [w EXCEPT ![t] = Waiting(fd, op, fn, c)])
<1> DEFINE a == PutAns(s, t, "unset")
<1>0. c \in Conn
  BY DEF Begun
<1>1. s \in NetRec /\ s.conn[c] \in ConnRec /\ ConnSane(s.conn[c])
  BY <1>0, ConnFacts
<1>2. a \in NetRec /\ a.conn = s.conn
  BY <1>1, UnansweredFields
<1> HIDE DEF a
<1>3. PutConn(a, c, s.conn[c]) = a
  BY <1>0, <1>2, PutAgain
<1>4. Mild(s.conn[c], s.conn[c])
  BY <1>1 DEF Mild
<1>5. SockInv(Ack(PutConn(a, c, s.conn[c]), c, t, r), [w EXCEPT ![t] = Waiting(fd, op, fn, c)])
  BY <1>4, BeginAck DEF a
<1> QED BY <1>3, <1>5 DEF a

(* A call after which a UDP pcb has a port.                                *)
LEMMA BeginBound ==
  ASSUME NEW s, NEW w, SockInv(s, w), NEW t \in User, NEW fd, NEW c, Begun(s, w, t, fd, c),
         NEW op \in {"bind", "connect", "listen", "send"}, NEW fn \in FnOf(op), NEW r \in Results
  PROVE  SockInv(Ack(Bound(PutAns(s, t, "unset"), c), c, t, r),
                 [w EXCEPT ![t] = Waiting(fd, op, fn, c)])
<1> DEFINE a == PutAns(s, t, "unset")
           n == s.conn[c]
           m == [n EXCEPT !.pcb = IF n.pcb = "udp" THEN "bound" ELSE n.pcb]
<1>0. c \in Conn
  BY DEF Begun
<1>1. s \in NetRec /\ n \in ConnRec /\ ConnSane(n)
  BY <1>0, ConnFacts
<1>2. a \in NetRec /\ a.conn = s.conn
  BY <1>1, UnansweredFields
<1> HIDE DEF a
<1>3. Bound(a, c) = PutConn(a, c, m)
  BY <1>0, <1>2, Zenon DEF Bound, PutConn, NetRec
<1>4. Mild(n, m)
  <2>1. n.pcb \in Pcbs
    BY <1>1, ConnFields
  <2>2. CASE n.pcb = "udp"
    <3>1. m = [n EXCEPT !.pcb = "bound"]
      BY <2>2
    <3>2. m \in ConnRec
      BY <1>1, <3>1, Zenon DEF ConnRec, Pcbs
    <3>3. /\ m.used = n.used /\ m.acceptmbox = n.acceptmbox /\ m.socket = n.socket /\ m.msg = n.msg
          /\ m.done = n.done /\ m.fatal = n.fatal /\ m.recvmbox = n.recvmbox
          /\ m.state = n.state /\ m.acceptOk = n.acceptOk /\ m.recvOk = n.recvOk /\ m.pcb = "bound"
      BY <1>1, <3>1 DEF ConnRec
    <3>4. n.used
      BY <1>1, <2>2, PcbUsed
    <3> HIDE DEF m
    <3>5. ConnSane(m)
      BY <1>1, <2>2, <3>3, <3>4 DEF ConnSane, Live
    <3> QED BY <3>2, <3>3, <3>5 DEF Mild, Live
  <2>3. CASE n.pcb # "udp"
    <3>1. m = n
      BY <1>1, <2>3, Zenon DEF ConnRec
    <3> HIDE DEF m
    <3> QED BY <1>1, <3>1 DEF Mild
  <2> QED BY <2>2, <2>3
<1> HIDE DEF m
<1>5. SockInv(Ack(PutConn(a, c, m), c, t, r), [w EXCEPT ![t] = Waiting(fd, op, fn, c)])
  BY <1>4, BeginAck DEF a
<1> QED BY <1>3, <1>5 DEF a

(* lwip_bind *)
LEMMA BindKeeps ==
  ASSUME SockInv(net, user), Shared = FALSE, NEW t \in User, lwip_bind(t)
  PROVE  SockInv(net', user')
<1>1. PICK fd \in Fd, r \in {"ok", "err"} :
        /\ MayCall(t, fd, "bind")
        /\ tcpip_apimsg(t, Call(fd, "bind"), ConnOf(fd), "bind",
                        do_bind(Unanswered(t), ConnOf(fd), t, r))
  BY DEF lwip_bind
<1> DEFINE c == ConnOf(fd)
           a == PutAns(net, t, "unset")
<1>2. Begun(net, user, t, fd, c)
  BY <1>1, Begins, Zenon
<1>3. a = Unanswered(t)
  BY DEF PutAns, Unanswered
<1>4. user' = [user EXCEPT ![t] = Waiting(fd, "bind", "bind", c)]
  BY <1>1 DEF tcpip_apimsg, Set, Waiting
<1>5. net' = do_bind(a, c, t, r)
  BY <1>1, <1>3 DEF tcpip_apimsg
<1> HIDE DEF a, c
<1>6. \/ net' = Ack(a, c, t, "fatal") \/ net' = Ack(a, c, t, "err")
      \/ net' = Ack(Bound(a, c), c, t, "ok")
  BY <1>5 DEF do_bind
<1>7. "bind" \in FnOf("bind") /\ "bind" \in {"bind", "connect", "listen", "send"}
  BY DEF FnOf
<1>8. "fatal" \in Results /\ "err" \in Results /\ "ok" \in Results
  BY DEF Results
<1>9. SockInv(Ack(a, c, t, "fatal"), user') /\ SockInv(Ack(a, c, t, "err"), user')
  BY <1>2, <1>4, <1>7, <1>8, BeginSame, Zenon DEF a
<1>10. SockInv(Ack(Bound(a, c), c, t, "ok"), user')
  BY <1>2, <1>4, <1>7, <1>8, BeginBound, Zenon DEF a
<1> QED BY <1>6, <1>9, <1>10, Zenon

(* A fresh TCP netconn that listens, or that could not get its mailbox.    *)
LEMMA ListenMild ==
  ASSUME NEW n \in ConnRec, ConnSane(n), n.pcb = "new", n.state = "NONE", n.socket \in Fd,
         n.type = "tcp",
         NEW ok \in BOOLEAN
  PROVE  LET k == [n EXCEPT !.recvOk = FALSE, !.recvmbox = <<>>]
             m == IF ok THEN [k EXCEPT !.acceptOk = TRUE, !.state = "LISTEN", !.pcb = "listen"]
                  ELSE [k EXCEPT !.pcb = "none"]
         IN  Mild(n, m)
<1> DEFINE k == [n EXCEPT !.recvOk = FALSE, !.recvmbox = <<>>]
           l == [k EXCEPT !.acceptOk = TRUE, !.state = "LISTEN", !.pcb = "listen"]
           z == [k EXCEPT !.pcb = "none"]
<1>0. <<>> \in Seq({"data", "null"}) /\ n.recvmbox = <<>> /\ n.used /\ n.socket >= 0
  BY PcbUsed, FdFacts, EmptySeq DEF ConnSane
<1>1. k \in ConnRec
  BY <1>0, Zenon DEF ConnRec
<1>2. /\ k.used = n.used /\ k.acceptmbox = n.acceptmbox /\ k.socket = n.socket /\ k.msg = n.msg
      /\ k.done = n.done /\ k.fatal = n.fatal /\ k.recvmbox = <<>> /\ k.recvOk = FALSE
      /\ k.state = n.state /\ k.acceptOk = n.acceptOk /\ k.type = n.type
  BY DEF ConnRec
<1> HIDE DEF k
<1>3. "LISTEN" \in Busy \cup {"NONE", "LISTEN"} /\ "listen" \in Pcbs /\ "none" \in Pcbs
  BY DEF Pcbs
<1>4. l \in ConnRec /\ z \in ConnRec
  BY <1>1, <1>3, Zenon DEF ConnRec
<1>5. /\ l.used = k.used /\ l.acceptmbox = k.acceptmbox /\ l.socket = k.socket /\ l.msg = k.msg
      /\ l.done = k.done /\ l.fatal = k.fatal /\ l.recvmbox = <<>> /\ l.recvOk = FALSE
      /\ l.state = "LISTEN" /\ l.acceptOk = TRUE /\ l.pcb = "listen" /\ l.type = k.type
  BY <1>1, <1>2 DEF ConnRec
<1>6. /\ z.used = k.used /\ z.acceptmbox = k.acceptmbox /\ z.socket = k.socket /\ z.msg = k.msg
      /\ z.done = k.done /\ z.fatal = k.fatal /\ z.recvmbox = <<>> /\ z.recvOk = FALSE
      /\ z.state = k.state /\ z.acceptOk = k.acceptOk /\ z.pcb = "none"
  BY <1>1, <1>2 DEF ConnRec
<1> HIDE DEF l, z
<1>7. Mild(n, l)
  <2>1. ConnSane(l)
    BY <1>0, <1>2, <1>5 DEF ConnSane, Busy
  <2> QED BY <1>0, <1>2, <1>4, <1>5, <2>1 DEF Mild, Live
<1>8. Mild(n, z)
  <2>1. ConnSane(z)
    BY <1>0, <1>2, <1>6 DEF ConnSane, Busy
  <2> QED BY <1>0, <1>2, <1>4, <1>6, <2>1 DEF Mild, Live
<1> QED BY <1>7, <1>8 DEF l, z, k

(* lwip_listen *)
LEMMA ListenKeeps ==
  ASSUME SockInv(net, user), Shared = FALSE, NEW t \in User, lwip_listen(t)
  PROVE  SockInv(net', user')
<1>1. PICK fd \in Fd, r \in {"ok", "err", "nombox"} :
        /\ MayCall(t, fd, "listen")
        /\ tcpip_apimsg(t, Call(fd, "listen"), ConnOf(fd), "listen",
                        do_listen(Unanswered(t), ConnOf(fd), t, r))
  BY DEF lwip_listen
<1> DEFINE c == ConnOf(fd)
           a == PutAns(net, t, "unset")
           n == net.conn[c]
<1>2. Begun(net, user, t, fd, c)
  BY <1>1, Begins, Zenon
<1>3. a = Unanswered(t)
  BY DEF PutAns, Unanswered
<1>4. user' = [user EXCEPT ![t] = Waiting(fd, "listen", "listen", c)]
  BY <1>1 DEF tcpip_apimsg, Set, Waiting
<1>5. net' = do_listen(a, c, t, r)
  BY <1>1, <1>3 DEF tcpip_apimsg
<1>6. c \in Conn /\ n.socket = fd
  BY <1>2 DEF Begun
<1>7. net \in NetRec /\ n \in ConnRec /\ ConnSane(n)
  BY <1>6, ConnFacts
<1>8. a \in NetRec /\ a.conn = net.conn
  BY <1>7, UnansweredFields
<1> HIDE DEF a, c
<1> DEFINE k == [n EXCEPT !.recvOk = FALSE, !.recvmbox = <<>>]
           l == [k EXCEPT !.acceptOk = TRUE, !.state = "LISTEN", !.pcb = "listen"]
           z == [k EXCEPT !.pcb = "none"]
           b == [a EXCEPT !.conn[c].recvOk = FALSE, !.conn[c].recvmbox = <<>>]
<1>9. b = PutConn(a, c, k)
  BY <1>6, <1>7, <1>8, Zenon DEF PutConn, NetRec
<1>10. k \in ConnRec
  <2>1. <<>> \in Seq({"data", "null"})
    BY EmptySeq
  <2> QED BY <1>7, <2>1, Zenon DEF ConnRec
<1>11. PutConn(a, c, k) \in NetRec /\ PutConn(a, c, k).conn[c] = k
  <2> HIDE DEF k
  <2> QED BY <1>6, <1>8, <1>10, PutConnFields, Zenon DEF OnlyConn
<1>12. /\ [b EXCEPT !.conn[c].acceptOk = TRUE, !.conn[c].state = "LISTEN", !.conn[c].pcb = "listen"]
            = PutConn(a, c, l)
       /\ [b EXCEPT !.conn[c].pcb = "none"] = PutConn(a, c, z)
  <2> DEFINE y == PutConn(a, c, k)
  <2>0. b = y /\ y \in NetRec /\ y.conn[c] = k
    BY <1>9, <1>11
  <2>1. PutConn(y, c, l) = PutConn(a, c, l) /\ PutConn(y, c, z) = PutConn(a, c, z)
    BY <1>6, <1>8, PutAgain
  <2> HIDE DEF b, y, k
  <2>2. [y EXCEPT !.conn[c].acceptOk = TRUE, !.conn[c].state = "LISTEN", !.conn[c].pcb = "listen"]
          = PutConn(y, c, l)
    BY <1>6, <2>0, Zenon DEF PutConn, NetRec
  <2>3. [y EXCEPT !.conn[c].pcb = "none"] = PutConn(y, c, z)
    BY <1>6, <2>0, Zenon DEF PutConn, NetRec
  <2> QED BY <2>0, <2>1, <2>2, <2>3
<1>13. \/ net' = Ack(a, c, t, "fatal") \/ net' = Ack(a, c, t, "err")
       \/ /\ n.pcb = "new" /\ n.state = "NONE" /\ n.type = "tcp"
          /\ net' = Ack(PutConn(a, c, l), c, t, "ok") \/ net' = Ack(PutConn(a, c, z), c, t, "err")
  <2> HIDE DEF l, z
  <2>1. n.type # "udp" => n.type = "tcp"
    BY <1>7, ConnFields
  <2> QED BY <1>5, <1>8, <1>12, <2>1 DEF do_listen
<1> HIDE DEF b, l, z, k
<1>14. "listen" \in FnOf("listen") /\ "listen" \in {"bind", "connect", "listen", "send"}
  BY DEF FnOf
<1>15. "fatal" \in Results /\ "err" \in Results /\ "ok" \in Results
  BY DEF Results
<1>16. SockInv(Ack(a, c, t, "fatal"), user') /\ SockInv(Ack(a, c, t, "err"), user')
  BY <1>2, <1>4, <1>14, <1>15, BeginSame, Zenon DEF a
<1>17. ASSUME n.pcb = "new", n.state = "NONE", n.type = "tcp"
       PROVE  SockInv(Ack(PutConn(a, c, l), c, t, "ok"), user')
              /\ SockInv(Ack(PutConn(a, c, z), c, t, "err"), user')
  <2>1. n.socket \in Fd
    BY <1>6
  <2>2. Mild(n, l)
    BY <1>7, <1>17, <2>1, ListenMild, Zenon DEF k, l
  <2>3. Mild(n, z)
    BY <1>7, <1>17, <2>1, ListenMild, Zenon DEF k, z
  <2>4. SockInv(Ack(PutConn(a, c, l), c, t, "ok"), user')
    BY <1>2, <1>4, <1>14, <1>15, <2>2, BeginAck, Zenon DEF a
  <2>5. SockInv(Ack(PutConn(a, c, z), c, t, "err"), user')
    BY <1>2, <1>4, <1>14, <1>15, <2>3, BeginAck, Zenon DEF a
  <2> QED BY <2>4, <2>5
<1> QED BY <1>13, <1>16, <1>17, Zenon

SynSent(a, c, t) ==
  [a EXCEPT !.conn[c].state = "CONNECT", !.conn[c].msg = t, !.conn[c].pcb = "syn"]

(* tcp_connect has sent its SYN: the answer comes later.                   *)
LEMMA ConnectWaits ==
  ASSUME NEW s, NEW w, SockInv(s, w), NEW t \in User, NEW fd, NEW c, Begun(s, w, t, fd, c),
         s.conn[c].state = "NONE", s.conn[c].pcb = "new"
  PROVE  SockInv(SynSent(PutAns(s, t, "unset"), c, t),
                 [w EXCEPT ![t] = Waiting(fd, "connect", "connect", c)])
<1> DEFINE n == s.conn[c]
           a == PutAns(s, t, "unset")
           m == [n EXCEPT !.state = "CONNECT", !.msg = t, !.pcb = "syn"]
           e == PutConn(a, c, m)
<1>0. c \in Conn /\ n.done = 0
  BY DEF Begun
<1>1. s \in NetRec /\ n \in ConnRec /\ ConnSane(n) /\ n.used
  BY <1>0, ConnFacts, PcbUsed
<1>2. OnlyAns(s, a, [s.ans EXCEPT ![t] = "unset"]) /\ Touch(s, a, c) /\ SameCounts(s, a, c)
  BY <1>0, <1>1, PutAnsFields, PutAnsTouch, Zenon
<1> HIDE DEF a
<1>3. a \in NetRec /\ a.conn = s.conn
  BY <1>2 DEF OnlyAns
<1>4. [a EXCEPT !.conn[c].state = "CONNECT", !.conn[c].msg = t, !.conn[c].pcb = "syn"] = e
  BY <1>0, <1>3, Zenon DEF PutConn, NetRec
<1>5. m \in ConnRec
  BY <1>1, Zenon DEF ConnRec, Pcbs, Busy
<1>6. /\ m.used = n.used /\ m.type = n.type /\ m.fatal = n.fatal /\ m.socket = n.socket
      /\ m.recvOk = n.recvOk /\ m.recvmbox = n.recvmbox /\ m.done = n.done
      /\ m.acceptOk = n.acceptOk /\ m.acceptmbox = n.acceptmbox
      /\ m.state = "CONNECT" /\ m.msg = t /\ m.pcb = "syn"
  BY <1>1, Zenon DEF ConnRec
<1> HIDE DEF m
<1>7. OnlyConn(a, e, c, m) /\ Touch(a, e, c) /\ SameCounts(a, e, c)
  BY <1>0, <1>3, <1>5, <1>6, PutConnFields, PutConnTouch
<1> HIDE DEF e
<1>8. e.conn[c] = m /\ Touch(s, e, c) /\ SameCounts(s, e, c)
  BY <1>0, <1>1, <1>2, <1>7, TouchTrans, CountsTrans DEF OnlyConn
<1>9. e.ans = [s.ans EXCEPT ![t] = "unset"]
  BY <1>2, <1>7 DEF OnlyConn, OnlyAns
<1>10. e.ans[t] = "unset" /\ \A v \in User : v # t => e.ans[v] = s.ans[v]
  BY <1>1, <1>9, NetFields
<1>11. Kept(s.conn[c], e.conn[c])
  BY <1>6, <1>8 DEF Kept
<1>12. t # NoUser
  BY SocketAssumption
<1>13. ConnSane(e.conn[c])
  BY <1>0, <1>1, <1>6, <1>8, <1>12, Zenon DEF ConnSane, Busy
<1>14. Raw(e, c) = Raw(s, c)
  BY <1>8 DEF SameCounts
<1>15. Writable(e, c)
  BY <1>6, <1>8 DEF Writable, Live
<1>16. Stands(e, t, c)
  BY <1>6, <1>8, <1>10 DEF Stands
<1>17. "connect" \in FnOf("connect") /\ "connect" \in {"bind", "connect", "listen", "send"}
  BY DEF FnOf
<1>18. SockInv(e, [w EXCEPT ![t] = Waiting(fd, "connect", "connect", c)])
  BY <1>8, <1>10, <1>11, <1>13, <1>14, <1>15, <1>16, <1>17, BeginWait
<1> QED BY <1>4, <1>18 DEF a, SynSent

(* lwip_connect *)
LEMMA ConnectKeeps ==
  ASSUME SockInv(net, user), Shared = FALSE, NEW t \in User, lwip_connect(t)
  PROVE  SockInv(net', user')
<1>1. PICK fd \in Fd, r \in {"ok", "err"} :
        /\ MayCall(t, fd, "connect")
        /\ tcpip_apimsg(t, Call(fd, "connect"), ConnOf(fd), "connect",
                        do_connect(Unanswered(t), ConnOf(fd), t, r))
  BY DEF lwip_connect
<1> DEFINE c == ConnOf(fd)
           a == PutAns(net, t, "unset")
           n == net.conn[c]
           k == SynSent(a, c, t)
<1>2. Begun(net, user, t, fd, c)
  BY <1>1, Begins, Zenon
<1>3. a = Unanswered(t)
  BY DEF PutAns, Unanswered
<1>4. user' = [user EXCEPT ![t] = Waiting(fd, "connect", "connect", c)]
  BY <1>1 DEF tcpip_apimsg, Set, Waiting
<1>5. net' = do_connect(a, c, t, r)
  BY <1>1, <1>3 DEF tcpip_apimsg
<1>6. net \in NetRec
  BY DEF SockInv, Types
<1>7. a.conn = net.conn
  BY <1>6, UnansweredFields
<1> HIDE DEF a, c
<1>8. \/ net' = Ack(a, c, t, "fatal") \/ net' = Ack(a, c, t, "err") \/ net' = Ack(a, c, t, r)
      \/ net' = Ack(Bound(a, c), c, t, r)
      \/ n.state = "NONE" /\ n.pcb = "new" /\ net' = k
  <2> HIDE DEF k
  <2>1. CASE a.conn[c].pcb = "none"
    BY <1>5, <2>1 DEF do_connect
  <2>2. CASE a.conn[c].pcb # "none" /\ a.conn[c].type = "udp"
    <3>1. net' = do_send(a, c, t, r)
      BY <1>5, <2>2 DEF do_connect
    <3> QED BY <3>1 DEF do_send
  <2>3. CASE a.conn[c].pcb # "none" /\ a.conn[c].type # "udp"
    <3>1. CASE a.conn[c].state # "NONE" \/ a.conn[c].pcb # "new" \/ r # "ok"
      BY <1>5, <2>3, <3>1 DEF do_connect
    <3>2. CASE ~(a.conn[c].state # "NONE" \/ a.conn[c].pcb # "new" \/ r # "ok")
      <4>1. net' = k
        BY <1>5, <2>3, <3>2, Zenon DEF do_connect, k, SynSent
      <4> QED BY <1>7, <3>2, <4>1
    <3> QED BY <3>1, <3>2
  <2> QED BY <2>1, <2>2, <2>3
<1>9. "connect" \in FnOf("connect") /\ "connect" \in {"bind", "connect", "listen", "send"}
  BY DEF FnOf
<1>10. "fatal" \in Results /\ "err" \in Results /\ r \in Results
  BY DEF Results
<1>11. SockInv(Ack(a, c, t, "fatal"), user') /\ SockInv(Ack(a, c, t, "err"), user')
       /\ SockInv(Ack(a, c, t, r), user')
  BY <1>2, <1>4, <1>9, <1>10, BeginSame, Zenon DEF a
<1>12. SockInv(Ack(Bound(a, c), c, t, r), user')
  BY <1>2, <1>4, <1>9, <1>10, BeginBound, Zenon DEF a
<1>13. ASSUME n.state = "NONE", n.pcb = "new" PROVE SockInv(k, user')
  BY <1>2, <1>4, <1>13, ConnectWaits, Zenon DEF a
<1> QED BY <1>8, <1>11, <1>12, <1>13, Zenon

(* do_write has kept the message of task t, which sends k units.           *)
Writes(a, c, t, k) == [a EXCEPT !.conn[c].state = "WRITE", !.conn[c].msg = t, !.conn[c].left = k]

(* netconn_write_partly: all is written at once, or the answer comes later. *)
LEMMA WriteWaits ==
  ASSUME NEW s, NEW w, SockInv(s, w), NEW t \in User, NEW fd, NEW c, Begun(s, w, t, fd, c),
         s.conn[c].state = "NONE", s.conn[c].pcb # "none", NEW k \in WriteSizes,
         NEW r \in Results, r # "fatal" => s.conn[c].pcb \in Live
  PROVE  SockInv(do_writemore(Writes(PutAns(s, t, "unset"), c, t, k), c, r),
                 [w EXCEPT ![t] = Waiting(fd, "send", "write", c)])
<1> DEFINE n == s.conn[c]
           a == PutAns(s, t, "unset")
           m == [n EXCEPT !.state = "WRITE", !.msg = t, !.left = k]
           b == PutConn(a, c, m)
           e == do_writemore(b, c, r)
<1>0. c \in Conn /\ n.done = 0 /\ n.msg = NoUser
  BY DEF Begun
<1>1. s \in NetRec /\ n \in ConnRec /\ ConnSane(n) /\ n.used /\ Fit(s, c)
  BY <1>0, ConnFacts, PcbUsed
<1>2. OnlyAns(s, a, [s.ans EXCEPT ![t] = "unset"]) /\ Touch(s, a, c) /\ SameCounts(s, a, c)
  BY <1>0, <1>1, PutAnsFields, PutAnsTouch, Zenon
<1> HIDE DEF a
<1>3. a \in NetRec /\ a.conn = s.conn
  BY <1>2 DEF OnlyAns
<1>4. Writes(a, c, t, k) = b
  BY <1>0, <1>3, Zenon DEF PutConn, NetRec, Writes
<1>5. m \in ConnRec
  <2>1. k \in Nat /\ "WRITE" \in Busy \cup {"NONE", "LISTEN"} /\ t \in User \cup {NoUser}
    BY SocketAssumption DEF Busy
  <2> QED BY <1>1, <2>1, Zenon DEF ConnRec
<1>6. /\ m.used = n.used /\ m.type = n.type /\ m.fatal = n.fatal /\ m.socket = n.socket
      /\ m.recvOk = n.recvOk /\ m.recvmbox = n.recvmbox /\ m.done = n.done
      /\ m.acceptOk = n.acceptOk /\ m.acceptmbox = n.acceptmbox /\ m.snd = n.snd
      /\ m.state = "WRITE" /\ m.msg = t /\ m.pcb = n.pcb
  BY <1>1, Zenon DEF ConnRec
<1> HIDE DEF m
<1>7. OnlyConn(a, b, c, m) /\ Touch(a, b, c) /\ SameCounts(a, b, c)
  BY <1>0, <1>3, <1>5, <1>6, PutConnFields, PutConnTouch
<1> HIDE DEF b
<1>8. b.conn[c] = m /\ Touch(s, b, c) /\ SameCounts(s, b, c) /\ b.sock = s.sock
  BY <1>0, <1>1, <1>2, <1>7, TouchTrans, CountsTrans DEF OnlyConn, OnlyAns
<1>9. b.ans = [s.ans EXCEPT ![t] = "unset"]
  BY <1>2, <1>7 DEF OnlyConn, OnlyAns
<1>10. Fit(b, c)
  BY <1>0, <1>1, <1>8, FitTouch
<1>11. Wrote(b, e, c, r)
  BY <1>0, <1>6, <1>8, <1>10, WriteMore
<1> HIDE DEF e
<1> DEFINE p == e.conn[c]
<1>12. Touch(s, e, c) /\ Raw(e, c) = Raw(s, c) /\ p.pcb = n.pcb /\ Kept(n, p)
  BY <1>0, <1>1, <1>6, <1>8, <1>11, TouchTrans DEF Wrote, SameCounts, Kept
<1>13. t # NoUser /\ s.ans \in [User -> {"unset", "ok", "err", "fatal"}]
  BY <1>1, SocketAssumption, NetFields
<1>14. p.socket = n.socket
  BY <1>12, FdFacts DEF Touch, Begun
<1>15. \/ /\ p.msg = NoUser /\ p.state = "NONE" /\ p.done = 1
          /\ \E q \in Results : e.ans = [b.ans EXCEPT ![t] = q]
       \/ /\ r # "fatal" /\ p.msg = t /\ p.state = "WRITE" /\ p.done = 0 /\ e.ans = b.ans
  <2>0. b.conn[c].msg = t /\ b.conn[c].state = "WRITE" /\ b.conn[c].done = 0
    BY <1>0, <1>6, <1>8
  <2>1. Ends(b, e, c) \/ (r # "fatal" /\ Stays(b, e, c))
    BY <1>11 DEF Wrote
  <2>2. CASE Ends(b, e, c)
    <3>1. /\ p.msg = NoUser /\ p.state = "NONE" /\ p.done = b.conn[c].done + 1
          /\ \E q \in Results : e.ans = [b.ans EXCEPT ![t] = q]
      BY <2>0, <2>2 DEF Ends
    <3>2. b.conn[c].done + 1 = 1
      BY <2>0
    <3> QED BY <3>1, <3>2
  <2>3. CASE r # "fatal" /\ Stays(b, e, c)
    BY <2>0, <2>3 DEF Stays
  <2> QED BY <2>1, <2>2, <2>3
<1>16. Stands(e, t, c)
  <2>1. CASE p.msg = NoUser /\ p.done = 1 /\ \E q \in Results : e.ans = [b.ans EXCEPT ![t] = q]
    <3>1. e.ans[t] # "unset"
      BY <1>9, <1>13, <2>1 DEF Results
    <3> QED BY <2>1, <3>1 DEF Stands
  <2>2. CASE p.msg = t /\ p.state = "WRITE" /\ e.ans = b.ans
    BY <1>9, <1>13, <2>2 DEF Stands
  <2> QED BY <1>15, <2>1, <2>2
<1>17. \A v \in User : v # t => e.ans[v] = s.ans[v]
  BY <1>9, <1>13, <1>15, Zenon
<1>18. ConnSane(p)
  <2>1. /\ p.used = n.used /\ p.acceptOk = n.acceptOk /\ p.recvOk = n.recvOk
        /\ p.acceptmbox = n.acceptmbox /\ p.recvmbox = n.recvmbox
    BY <1>12 DEF Kept
  <2>2. n.pcb # "syn"
    BY <1>1 DEF ConnSane
  <2>3. CASE p.msg = NoUser /\ p.state = "NONE" /\ p.done = 1
    BY <1>1, <1>12, <1>14, <2>1, <2>2, <2>3 DEF ConnSane, Busy
  <2>4. CASE r # "fatal" /\ p.msg = t /\ p.state = "WRITE" /\ p.done = 0
    BY <1>1, <1>12, <1>13, <1>14, <2>1, <2>2, <2>4 DEF ConnSane, Busy
  <2> QED BY <1>15, <2>3, <2>4
<1>19. Writable(e, c)
  <2>1. Writable(s, c)
    BY <1>0 DEF SockInv, Counts
  <2>2. RoomShown(b, e, c) /\ b.conn[c].socket = n.socket /\ b.conn[c].snd = n.snd
    BY <1>6, <1>8, <1>11 DEF Wrote
  <2> QED BY <1>8, <1>12, <1>14, <2>1, <2>2 DEF Writable, RoomShown
<1>20. "write" \in FnOf("send") /\ "send" \in {"bind", "connect", "listen", "send"}
  BY DEF FnOf
<1>21. SockInv(e, [w EXCEPT ![t] = Waiting(fd, "send", "write", c)])
  BY <1>12, <1>16, <1>17, <1>18, <1>19, <1>20, BeginWait
<1> QED BY <1>4, <1>21 DEF a, e

(* lwip_send *)
LEMMA SendKeeps ==
  ASSUME SockInv(net, user), Shared = FALSE, NEW t \in User, lwip_send(t)
  PROVE  SockInv(net', user')
<1>1. PICK fd \in Fd :
    /\ MayCall(t, fd, "send")
    /\ LET c == ConnOf(fd)
       IN  \/ /\ net.conn[c].type = "tcp"
              /\ \E n \in WriteSizes, r \in tcp_write(net, c) :
                   tcpip_apimsg(t, Call(fd, "send"), c, "write",
                                do_write(Unanswered(t), c, t, n, r))
           \/ /\ net.conn[c].type = "udp"
              /\ \E r \in {"ok", "err"} :
                   tcpip_apimsg(t, Call(fd, "send"), c, "send", do_send(Unanswered(t), c, t, r))
  BY DEF lwip_send
<1> DEFINE c == ConnOf(fd)
           a == PutAns(net, t, "unset")
           n == net.conn[c]
<1>2. Begun(net, user, t, fd, c)
  BY <1>1, Begins, Zenon
<1>3. a = Unanswered(t)
  BY DEF PutAns, Unanswered
<1>4. net \in NetRec
  BY DEF SockInv, Types
<1>5. a.conn = net.conn
  BY <1>4, UnansweredFields
<1> HIDE DEF a
<1>6. /\ "write" \in FnOf("send") /\ "send" \in FnOf("send")
      /\ "send" \in {"bind", "connect", "listen", "send"}
  BY DEF FnOf
<1>7. ASSUME NEW k \in WriteSizes, NEW r \in tcp_write(net, c),
             tcpip_apimsg(t, Call(fd, "send"), c, "write", do_write(Unanswered(t), c, t, k, r))
      PROVE  SockInv(net', user')
  <2>1. net' = do_write(a, c, t, k, r)
    BY <1>3, <1>7 DEF tcpip_apimsg
  <2>2. user' = [user EXCEPT ![t] = Waiting(fd, "send", "write", c)]
    BY <1>7 DEF tcpip_apimsg, Set, Waiting
  <2>3. r \in Results /\ (r # "fatal" => n.pcb \in Live)
    BY DEF tcp_write, Results
  <2> HIDE DEF c
  <2>4. CASE a.conn[c].fatal \/ (a.conn[c].state = "NONE" /\ a.conn[c].pcb = "none")
    <3>1. net' = Ack(a, c, t, "fatal") /\ "fatal" \in Results
      BY <2>1, <2>4 DEF do_write, Results
    <3> QED BY <1>2, <1>6, <2>2, <3>1, BeginSame, Zenon DEF a
  <2>5. CASE ~(a.conn[c].fatal \/ (a.conn[c].state = "NONE" /\ a.conn[c].pcb = "none"))
             /\ a.conn[c].state # "NONE"
    <3>1. net' = Ack(a, c, t, "err") /\ "err" \in Results
      BY <2>1, <2>5 DEF do_write, Results
    <3> QED BY <1>2, <1>6, <2>2, <3>1, BeginSame, Zenon DEF a
  <2>6. CASE ~(a.conn[c].fatal \/ (a.conn[c].state = "NONE" /\ a.conn[c].pcb = "none"))
             /\ a.conn[c].state = "NONE"
    <3>1. net' = do_writemore(Writes(a, c, t, k), c, r)
      BY <2>1, <2>6 DEF do_write, Writes
    <3>2. n.state = "NONE" /\ n.pcb # "none"
      BY <1>5, <2>6
    <3> QED BY <1>2, <2>2, <2>3, <3>1, <3>2, WriteWaits, Zenon DEF a
  <2> QED BY <2>4, <2>5, <2>6
<1>8. ASSUME NEW r \in {"ok", "err"},
             tcpip_apimsg(t, Call(fd, "send"), c, "send", do_send(Unanswered(t), c, t, r))
      PROVE  SockInv(net', user')
  <2>1. user' = [user EXCEPT ![t] = Waiting(fd, "send", "send", c)]
    BY <1>8 DEF tcpip_apimsg, Set, Waiting
  <2>2. net' = do_send(a, c, t, r) /\ r \in Results
    BY <1>3, <1>8 DEF tcpip_apimsg, Results
  <2> HIDE DEF c
  <2>3. net' = Ack(a, c, t, r) \/ net' = Ack(Bound(a, c), c, t, r)
    BY <2>2 DEF do_send
  <2>4. SockInv(Ack(a, c, t, r), user')
    BY <1>2, <1>6, <2>1, <2>2, BeginSame, Zenon DEF a
  <2>5. SockInv(Ack(Bound(a, c), c, t, r), user')
    BY <1>2, <1>6, <2>1, <2>2, BeginBound, Zenon DEF a
  <2> QED BY <2>3, <2>4, <2>5, Zenon
<1> QED BY <1>1, <1>7, <1>8

-----------------------------------------------------------------------------
(* Calls go on.                                                            *)

(* A task at another place of its call.                                    *)
Moved(v, u, pc) ==
  /\ u \in UserRec /\ u.pc = pc /\ u.fn = v.fn /\ u.conn = v.conn
  /\ u.op = v.op /\ u.fd = v.fd /\ u.new = v.new /\ u.off = v.off /\ u.got = v.got
  /\ u.scb = v.scb

Pcs == {"idle", "await", "back", "fetch", "event", "look", "copy", "settle", "free",
        "add", "count", "scan", "wait", "uncount", "remove"}

(* Only pc changes.                                                        *)
LEMMA MoveFields ==
  ASSUME NEW v \in UserRec, NEW pc \in Pcs
  PROVE  Moved(v, [v EXCEPT !.pc = pc], pc)
<1>1. [v EXCEPT !.pc = pc] \in UserRec
  BY DEF UserRec, Pcs
<1>2. LET u == [v EXCEPT !.pc = pc]
      IN  /\ u.pc = pc /\ u.fn = v.fn /\ u.conn = v.conn
          /\ u.op = v.op /\ u.fd = v.fd /\ u.new = v.new /\ u.off = v.off /\ u.got = v.got
          /\ u.scb = v.scb
  BY DEF UserRec
<1> QED BY <1>1, <1>2 DEF Moved

(* A task in a call on its descriptor waits for the netconn of that        *)
(* descriptor.                                                             *)
LEMMA EngagedFacts ==
  ASSUME NEW s, NEW w, SockInv(s, w), NEW t \in User, Engaged(w[t])
  PROVE  /\ OnIt(s, w[t], {w[t].conn}) /\ w[t].op # "select" /\ w[t].fn \in FnOf(w[t].op)
         /\ Shape(w[t]) /\ Hears(s, t, w[t]) /\ Stage(s, t, w[t]) /\ w[t] \in UserRec
<1>1. /\ Shape(w[t]) /\ Hears(s, t, w[t]) /\ Stage(s, t, w[t]) /\ w[t] \in UserRec
  BY DEF SockInv, Types, Shapes, Talks, Stages
<1>2. w[t].op # "select" /\ w[t].fn \in FnOf(w[t].op)
  BY <1>1 DEF Shape, Engaged
<1>3. Fetched(w[t]) => w[t].op = "recv"
  BY <1>2 DEF Fetched, FnOf, Engaged
<1>4. Fetched(w[t]) => s.sock[w[t].fd].conn = w[t].conn
  BY <1>1, <1>3 DEF Hears
<1> QED BY <1>1, <1>2, <1>4 DEF OnIt

(* SemTaken: the wait for op_completed ends.                               *)
LEMMA SemTakenKeeps ==
  ASSUME SockInv(net, user), NEW t \in User, SemTaken(t)
  PROVE  SockInv(net', user')
<1> DEFINE u == user[t]
           c == u.conn
           n == net.conn[c]
           q == [u EXCEPT !.pc = "back"]
           m == [n EXCEPT !.done = n.done - 1, !.fatal = n.fatal \/ net.ans[t] = "fatal"]
           e == PutConn(net, c, m)
<1>0. u.pc = "await" /\ n.done > 0 /\ Engaged(u)
  BY DEF SemTaken, Engaged
<1>1. c \in Conn /\ Private(net, user, t, c) /\ n.used
  BY <1>0, PrivateEngaged
<1>2. /\ OnIt(net, u, {c}) /\ u.op # "select" /\ u.fn \in FnOf(u.op)
      /\ Shape(u) /\ Hears(net, t, u) /\ Stage(net, t, u) /\ u \in UserRec
  BY <1>0, EngagedFacts
<1>3. net \in NetRec /\ n \in ConnRec /\ ConnSane(n) /\ Bounds(n) /\ n.done \in Nat /\ n.fatal \in BOOLEAN
  BY <1>1, ConnFacts, ConnFields
<1>4. n.done = 1 /\ net.ans[t] # "unset" /\ n.msg = NoUser
  BY <1>0, <1>2, <1>3, SocketAssumption DEF Hears, ConnSane
<1>5. net' = e
  BY <1>1, <1>3, Zenon DEF SemTaken, PutConn, NetRec
<1>6. m \in ConnRec
  <2>1. n.done - 1 \in Nat /\ (n.fatal \/ net.ans[t] = "fatal") \in BOOLEAN
    BY <1>4
  <2> QED BY <1>3, <2>1, Zenon DEF ConnRec
<1>7. /\ m.used = n.used /\ m.type = n.type /\ m.socket = n.socket
      /\ m.recvOk = n.recvOk /\ m.recvmbox = n.recvmbox /\ m.done = n.done - 1
      /\ m.acceptOk = n.acceptOk /\ m.acceptmbox = n.acceptmbox /\ m.snd = n.snd
      /\ m.state = n.state /\ m.msg = n.msg /\ m.pcb = n.pcb
      /\ m.fatal = (n.fatal \/ net.ans[t] = "fatal")
  BY <1>3 DEF ConnRec
<1> HIDE DEF m
<1>8. OnlyConn(net, e, c, m) /\ Touch(net, e, c) /\ SameCounts(net, e, c)
  BY <1>1, <1>3, <1>6, <1>7, PutConnFields, PutConnTouch
<1> HIDE DEF e
<1>9. e.conn[c] = m /\ e.ans = net.ans /\ e.sock = net.sock /\ e.moved = net.moved
  BY <1>8 DEF OnlyConn
<1>10. Handled(net, e, c)
  BY <1>1, <1>3, <1>7, <1>8, <1>9, TouchHandled, Zenon
<1>11. Moved(u, q, "back")
  <2>1. "back" \in Pcs
    BY DEF Pcs
  <2> QED BY <1>2, <2>1, MoveFields
<1> HIDE DEF q
<1>12. /\ q \in UserRec /\ q.pc = "back" /\ q.fn = u.fn /\ q.conn = u.conn
       /\ q.op = u.op /\ q.fd = u.fd /\ q.new = u.new
  BY <1>11 DEF Moved
<1>13. m.done = 0
  BY <1>4, <1>7
<1>14. ConnSane(m) /\ Bounds(m)
  BY <1>1, <1>3, <1>4, <1>7, <1>13 DEF ConnSane, Bounds
<1>15. Shape(q)
  BY <1>0, <1>2, <1>12 DEF Shape, Engaged
<1>16. (Closing(q) <=> Closing(u)) /\ (Making(q) <=> Making(u)) /\ (Fetched(q) <=> Fetched(u))
       /\ Brought(q) = Brought(u) /\ Engaged(q)
  BY <1>0, <1>12 DEF Closing, Making, Fetched, Brought, Engaged
<1>17. Hears(e, t, q)
  BY <1>0, <1>2, <1>4, <1>9, <1>12, <1>16 DEF Hears
<1>18. Stage(e, t, q)
  <2>1. Closing(q) => Deleting(m)
    BY <1>2, <1>7, <1>12, <1>16 DEF Stage, Deleting
  <2>2. Making(q) => Fresh(m, net.ans[t])
    BY <1>2, <1>7, <1>12, <1>16, Zenon DEF Stage, Fresh
  <2> QED BY <1>9, <1>12, <2>1, <2>2 DEF Stage
<1>19. SlotFresh(e, q)
  <2>1. SlotFresh(net, u)
    BY DEF SockInv, Counts
  <2> QED BY <1>9, <1>12, <2>1 DEF SlotFresh
<1>20. FdStep(net, user, t, q)
  BY <1>0, <1>12, <1>16 DEF FdStep
<1>21. TaskMoves(net, e, user, t, q, c)
  <2>1. OnIt(net, q, {c})
    BY <1>2, <1>12, <1>16 DEF OnIt, Engaged
  <2>2. TaskOK(e, t, q)
    BY <1>15, <1>17, <1>18, <1>19 DEF TaskOK
  <2> QED BY <1>2, <1>9, <1>12, <1>20, <2>1, <2>2 DEF TaskMoves
<1>22. MyCount(e, q, c)
  <2>1. MyCount(net, u, c)
    BY <1>1, CountMine DEF SockInv, Counts, Links
  <2>2. Due(q, m.socket) = Due(u, n.socket)
    BY <1>7, <1>12, <1>16 DEF Due
  <2>3. Raw(e, c) = Raw(net, c)
    BY <1>8 DEF SameCounts
  <2> QED BY <1>7, <1>9, <1>12, <1>16, <2>1, <2>2, <2>3, Zenon DEF MyCount
<1>23. Writable(e, c)
  <2>1. Writable(net, c)
    BY <1>1 DEF SockInv, Counts
  <2> QED BY <1>7, <1>9, <2>1 DEF Writable
<1>24. user' = [user EXCEPT ![t] = q]
  BY DEF SemTaken, Set, q
<1>25. HeardOf(e, user', c)
  <2>1. m.state # "CLOSE"
    BY <1>4, <1>7, <1>14 DEF ConnSane, Busy
  <2> QED BY <1>4, <1>7, <1>9, <1>13, <2>1 DEF HeardOf
<1> QED BY <1>1, <1>5, <1>9, <1>10, <1>12, <1>14, <1>21, <1>22, <1>23, <1>24, <1>25, CallStep, Zenon

(* A task goes on and leaves the netconns alone.                           *)
LEMMA PlainStep ==
  ASSUME NEW s, NEW w, SockInv(s, w), NEW t \in User, NEW c \in Conn, Private(s, w, t, c),
         w[t].pc # "await", NEW e, e \in NetRec, e.conn = s.conn, e.sock = s.sock,
         e.list = s.list, e.want = s.want, e.sig = s.sig,
         NEW u \in UserRec, NEW x, x = [w EXCEPT ![t] = u], MyCount(s, u, c),
         TaskMoves(s, e, w, t, u, c)
  PROVE  SockInv(e, x)
<1>1. s \in NetRec /\ s.conn[c] \in ConnRec /\ ConnSane(s.conn[c]) /\ Bounds(s.conn[c]) /\ Writable(s, c)
  BY ConnFacts DEF SockInv, Counts
<1>2. s.conn[c].msg = NoUser /\ s.conn[c].done = 0 /\ s.conn[c].state \in {"NONE", "LISTEN"}
  BY Quiet
<1>3. Handled(s, e, c)
  <2>1. \A f, v : Asks(e, v, f) <=> Asks(s, v, f)
    BY DEF Asks
  <2>2. SelKept(s, e)
    BY <2>1 DEF SelKept
  <2>3. LinkSame(s, e)
    BY DEF LinkSame
  <2> QED BY <2>2, <2>3 DEF Handled
<1>4. HeardOf(e, x, c)
  BY <1>2 DEF HeardOf
<1>5. MyCount(e, u, c) /\ Writable(e, c)
  BY <1>1, Zenon DEF MyCount, Writable, Raw
<1> QED BY <1>1, <1>3, <1>4, <1>5, CallStep, Zenon

(* The same, when the lists of select() and the answers stay, too.         *)
LEMMA MoveStep ==
  ASSUME NEW s, NEW w, SockInv(s, w), NEW t \in User, NEW c \in Conn, Private(s, w, t, c),
         w[t].pc # "await", NEW u \in UserRec, NEW x, x = [w EXCEPT ![t] = u], MyCount(s, u, c),
         TaskMoves(s, s, w, t, u, c)
  PROVE  SockInv(s, x)
<1>1. s \in NetRec
  BY DEF SockInv, Types
<1> QED BY <1>1, PlainStep, Zenon

(* A call returns: the task is idle again.                                 *)
LEMMA ReturnStep ==
  ASSUME NEW s, NEW w, SockInv(s, w), NEW t \in User, NEW c \in Conn, Private(s, w, t, c),
         w[t].pc \notin {"await", "free"}, w[t].op # "select", OnIt(s, w[t], {c}), ~Fetched(w[t]),
         ~Closing(w[t]), Brought(w[t]) = NoFd, w[t].new = NoFd
  PROVE  SockInv(PutAns(s, t, "ok"), [w EXCEPT ![t] = IdleUser])
<1> DEFINE e == PutAns(s, t, "ok")
<1>1. s \in NetRec /\ s.ans \in [User -> {"unset", "ok", "err", "fatal"}]
  BY NetFields DEF SockInv, Types
<1>2. OnlyAns(s, e, [s.ans EXCEPT ![t] = "ok"])
  BY <1>1, PutAnsFields, Zenon
<1> HIDE DEF e
<1>3. /\ e \in NetRec /\ e.conn = s.conn /\ e.sock = s.sock
      /\ e.list = s.list /\ e.want = s.want /\ e.sig = s.sig /\ e.moved = s.moved
      /\ \A v \in User : v # t => e.ans[v] = s.ans[v]
  BY <1>1, <1>2 DEF OnlyAns
<1>4. MyCount(s, IdleUser, c)
  <2>1. MyCount(s, w[t], c)
    BY CountMine, Zenon DEF SockInv, Counts, Links
  <2>2. Due(w[t], s.conn[c].socket) = 0 /\ Due(IdleUser, s.conn[c].socket) = 0
    BY IdleFacts DEF Due
  <2> QED BY <2>1, <2>2, Zenon DEF MyCount
<1>5. TaskMoves(s, e, w, t, IdleUser, c)
  <2>1. OnIt(s, IdleUser, {c})
    BY IdleFacts DEF OnIt
  <2>2. TaskOK(e, t, IdleUser)
    BY IdleFacts DEF TaskOK, Hears, Stage, SlotFresh, Engaged, Closing, Making
  <2>3. FdStep(s, w, t, IdleUser)
    BY IdleFacts DEF FdStep
  <2>4. IdleUser.op # "select" /\ IdleUser.op # "close" /\ IdleUser.pc # "look"
    BY IdleFacts
  <2> QED BY <1>3, <2>1, <2>2, <2>3, <2>4 DEF TaskMoves
<1>6. IdleUser \in UserRec
  BY IdleFacts
<1>7. SockInv(e, [w EXCEPT ![t] = IdleUser])
  BY <1>3, <1>4, <1>5, <1>6, PlainStep
<1> QED BY <1>7 DEF e

(* CallReturns *)
LEMMA ReturnsKeeps ==
  ASSUME SockInv(net, user), NEW t \in User, CallReturns(t)
  PROVE  SockInv(net', user')
<1> DEFINE u == user[t]
<1>1. u.pc = "back" /\ u.fn \in {"bind", "connect", "listen", "write", "send", "recved"} /\ Engaged(u)
  BY DEF CallReturns, Back, Engaged
<1>2. net' = PutAns(net, t, "ok") /\ user' = [user EXCEPT ![t] = IdleUser]
  BY DEF CallReturns, Return, Set, PutAns
<1>3. u.conn \in Conn /\ Private(net, user, t, u.conn)
  BY <1>1, PrivateEngaged
<1>4. OnIt(net, u, {u.conn}) /\ u.op # "select" /\ u.fn \in FnOf(u.op) /\ Shape(u)
  BY <1>1, EngagedFacts
<1>5. u.op \notin {"socket", "accept"}
  BY <1>1, <1>4 DEF FnOf
<1>6. ~Fetched(u) /\ ~Closing(u) /\ Brought(u) = NoFd /\ u.new = NoFd
  BY <1>1, <1>4, <1>5 DEF Fetched, Closing, Brought, Shape
<1> QED BY <1>1, <1>2, <1>3, <1>4, <1>6, ReturnStep, Zenon

(* NullRead *)
LEMMA NullReadKeeps ==
  ASSUME SockInv(net, user), NEW t \in User, NullRead(t)
  PROVE  SockInv(net', user')
<1> DEFINE u == user[t]
           c == u.conn
           q == [u EXCEPT !.pc = "event"]
<1>1. u.pc = "back" /\ u.fn = "recv" /\ Engaged(u)
  BY DEF NullRead, Back, Engaged
<1>2. net' = net /\ user' = [user EXCEPT ![t] = q]
  BY DEF NullRead, Set
<1>3. c \in Conn /\ Private(net, user, t, c)
  BY <1>1, PrivateEngaged
<1>4. /\ OnIt(net, u, {c}) /\ u.op # "select" /\ u.fn \in FnOf(u.op) /\ Shape(u) /\ u \in UserRec
      /\ Hears(net, t, u)
  BY <1>1, EngagedFacts
<1>5. u.op = "recv" /\ u.new = NoFd
  BY <1>1, <1>4 DEF FnOf, Shape
<1>6. Moved(u, q, "event")
  <2>1. "event" \in Pcs
    BY DEF Pcs
  <2> QED BY <1>4, <2>1, MoveFields
<1> HIDE DEF q
<1>7. /\ q \in UserRec /\ q.pc = "event" /\ q.fn = u.fn /\ q.conn = u.conn
      /\ q.op = u.op /\ q.fd = u.fd /\ q.new = u.new
  BY <1>6 DEF Moved
<1>8. MyCount(net, q, c)
  <2>1. MyCount(net, u, c)
    BY <1>3, CountMine DEF SockInv, Counts, Links
  <2>2. Fetched(u) /\ Fetched(q) /\ ~Closing(u) /\ ~Closing(q)
    BY <1>1, <1>5, <1>7 DEF Fetched, Closing, Engaged
  <2>3. Due(q, net.conn[c].socket) = Due(u, net.conn[c].socket)
    BY <1>7, <2>2 DEF Due
  <2> QED BY <2>1, <2>2, <2>3, Zenon DEF MyCount
<1>9. TaskMoves(net, net, user, t, q, c)
  <2>1. Shape(q)
    BY <1>1, <1>4, <1>5, <1>7 DEF Shape, Engaged, OnFd
  <2>2. TaskOK(net, t, q)
    BY <1>1, <1>5, <1>7, <2>1 DEF TaskOK, Hears, Stage, SlotFresh, Closing, Making, Engaged
  <2>3. net.sock[u.fd].conn = c
    BY <1>1, <1>4, <1>5 DEF Hears
  <2>4. OnIt(net, q, {c})
    BY <1>7, <2>3 DEF OnIt, Engaged
  <2>5. FdStep(net, user, t, q)
    BY <1>1, <1>7 DEF FdStep, Brought
  <2> QED BY <1>4, <1>5, <1>7, <2>2, <2>4, <2>5 DEF TaskMoves
<1> QED BY <1>1, <1>2, <1>3, <1>7, <1>8, <1>9, MoveStep, Zenon

(* recv() of t is between the parts of a read, on the netconn c.           *)
Copying(s, w, t, c) ==
  /\ w[t] \in UserRec /\ w[t].op = "recv" /\ w[t].fd \in Fd /\ w[t].new = NoFd
  /\ c \in Conn /\ s.conn[c].socket = w[t].fd /\ s.conn[c].used /\ Private(s, w, t, c)
  /\ ~Fetched(w[t]) /\ ~Engaged(w[t]) /\ ~Closing(w[t]) /\ Brought(w[t]) = NoFd
  /\ OnIt(s, w[t], {c}) /\ MyCount(s, w[t], c)

(* What the invariant says of recv() before it ends or asks for more.      *)
LEMMA CopyFacts ==
  ASSUME NEW s, NEW w, SockInv(s, w), NEW t \in User, w[t].pc = "copy",
         NEW c, c = s.sock[w[t].fd].conn
  PROVE  Copying(s, w, t, c)
<1>1. Shape(w[t]) /\ w[t] \in UserRec
  BY DEF SockInv, Shapes, Types
<1>2. w[t].op = "recv" /\ w[t].fd # NoFd /\ w[t].new = NoFd
  BY <1>1 DEF Shape, OnFd
<1>3. w[t].fd \in Fd /\ c \in Conn /\ s.conn[c].socket = w[t].fd /\ s.conn[c].used /\ Private(s, w, t, c)
  BY <1>2, PrivateCall
<1>4. ~Fetched(w[t]) /\ ~Engaged(w[t]) /\ ~Closing(w[t]) /\ Brought(w[t]) = NoFd
  BY <1>2 DEF Fetched, Engaged, Closing, Brought
<1>5. OnIt(s, w[t], {c})
  BY <1>4 DEF OnIt
<1>6. MyCount(s, w[t], c)
  BY <1>3, CountMine DEF SockInv, Counts, Links
<1> QED BY <1>1, <1>2, <1>3, <1>4, <1>5, <1>6 DEF Copying

(* netconn_recved and the end of recv().                                   *)
LEMMA EndRead ==
  ASSUME NEW s, NEW w, SockInv(s, w), NEW t \in User, w[t].pc = "copy",
         NEW c, c = s.sock[w[t].fd].conn
  PROVE  /\ SockInv(PutAns(s, t, "ok"), [w EXCEPT ![t] = IdleUser])
         /\ SockInv(Ack(PutAns(s, t, "unset"), c, t, "ok"),
                    [w EXCEPT ![t] = [w[t] EXCEPT !.pc = "await", !.fn = "recved", !.conn = c]])
<1> DEFINE u == w[t]
           n == s.conn[c]
           g == PutAns(s, t, "unset")
           e == Ack(g, c, t, "ok")
           q == [u EXCEPT !.pc = "await", !.fn = "recved", !.conn = c]
<1>1. /\ u \in UserRec /\ u.op = "recv" /\ u.fd \in Fd /\ u.new = NoFd
      /\ c \in Conn /\ n.socket = u.fd /\ n.used /\ Private(s, w, t, c)
      /\ ~Fetched(u) /\ ~Engaged(u) /\ ~Closing(u) /\ Brought(u) = NoFd
      /\ OnIt(s, u, {c}) /\ MyCount(s, u, c)
  <2>1. Copying(s, w, t, c)
    BY CopyFacts
  <2> QED BY <2>1 DEF Copying
<1>2. SockInv(PutAns(s, t, "ok"), [w EXCEPT ![t] = IdleUser])
  BY <1>1, ReturnStep
<1>3. s \in NetRec /\ n \in ConnRec /\ ConnSane(n) /\ Bounds(n) /\ Writable(s, c)
  BY <1>1, ConnFacts, Zenon DEF SockInv, Counts
<1>4. n.msg = NoUser /\ n.done = 0
  BY <1>1, Quiet, Zenon
<1>5. OnlyAns(s, g, [s.ans EXCEPT ![t] = "unset"]) /\ Touch(s, g, c) /\ SameCounts(s, g, c)
  BY <1>1, <1>3, PutAnsFields, PutAnsTouch, Zenon
<1> HIDE DEF g
<1>6. g \in NetRec /\ g.conn = s.conn /\ g.sock = s.sock /\ g.moved = s.moved
      /\ \A v \in User : v # t => g.ans[v] = s.ans[v]
  BY <1>3, <1>5, NetFields, Zenon DEF OnlyAns
<1>7. Handled(s, g, c)
  BY <1>1, <1>3, <1>5, <1>6, TouchHandled, Zenon
<1>8. "ok" \in Results
  BY DEF Results
<1>9. Acked(g, e, c, t, "ok")
  BY <1>1, <1>6, <1>8, AckFields
<1> HIDE DEF e
<1>10. Posted(u, q, "recved", c)
  <2>1. "recved" \in Fns
    BY DEF Fns
  <2> QED BY <1>1, <2>1, PostFields, Zenon
<1> HIDE DEF q
<1>11. /\ q \in UserRec /\ q.pc = "await" /\ q.fn = "recved" /\ q.conn = c
       /\ q.op = "recv" /\ q.fd = u.fd /\ q.new = NoFd
  BY <1>1, <1>10 DEF Posted
<1>12. Shape(q)
  <2>1. u.fd # NoFd /\ c # NoFd
    BY <1>1, NoFdIsNone
  <2> QED BY <1>11, <2>1 DEF Shape, Engaged, OnFd, FnOf
<1>13. MyCount(g, q, c)
  <2>1. ~Fetched(q) /\ ~Closing(q)
    BY <1>11 DEF Fetched, Closing
  <2>2. Due(q, n.socket) = 0 /\ Due(u, n.socket) = 0
    BY <1>1, <2>1 DEF Due
  <2>3. Raw(g, c) = Raw(s, c)
    BY <1>5, Zenon DEF SameCounts
  <2> QED BY <1>1, <1>6, <2>1, <2>2, <2>3, Zenon DEF MyCount
<1>14. FdStep(s, w, t, q)
  BY <1>1, <1>11 DEF FdStep, Brought
<1>15. Writable(g, c)
  BY <1>3, <1>6, Zenon DEF Writable
<1>16. SockInv(e, [w EXCEPT ![t] = q])
  BY <1>1, <1>3, <1>4, <1>6, <1>7, <1>8, <1>9, <1>11, <1>12, <1>13, <1>14, <1>15, AskStep, Zenon
<1> QED BY <1>2, <1>16 DEF e, g, q

(* netconn_recv_data waits for the mailbox.                                *)
LEMMA MoreRead ==
  ASSUME NEW s, NEW w, SockInv(s, w), NEW t \in User, w[t].pc = "copy",
         NEW c, c = s.sock[w[t].fd].conn, Fetching(s.conn[c], w[t])
  PROVE  SockInv(s, [w EXCEPT ![t] = [w[t] EXCEPT !.pc = "fetch"]])
<1>0. /\ w[t] \in UserRec /\ w[t].op = "recv" /\ w[t].fd \in Fd /\ w[t].new = NoFd
      /\ c \in Conn /\ s.conn[c].socket = w[t].fd /\ s.conn[c].used /\ Private(s, w, t, c)
      /\ ~Fetched(w[t]) /\ ~Engaged(w[t]) /\ ~Closing(w[t]) /\ Brought(w[t]) = NoFd
      /\ OnIt(s, w[t], {c}) /\ MyCount(s, w[t], c)
  <2>1. Copying(s, w, t, c)
    BY CopyFacts
  <2> QED BY <2>1, Zenon DEF Copying
<1> DEFINE u == w[t]
           q == [u EXCEPT !.pc = "fetch"]
<1>1. /\ u \in UserRec /\ u.op = "recv" /\ u.fd \in Fd /\ u.new = NoFd
      /\ c \in Conn /\ s.conn[c].socket = u.fd /\ s.conn[c].used /\ Private(s, w, t, c)
      /\ ~Fetched(u) /\ ~Engaged(u) /\ ~Closing(u) /\ Brought(u) = NoFd
      /\ OnIt(s, u, {c}) /\ MyCount(s, u, c)
  BY <1>0, Zenon
<1>2. Moved(u, q, "fetch")
  <2>1. "fetch" \in Pcs
    BY DEF Pcs
  <2> QED BY <1>1, <2>1, MoveFields, Zenon
<1> HIDE DEF q
<1>3. /\ q \in UserRec /\ q.pc = "fetch" /\ q.fn = u.fn /\ q.conn = u.conn
      /\ q.op = u.op /\ q.fd = u.fd /\ q.new = u.new /\ q.off = u.off
  BY <1>2 DEF Moved
<1>4. ~Fetched(q) /\ ~Closing(q) /\ ~Engaged(q) /\ ~Making(q)
  BY <1>3 DEF Fetched, Closing, Engaged, Making
<1>5. MyCount(s, q, c)
  <2>1. Due(q, s.conn[c].socket) = 0 /\ Due(u, s.conn[c].socket) = 0
    BY <1>1, <1>4, Zenon DEF Due
  <2> QED BY <1>1, <1>4, <2>1, Zenon DEF MyCount
<1>6. TaskMoves(s, s, w, t, q, c)
  <2>1. Shape(q)
    <3>1. u.fd # NoFd
      BY <1>1, NoFdIsNone, Zenon
    <3> QED BY <1>1, <1>3, <1>4, <3>1, Zenon DEF Shape, OnFd
  <2>2. Fetching(s.conn[c], q)
    BY <1>3 DEF Fetching
  <2>3. Hears(s, t, q) /\ Stage(s, t, q) /\ SlotFresh(s, q)
    BY <1>1, <1>3, <1>4, <2>2, Zenon DEF Hears, Stage, SlotFresh
  <2>4. FdStep(s, w, t, q)
    BY <1>1, <1>3, Zenon DEF FdStep, Brought
  <2>5. OnIt(s, q, {c})
    BY <1>4 DEF OnIt
  <2> QED BY <1>1, <1>3, <2>1, <2>3, <2>4, <2>5, Zenon DEF TaskMoves, TaskOK
<1>7. SockInv(s, [w EXCEPT ![t] = q])
  BY <1>1, <1>3, <1>5, <1>6, MoveStep, Zenon
<1> QED BY <1>7 DEF q

(* From here recv() of task t, at v, may end, be told to the stack, or     *)
(* wait for the mailbox.                                                   *)
ReadOK(s, w, t, v, c) ==
  /\ SockInv(PutAns(s, t, "ok"), [w EXCEPT ![t] = IdleUser])
  /\ SockInv(Ack(PutAns(s, t, "unset"), c, t, "ok"),
             [w EXCEPT ![t] = [v EXCEPT !.pc = "await", !.fn = "recved", !.conn = c]])
  /\ Fetching(s.conn[c], v) => SockInv(s, [w EXCEPT ![t] = [v EXCEPT !.pc = "fetch"]])

(* Where recv() was before does not matter.                                *)
LEMMA ReadsOn ==
  ASSUME NEW s, NEW w \in [User -> UserRec], NEW t \in User, NEW v \in UserRec,
         SockInv(s, [w EXCEPT ![t] = [v EXCEPT !.pc = "copy"]]), NEW c, c = s.sock[v.fd].conn
  PROVE  ReadOK(s, w, t, v, c)
<1> DEFINE k == [v EXCEPT !.pc = "copy"]
           x == [w EXCEPT ![t] = k]
<1>0. Moved(v, k, "copy")
  <2>1. "copy" \in Pcs
    BY DEF Pcs
  <2> QED BY <2>1, MoveFields
<1>1. /\ [k EXCEPT !.pc = "await", !.fn = "recved", !.conn = c]
           = [v EXCEPT !.pc = "await", !.fn = "recved", !.conn = c]
      /\ [k EXCEPT !.pc = "fetch"] = [v EXCEPT !.pc = "fetch"]
  BY Zenon DEF UserRec
<1> HIDE DEF k
<1>2. k.pc = "copy" /\ k.fd = v.fd /\ k.off = v.off
  BY <1>0 DEF Moved
<1>3. x[t] = k /\ \A y : [x EXCEPT ![t] = y] = [w EXCEPT ![t] = y]
  BY Zenon
<1>4. SockInv(s, x)
  BY DEF k
<1> HIDE DEF x
<1>5. x[t].pc = "copy" /\ c = s.sock[x[t].fd].conn
  BY <1>2, <1>3
<1>6. /\ SockInv(PutAns(s, t, "ok"), [x EXCEPT ![t] = IdleUser])
      /\ SockInv(Ack(PutAns(s, t, "unset"), c, t, "ok"),
                 [x EXCEPT ![t] = [x[t] EXCEPT !.pc = "await", !.fn = "recved", !.conn = c]])
  BY <1>4, <1>5, EndRead, Zenon
<1>7. ASSUME Fetching(s.conn[c], v)
      PROVE  SockInv(s, [x EXCEPT ![t] = [x[t] EXCEPT !.pc = "fetch"]])
  <2>1. Fetching(s.conn[c], x[t])
    BY <1>2, <1>3, <1>7 DEF Fetching
  <2> QED BY <1>4, <1>5, <2>1, MoreRead, Zenon
<1> QED BY <1>1, <1>3, <1>6, <1>7, Zenon DEF ReadOK

(* ReadEnds *)
LEMMA ReadEndsKeeps ==
  ASSUME NEW t \in User, NEW s, NEW v, NEW some, ReadEnds(t, s, v, some),
         ReadOK(s, user, t, v, ConnOf(v.fd))
  PROVE  SockInv(net', user')
<1> DEFINE c == ConnOf(v.fd)
<1>1. \/ /\ net' = Ack(PutAns(s, t, "unset"), c, t, "ok")
         /\ user' = [user EXCEPT ![t] = [v EXCEPT !.pc = "await", !.fn = "recved", !.conn = c]]
      \/ net' = PutAns(s, t, "ok") /\ user' = [user EXCEPT ![t] = IdleUser]
  BY DEF ReadEnds, Return, tcpip_apimsg, do_recv, Set, PutAns
<1> QED BY <1>1, Zenon DEF ReadOK

(* ReadMore *)
LEMMA ReadMoreKeeps ==
  ASSUME NEW t \in User, NEW s, NEW v, ReadMore(t, s, v), ReadOK(s, user, t, v, ConnOf(v.fd)),
         s.conn[ConnOf(v.fd)].recvOk /\ v.off /\ ~s.conn[ConnOf(v.fd)].fatal
           => s.conn[ConnOf(v.fd)].recvmbox # <<>>
  PROVE  SockInv(net', user')
<1> DEFINE n == s.conn[ConnOf(v.fd)]
<1>1. CASE ~n.recvOk \/ n.fatal
  <2>1. ReadEnds(t, s, v, v.off)
    BY <1>1 DEF ReadMore
  <2> QED BY <2>1, ReadEndsKeeps
<1>2. CASE ~(~n.recvOk \/ n.fatal)
  <2>1. net' = s /\ user' = [user EXCEPT ![t] = [v EXCEPT !.pc = "fetch"]]
    BY <1>2 DEF ReadMore, Set
  <2>2. Fetching(n, v)
    BY <1>2 DEF Fetching
  <2> QED BY <2>1, <2>2, Zenon DEF ReadOK
<1> QED BY <1>1, <1>2

(* accept() and recv() begin without a message.                            *)
LEMMA BeginMove ==
  ASSUME NEW s, NEW w, SockInv(s, w), NEW t \in User, NEW fd, NEW c, Begun(s, w, t, fd, c),
         NEW op, NEW pc, (op = "accept" /\ pc = "fetch") \/ (op = "recv" /\ pc = "copy")
  PROVE  SockInv(s, [w EXCEPT ![t] = [Call(fd, op) EXCEPT !.pc = pc]])
<1> DEFINE n == s.conn[c]
           v == Call(fd, op)
           u == [v EXCEPT !.pc = pc]
<1>0. /\ c \in Conn /\ fd \in Fd /\ s.sock[fd].conn = c
      /\ w[t] = IdleUser /\ n.used /\ Private(s, w, t, c) /\ n.socket = fd
      /\ \A z \in User : z # t => w[z].fd # fd
  BY DEF Begun
<1>1. Calls(v, fd, op)
  <2>1. op \in CallOps /\ fd \in Fd \cup {NoFd}
    BY <1>0 DEF CallOps, OnFd
  <2> QED BY <2>1, CallFields
<1> HIDE DEF v
<1>2. Moved(v, u, pc)
  <2>1. pc \in Pcs /\ v \in UserRec
    BY <1>1 DEF Pcs, Calls
  <2> QED BY <2>1, MoveFields
<1> HIDE DEF u
<1>3. u \in UserRec /\ u.pc = pc /\ u.op = op /\ u.fd = fd /\ u.new = NoFd /\ u.conn = NoFd
  BY <1>1, <1>2 DEF Moved, Calls
<1>4. ~Fetched(u) /\ ~Engaged(u) /\ ~Closing(u) /\ ~Making(u) /\ Brought(u) = NoFd
  BY <1>3 DEF Fetched, Engaged, Closing, Making, Brought
<1>5. fd # NoFd /\ c # NoFd /\ pc # "free"
  BY <1>0, NoFdIsNone
<1>6. Shape(u)
  BY <1>3, <1>4, <1>5 DEF Shape, OnFd
<1>7. MyCount(s, u, c)
  <2>1. MyCount(s, w[t], c)
    BY <1>0, CountMine, Zenon DEF SockInv, Counts, Links
  <2>2. Due(u, n.socket) = 0 /\ Due(w[t], n.socket) = 0
    BY <1>0, <1>4, IdleFacts DEF Due
  <2>3. ~Closing(w[t])
    BY <1>0, IdleFacts DEF Closing
  <2> QED BY <1>4, <2>1, <2>2, <2>3, Zenon DEF MyCount
<1>8. TaskMoves(s, s, w, t, u, c)
  <2>1. OnIt(s, w[t], {c}) /\ OnIt(s, u, {c}) /\ w[t].op # "select"
    BY <1>0, <1>4, IdleFacts DEF OnIt
  <2>2. Hears(s, t, u) /\ Stage(s, t, u) /\ SlotFresh(s, u)
    BY <1>3, <1>4 DEF Hears, Stage, SlotFresh, Engaged
  <2>3. Holds(s, u)
    BY <1>0, <1>3, <1>5 DEF Holds
  <2>4. FdStep(s, w, t, u)
    BY <1>0, <1>3, <1>4, <2>3, IdleFacts DEF FdStep
  <2> QED BY <1>3, <1>6, <2>1, <2>2, <2>4 DEF TaskMoves, TaskOK
<1>9. w[t].pc # "await"
  BY <1>0, IdleFacts
<1>10. SockInv(s, [w EXCEPT ![t] = u])
  BY <1>0, <1>3, <1>7, <1>8, <1>9, MoveStep
<1> QED BY <1>10 DEF u, v

(* lwip_accept *)
LEMMA AcceptKeeps ==
  ASSUME SockInv(net, user), Shared = FALSE, NEW t \in User, lwip_accept(t)
  PROVE  SockInv(net', user')
<1>1. PICK fd \in Fd :
        /\ MayCall(t, fd, "accept")
        /\ net' = net /\ user' = [user EXCEPT ![t] = [Call(fd, "accept") EXCEPT !.pc = "fetch"]]
  BY Zenon DEF lwip_accept, Set
<1>2. Begun(net, user, t, fd, ConnOf(fd))
  BY <1>1, Begins, Zenon
<1>3. SockInv(net, [user EXCEPT ![t] = [Call(fd, "accept") EXCEPT !.pc = "fetch"]])
  BY <1>2, BeginMove
<1> QED BY <1>1, <1>3

(* lwip_recvfrom *)
LEMMA RecvKeeps ==
  ASSUME SockInv(net, user), Shared = FALSE, NEW t \in User, lwip_recvfrom(t)
  PROVE  SockInv(net', user')
<1>1. PICK fd \in Fd :
        /\ MayCall(t, fd, "recv")
        /\ IF net.sock[fd].last
           THEN net' = net /\ Set(t, [Call(fd, "recv") EXCEPT !.pc = "copy"])
           ELSE ReadMore(t, net, Call(fd, "recv"))
  BY DEF lwip_recvfrom
<1> DEFINE v == Call(fd, "recv")
<1>2. Begun(net, user, t, fd, ConnOf(fd))
  BY <1>1, Begins, Zenon
<1>3. SockInv(net, [user EXCEPT ![t] = [v EXCEPT !.pc = "copy"]])
  BY <1>2, BeginMove
<1>4. CASE net.sock[fd].last
  <2>1. net' = net /\ user' = [user EXCEPT ![t] = [v EXCEPT !.pc = "copy"]]
    BY <1>1, <1>4 DEF Set
  <2> QED BY <1>3, <2>1
<1>5. CASE ~net.sock[fd].last
  <2>1. ReadMore(t, net, v)
    BY <1>1, <1>5
  <2>2. Calls(v, fd, "recv")
    <3>1. "recv" \in CallOps /\ fd \in Fd \cup {NoFd}
      BY DEF CallOps, OnFd
    <3> QED BY <3>1, CallFields
  <2> HIDE DEF v
  <2>3. v \in UserRec /\ v.fd = fd /\ v.off = FALSE
    BY <2>2 DEF Calls
  <2>4. user \in [User -> UserRec]
    BY DEF SockInv, Types
  <2>5. ReadOK(net, user, t, v, ConnOf(v.fd))
    BY <1>3, <2>3, <2>4, ReadsOn, Zenon DEF ConnOf
  <2> QED BY <2>1, <2>3, <2>5, ReadMoreKeeps
<1> QED BY <1>4, <1>5

(* Descriptor fd with data that recv() has not copied yet, or without.     *)
PutLast(s, fd, b) == [s EXCEPT !.sock[fd].last = b]

(* From s to e only that changes.                                          *)
OnlyLast(s, e, fd) ==
  /\ e \in NetRec /\ e.conn = s.conn /\ e.list = s.list /\ e.moved = s.moved
  /\ e.want = s.want /\ e.sig = s.sig /\ e.ans = s.ans
  /\ e.sock[fd].conn = s.sock[fd].conn /\ e.sock[fd].rcvevent = s.sock[fd].rcvevent
  /\ e.sock[fd].sendevent = s.sock[fd].sendevent /\ e.sock[fd].waiting = s.sock[fd].waiting
  /\ \A f \in Fd : f # fd => e.sock[f] = s.sock[f]

(* lastdata of a descriptor.                                               *)
LEMMA LastFields ==
  ASSUME NEW s \in NetRec, NEW fd \in Fd, NEW b \in BOOLEAN
  PROVE  OnlyLast(s, PutLast(s, fd, b), fd)
<1> DEFINE k == [s.sock[fd] EXCEPT !.last = b]
           e == [s EXCEPT !.sock[fd] = k]
<1>1. s.sock[fd] \in SockRec
  BY NetFields
<1>2. /\ k \in SockRec /\ k.conn = s.sock[fd].conn /\ k.rcvevent = s.sock[fd].rcvevent
      /\ k.sendevent = s.sock[fd].sendevent /\ k.waiting = s.sock[fd].waiting
  BY <1>1 DEF SockRec
<1>3. PutLast(s, fd, b) = e
  BY Zenon DEF PutLast, NetRec
<1> HIDE DEF k
<1>4. e \in NetRec
  BY <1>2, Zenon DEF NetRec
<1>5. /\ e.conn = s.conn /\ e.list = s.list /\ e.moved = s.moved
      /\ e.want = s.want /\ e.sig = s.sig /\ e.ans = s.ans
      /\ e.sock[fd] = k /\ \A f \in Fd : f # fd => e.sock[f] = s.sock[f]
  BY DEF NetRec
<1> HIDE DEF e
<1> QED BY <1>2, <1>3, <1>4, <1>5 DEF OnlyLast

(* recv() takes lastdata, or leaves it there.                              *)
LEMMA LastStep ==
  ASSUME NEW s, NEW w, SockInv(s, w), NEW t \in User, w[t].pc = "copy", NEW b \in BOOLEAN
  PROVE  SockInv(PutLast(s, w[t].fd, b), w)
<1> DEFINE u == w[t]
           fd == u.fd
           c == s.sock[fd].conn
           e == PutLast(s, fd, b)
<1>1. /\ u \in UserRec /\ u.op = "recv" /\ fd \in Fd /\ u.new = NoFd
      /\ c \in Conn /\ s.conn[c].socket = fd /\ s.conn[c].used /\ Private(s, w, t, c)
      /\ ~Fetched(u) /\ ~Engaged(u) /\ ~Closing(u) /\ Brought(u) = NoFd
      /\ OnIt(s, u, {c}) /\ MyCount(s, u, c)
  <2>1. Copying(s, w, t, c)
    BY CopyFacts
  <2> QED BY <2>1 DEF Copying
<1>2. s \in NetRec /\ ConnSane(s.conn[c]) /\ Bounds(s.conn[c]) /\ w \in [User -> UserRec] /\ Shape(u)
  BY <1>1, ConnFacts DEF SockInv, Types, Shapes
<1>3. OnlyLast(s, e, fd)
  BY <1>1, <1>2, LastFields, Zenon
<1> HIDE DEF e
<1>4. \A f \in Fd : /\ e.sock[f].conn = s.sock[f].conn /\ e.sock[f].waiting = s.sock[f].waiting
                    /\ e.sock[f].rcvevent = s.sock[f].rcvevent
                    /\ e.sock[f].sendevent = s.sock[f].sendevent
  BY <1>1, <1>3 DEF OnlyLast
<1>5. Handled(s, e, c)
  <2>1. \A f \in Fd : \A v : Asks(e, v, f) <=> Asks(s, v, f)
    BY <1>3, <1>4 DEF Asks, OnlyLast
  <2>2. SelKept(s, e)
    BY <1>3, <1>4, <2>1 DEF SelKept, OnlyLast
  <2>3. LinkSame(s, e)
    BY <1>3, <1>4 DEF LinkSame, OnlyLast
  <2> QED BY <1>1, <1>3, <2>2, <2>3 DEF Handled, OnlyLast
<1>6. e.conn = s.conn /\ e.ans = s.ans /\ e.moved = s.moved
  BY <1>3 DEF OnlyLast
<1>7. s.conn[c].msg = NoUser /\ s.conn[c].done = 0 /\ s.conn[c].state \in {"NONE", "LISTEN"}
  BY <1>1, Quiet, Zenon
<1>8. HeardOf(e, w, c)
  BY <1>6, <1>7 DEF HeardOf
<1>9. MyCount(e, u, c) /\ Writable(e, c)
  <2>1. Raw(e, c) = Raw(s, c)
    <3>1. s.conn[c].socket = fd /\ fd \in Fd /\ e.conn = s.conn
      BY <1>1, <1>6
    <3>2. e.sock[fd].rcvevent = s.sock[fd].rcvevent
      BY <1>4, <3>1
    <3> QED BY ONLY <3>1, <3>2 DEF Raw
  <2>2. Writable(s, c)
    BY <1>1 DEF SockInv, Counts
  <2>3. MyCount(e, u, c)
    BY <1>1, <1>6, <2>1, Zenon DEF MyCount
  <2>4. e.sock[s.conn[c].socket].sendevent = s.sock[s.conn[c].socket].sendevent
    BY <1>1, <1>4, Zenon
  <2>5. Writable(e, c)
    BY <1>6, <2>2, <2>4, Zenon DEF Writable
  <2> QED BY <2>3, <2>5
<1>10. TaskMoves(s, e, w, t, u, c)
  <2>1. Hears(e, t, u) /\ Stage(e, t, u) /\ SlotFresh(e, u)
    BY <1>1 DEF Hears, Stage, SlotFresh, Engaged, Making, Closing
  <2>2. FdStep(s, w, t, u)
    BY DEF FdStep
  <2> QED BY <1>1, <1>2, <1>6, <2>1, <2>2, Zenon DEF TaskMoves, TaskOK
<1>11. w = [w EXCEPT ![t] = u]
  BY <1>2
<1>12. SockInv(e, w)
  BY <1>1, <1>2, <1>5, <1>6, <1>8, <1>9, <1>10, <1>11, CallStep, Zenon
<1> QED BY <1>12 DEF e

(* recv() has copied some data.                                            *)
LEMMA OffStep ==
  ASSUME NEW s, NEW w, SockInv(s, w), NEW t \in User, w[t].pc = "copy"
  PROVE  SockInv(s, [w EXCEPT ![t] = [w[t] EXCEPT !.off = TRUE]])
<1> DEFINE u == w[t]
           c == s.sock[u.fd].conn
           q == [u EXCEPT !.off = TRUE]
<1>1. /\ u \in UserRec /\ u.op = "recv" /\ u.fd \in Fd /\ u.new = NoFd
      /\ c \in Conn /\ s.conn[c].socket = u.fd /\ s.conn[c].used /\ Private(s, w, t, c)
      /\ ~Fetched(u) /\ ~Engaged(u) /\ ~Closing(u) /\ Brought(u) = NoFd
      /\ OnIt(s, u, {c}) /\ MyCount(s, u, c)
  <2>1. Copying(s, w, t, c)
    BY CopyFacts
  <2> QED BY <2>1 DEF Copying
<1>2. q \in UserRec
  BY <1>1, Zenon DEF UserRec
<1>3. q.pc = "copy" /\ q.fd = u.fd /\ q.op = u.op /\ q.new = u.new /\ q.conn = u.conn
  BY <1>1 DEF UserRec
<1> HIDE DEF q
<1>4. ~Fetched(q) /\ ~Engaged(q) /\ ~Closing(q) /\ ~Making(q) /\ Brought(q) = NoFd
  BY <1>1, <1>3 DEF Fetched, Engaged, Closing, Making, Brought
<1>5. MyCount(s, q, c)
  <2>1. Due(q, s.conn[c].socket) = 0 /\ Due(u, s.conn[c].socket) = 0
    BY <1>1, <1>4 DEF Due
  <2> QED BY <1>1, <1>4, <2>1, Zenon DEF MyCount
<1>6. TaskMoves(s, s, w, t, q, c)
  <2>1. Shape(q)
    <3>1. u.fd # NoFd
      BY <1>1, NoFdIsNone
    <3> QED BY <1>1, <1>3, <1>4, <3>1 DEF Shape, OnFd
  <2>2. Hears(s, t, q) /\ Stage(s, t, q) /\ SlotFresh(s, q)
    BY <1>1, <1>3, <1>4 DEF Hears, Stage, SlotFresh
  <2>3. FdStep(s, w, t, q)
    BY <1>1, <1>3, <1>4 DEF FdStep
  <2>4. OnIt(s, q, {c})
    BY <1>4 DEF OnIt
  <2> QED BY <1>1, <1>3, <2>1, <2>2, <2>3, <2>4, Zenon DEF TaskMoves, TaskOK
<1>7. SockInv(s, [w EXCEPT ![t] = q])
  BY <1>1, <1>2, <1>5, <1>6, MoveStep, Zenon
<1> QED BY <1>7 DEF q

(* Copy *)
LEMMA CopyKeeps ==
  ASSUME SockInv(net, user), NEW t \in User, Copy(t)
  PROVE  SockInv(net', user')
<1> DEFINE u == user[t]
           fd == u.fd
           c == ConnOf(fd)
           g == PutLast(net, fd, FALSE)
           v == [u EXCEPT !.off = TRUE]
<1>0. u.pc = "copy" /\ c = net.sock[u.fd].conn
  BY DEF Copy, ConnOf
<1>1. /\ u \in UserRec /\ u.op = "recv" /\ fd \in Fd /\ u.new = NoFd
      /\ c \in Conn /\ net.conn[c].socket = fd /\ net.conn[c].used /\ Private(net, user, t, c)
      /\ ~Fetched(u) /\ ~Engaged(u) /\ ~Closing(u) /\ Brought(u) = NoFd
      /\ OnIt(net, u, {c}) /\ MyCount(net, u, c)
  <2>1. Copying(net, user, t, c)
    BY <1>0, CopyFacts
  <2> QED BY <2>1 DEF Copying
<1>2. net \in NetRec /\ user \in [User -> UserRec]
  BY DEF SockInv, Types
<1>3. SockInv(g, user)
  BY <1>0, LastStep, Zenon
<1>4. OnlyLast(net, g, fd)
  BY <1>1, <1>2, LastFields, Zenon
<1>5. \/ ReadEnds(t, net, u, TRUE) \/ ReadEnds(t, g, u, TRUE)
      \/ net.conn[c].type = "tcp" /\ net.sock[fd].rcvevent > 0 /\ ReadMore(t, g, v)
  BY Zenon DEF Copy, PutLast
<1> HIDE DEF g
<1>6. g.conn = net.conn /\ g.sock[fd].conn = c
  BY <1>0, <1>4 DEF OnlyLast
<1>7. /\ [user EXCEPT ![t] = [u EXCEPT !.pc = "copy"]] = user
      /\ [v EXCEPT !.pc = "copy"] = v
  <2>1. [u EXCEPT !.pc = "copy"] = u
    BY <1>0, <1>1, Zenon DEF UserRec
  <2>2. [v EXCEPT !.pc = "copy"] = v
    BY <1>0, <1>1, Zenon DEF UserRec
  <2>3. [user EXCEPT ![t] = u] = user
    BY <1>2
  <2> QED BY <2>1, <2>2, <2>3
<1>8. CASE ReadEnds(t, net, u, TRUE)
  <2>1. SockInv(net, [user EXCEPT ![t] = [u EXCEPT !.pc = "copy"]])
    BY <1>7
  <2>2. ReadOK(net, user, t, u, c)
    BY <1>0, <1>1, <1>2, <2>1, ReadsOn, Zenon
  <2> QED BY <1>8, <2>2, ReadEndsKeeps, Zenon
<1>9. CASE ReadEnds(t, g, u, TRUE)
  <2>1. SockInv(g, [user EXCEPT ![t] = [u EXCEPT !.pc = "copy"]])
    BY <1>3, <1>7
  <2>2. ReadOK(g, user, t, u, c)
    BY <1>1, <1>2, <1>6, <2>1, ReadsOn, Zenon
  <2> QED BY <1>9, <2>2, ReadEndsKeeps, Zenon
<1>10. CASE net.sock[fd].rcvevent > 0 /\ ReadMore(t, g, v)
  <2>1. SockInv(g, [user EXCEPT ![t] = v])
    BY <1>0, <1>3, OffStep
  <2>2. v \in UserRec /\ v.fd = fd
    BY <1>1, Zenon DEF UserRec
  <2>3. SockInv(g, [user EXCEPT ![t] = [v EXCEPT !.pc = "copy"]])
    BY <1>7, <2>1, Zenon
  <2> HIDE DEF v
  <2>4. ReadOK(g, user, t, v, c)
    BY <1>2, <1>6, <2>2, <2>3, ReadsOn, Zenon
  <2>5. g.conn[c].recvOk /\ ~g.conn[c].fatal => g.conn[c].recvmbox # <<>>
    <3> SUFFICES ASSUME net.conn[c].recvOk, ~net.conn[c].fatal PROVE net.conn[c].recvmbox # <<>>
      BY <1>6
    <3> DEFINE n == net.conn[c]
    <3>1. ConnSane(n) /\ n \in ConnRec
      BY <1>1, ConnFacts
    <3>2. n.acceptmbox = <<>>
      BY <3>1 DEF ConnSane
    <3>3. Due(u, n.socket) = 0
      BY <1>1 DEF Due
    <3>4. Raw(net, c) = net.sock[fd].rcvevent
      BY <1>1, FdFacts DEF Raw
    <3>5. Raw(net, c) - 0 = Len(n.recvmbox) + Len(n.acceptmbox)
      BY <1>1, <3>3, Zenon DEF MyCount
    <3>6. net.sock[fd].rcvevent \in Int
      BY <1>1, <1>2, NetFields, SockFields
    <3>7. Len(n.acceptmbox) = 0
      BY <3>2
    <3>8. n.recvmbox = <<>> => Len(n.recvmbox) = 0
      OBVIOUS
    <3> QED BY <1>10, <3>4, <3>5, <3>6, <3>7, <3>8
  <2> QED BY <1>10, <2>2, <2>4, <2>5, ReadMoreKeeps
<1> QED BY <1>5, <1>8, <1>9, <1>10, Zenon

(* The mailbox of netconn n without its first entry.                       *)
LEMMA TakenFrom ==
  ASSUME NEW n \in ConnRec, ConnSane(n), Bounds(n), n.recvmbox # <<>>
  PROVE  LET m == [n EXCEPT !.recvmbox = Tail(n.recvmbox)]
         IN  /\ m \in ConnRec /\ ConnSane(m) /\ Bounds(m)
             /\ m.used = n.used /\ m.type = n.type /\ m.fatal = n.fatal /\ m.socket = n.socket
             /\ m.recvOk = n.recvOk /\ m.done = n.done /\ m.snd = n.snd
             /\ m.acceptOk = n.acceptOk /\ m.acceptmbox = n.acceptmbox
             /\ m.state = n.state /\ m.msg = n.msg /\ m.pcb = n.pcb
             /\ Len(m.recvmbox) = Len(n.recvmbox) - 1
             /\ Head(n.recvmbox) \in {"data", "null"}
<1> DEFINE m == [n EXCEPT !.recvmbox = Tail(n.recvmbox)]
<1>1. n.recvmbox \in Seq({"data", "null"}) /\ Len(n.recvmbox) \in Nat
  BY ConnFields
<1>2. /\ Tail(n.recvmbox) \in Seq({"data", "null"}) /\ Head(n.recvmbox) \in {"data", "null"}
      /\ Len(Tail(n.recvmbox)) = Len(n.recvmbox) - 1
  BY <1>1, HeadTailProperties
<1>3. m \in ConnRec
  BY <1>2, Zenon DEF ConnRec
<1>4. /\ m.used = n.used /\ m.type = n.type /\ m.fatal = n.fatal /\ m.socket = n.socket
      /\ m.recvOk = n.recvOk /\ m.done = n.done /\ m.snd = n.snd
      /\ m.acceptOk = n.acceptOk /\ m.acceptmbox = n.acceptmbox
      /\ m.state = n.state /\ m.msg = n.msg /\ m.pcb = n.pcb /\ m.recvmbox = Tail(n.recvmbox)
  BY DEF ConnRec
<1>5. n.used
  <2>1. FreeConn.recvmbox = <<>>
    BY DEF FreeConn, netconn_alloc
  <2> QED BY <2>1 DEF ConnSane
<1> HIDE DEF m
<1>6. ConnSane(m)
  BY <1>4, <1>5 DEF ConnSane
<1>7. RecvMbox \in Nat /\ Len(n.recvmbox) <= RecvMbox
  BY SocketAssumption DEF Bounds
<1>8. Len(m.recvmbox) <= RecvMbox
  BY <1>1, <1>2, <1>4, <1>7
<1>9. Bounds(m)
  BY <1>4, <1>8 DEF Bounds
<1> QED BY <1>2, <1>3, <1>4, <1>6, <1>9 DEF m

(* FetchData *)
LEMMA FetchDataKeeps ==
  ASSUME SockInv(net, user), NEW t \in User, FetchData(t)
  PROVE  SockInv(net', user')
<1> DEFINE u == user[t]
           c == ConnOf(u.fd)
           n == net.conn[c]
           p == Head(n.recvmbox)
           m == [n EXCEPT !.recvmbox = Tail(n.recvmbox)]
           b == PutConn(net, c, m)
           v == [u EXCEPT !.got = p]
<1>0. u.pc = "fetch" /\ u.op = "recv" /\ n.recvmbox # <<>>
  BY DEF FetchData
<1>1. Shape(u) /\ u \in UserRec /\ net \in NetRec
  BY DEF SockInv, Shapes, Types
<1>2. u.fd # NoFd /\ u.new = NoFd /\ ~Fetched(u) /\ ~Engaged(u) /\ ~Closing(u) /\ Brought(u) = NoFd
  BY <1>0, <1>1 DEF Shape, OnFd, Fetched, Engaged, Closing, Brought
<1>3. u.fd \in Fd /\ c \in Conn /\ n.socket = u.fd /\ n.used /\ Private(net, user, t, c)
      /\ net.sock[u.fd].conn = c /\ c # NoFd
  <2>1. u.pc # "free"
    BY <1>0
  <2>2. /\ u.fd \in Fd /\ net.sock[u.fd].conn \in Conn
        /\ net.conn[net.sock[u.fd].conn].socket = u.fd /\ net.conn[net.sock[u.fd].conn].used
        /\ Private(net, user, t, net.sock[u.fd].conn)
    BY <1>2, <2>1, PrivateCall
  <2>3. c = net.sock[u.fd].conn
    BY DEF ConnOf
  <2> HIDE DEF c
  <2> QED BY <2>2, <2>3, NoFdIsNone
<1>4. n \in ConnRec /\ ConnSane(n) /\ Bounds(n) /\ Writable(net, c)
  BY <1>3, ConnFacts DEF SockInv, Counts
<1>5. n.msg = NoUser /\ n.done = 0 /\ n.state \in {"NONE", "LISTEN"}
  BY <1>0, <1>3, Quiet
<1>6. [net EXCEPT !.conn[c].recvmbox = Tail(@)] = b
  BY <1>1, <1>3, Zenon DEF PutConn, NetRec
<1>7. /\ m \in ConnRec /\ ConnSane(m) /\ Bounds(m)
      /\ m.used = n.used /\ m.type = n.type /\ m.fatal = n.fatal /\ m.socket = n.socket
      /\ m.recvOk = n.recvOk /\ m.done = n.done /\ m.snd = n.snd
      /\ m.acceptOk = n.acceptOk /\ m.acceptmbox = n.acceptmbox
      /\ m.state = n.state /\ m.msg = n.msg /\ m.pcb = n.pcb
      /\ Len(m.recvmbox) = Len(n.recvmbox) - 1 /\ p \in {"data", "null"}
  BY <1>0, <1>4, TakenFrom, Zenon
<1> HIDE DEF m
<1>8. OnlyConn(net, b, c, m) /\ Touch(net, b, c) /\ SameCounts(net, b, c)
  BY <1>1, <1>3, <1>7, PutConnFields, PutConnTouch
<1> HIDE DEF b
<1>9. /\ b \in NetRec /\ b.conn[c] = m /\ b.ans = net.ans /\ b.sock = net.sock /\ b.moved = net.moved
      /\ Raw(b, c) = Raw(net, c)
  BY <1>8 DEF OnlyConn, SameCounts
<1>10. v \in UserRec /\ v.op = u.op /\ v.fd = u.fd /\ v.new = u.new /\ v.conn = u.conn /\ v.pc = u.pc
  BY <1>1, <1>7 DEF UserRec
<1>11. MyCount(net, u, c)
  BY <1>3, CountMine DEF SockInv, Counts, Links
<1>12. Raw(net, c) \in Int /\ Len(n.recvmbox) \in Nat /\ Len(n.acceptmbox) \in Nat
  BY <1>3, ConnFacts, RawInt
<1>13. ASSUME NEW q, Fetched(q), q.fd = u.fd, ~Closing(q) PROVE MyCount(b, q, c)
  <2>1. Due(q, n.socket) = 1 /\ Due(u, n.socket) = 0
    BY <1>2, <1>3, <1>13, FdFacts DEF Due
  <2>2. n.used /\ ~n.fatal => Raw(net, c) - 0 = Len(n.recvmbox) + Len(n.acceptmbox)
    BY <1>2, <1>11, <2>1, Zenon DEF MyCount
  <2>3. n.used /\ ~n.fatal => Raw(net, c) - 1 = Len(m.recvmbox) + Len(m.acceptmbox)
    <3> DEFINE a == Len(n.recvmbox)
               k == Len(m.recvmbox)
               l == Len(n.acceptmbox)
               h == Raw(net, c)
    <3>1. Len(m.acceptmbox) = l /\ k = a - 1 /\ a \in Nat /\ l \in Nat /\ h \in Int
      BY <1>7, <1>12
    <3>2. n.used /\ ~n.fatal => h - 0 = a + l
      BY <2>2, Zenon
    <3> HIDE DEF a, k, l, h
    <3>3. n.used /\ ~n.fatal => h - 1 = k + l
      BY <3>1, <3>2
    <3> QED BY <3>1, <3>3 DEF h, k
  <2> QED BY <1>7, <1>9, <2>1, <2>3, Zenon DEF MyCount
<1>14. OnIt(net, u, {c}) /\ u.op # "select"
  BY <1>0, <1>2 DEF OnIt
<1>15. Writable(b, c)
  BY <1>4, <1>7, <1>9 DEF Writable
<1>16. CASE p = "null"
  <2> DEFINE g == PutAns(b, t, "unset")
             e == Ack(g, c, t, "ok")
             q == [v EXCEPT !.pc = "await", !.fn = "recv", !.conn = c]
  <2>1. net' = e /\ user' = [user EXCEPT ![t] = q]
    BY <1>6, <1>16, Zenon DEF FetchData, tcpip_apimsg, Set, do_recv, PutAns
  <2>2. OnlyAns(b, g, [b.ans EXCEPT ![t] = "unset"]) /\ Touch(b, g, c) /\ SameCounts(b, g, c)
    BY <1>3, <1>9, PutAnsFields, PutAnsTouch, Zenon
  <2> HIDE DEF g
  <2>3. /\ g \in NetRec /\ g.conn = b.conn /\ g.sock = b.sock /\ g.moved = net.moved
        /\ Raw(g, c) = Raw(b, c) /\ \A z \in User : z # t => g.ans[z] = net.ans[z]
    BY <1>1, <1>9, <2>2, NetFields DEF OnlyAns, SameCounts
  <2>4. Touch(net, g, c)
    BY <1>1, <1>3, <1>8, <2>2, TouchTrans
  <2>5. Handled(net, g, c)
    <3>1. g.conn[c].used = n.used /\ g.conn[c].acceptmbox = n.acceptmbox
      BY <1>7, <1>9, <2>3
    <3> QED BY <1>1, <1>3, <2>4, <3>1, TouchHandled, Zenon
  <2>6. "ok" \in Results /\ "recv" \in Fns
    BY DEF Results, Fns
  <2>7. Acked(g, e, c, t, "ok")
    BY <1>3, <2>3, <2>6, AckFields
  <2> HIDE DEF e, v
  <2>8. Posted(v, q, "recv", c)
    BY <1>3, <1>10, <2>6, PostFields, Zenon
  <2> HIDE DEF q
  <2>9. /\ q \in UserRec /\ q.pc = "await" /\ q.fn = "recv" /\ q.conn = c
        /\ q.op = "recv" /\ q.fd = u.fd /\ q.new = NoFd
    BY <1>0, <1>2, <1>10, <2>8 DEF Posted
  <2>10. Shape(q)
    BY <1>2, <1>3, <2>9 DEF Shape, Engaged, OnFd, FnOf
  <2>11. Fetched(q) /\ ~Closing(q)
    BY <2>9 DEF Fetched, Closing
  <2>12. MyCount(b, q, c)
    BY <1>13, <2>9, <2>11
  <2>13. MyCount(g, q, c) /\ Writable(g, c)
    BY <1>15, <2>3, <2>12, Zenon DEF MyCount, Writable
  <2>14. FdStep(net, user, t, q)
    BY <1>0, <1>2, <2>9 DEF FdStep, Brought
  <2>15. ConnSane(g.conn[c]) /\ Bounds(g.conn[c]) /\ g.conn[c].msg = NoUser /\ g.conn[c].done = 0
    BY <1>5, <1>7, <1>9, <2>3
  <2> QED BY <1>3, <1>14, <2>1, <2>3, <2>5, <2>6, <2>7, <2>9, <2>10, <2>13, <2>14, <2>15, AskStep, Zenon
<1>17. CASE p # "null"
  <2> DEFINE q == [v EXCEPT !.pc = "event"]
  <2>1. [u EXCEPT !.pc = "event", !.got = p] = q
    BY <1>1, Zenon DEF UserRec
  <2>2. net' = b /\ user' = [user EXCEPT ![t] = q]
    BY <1>6, <1>17, <2>1, Zenon DEF FetchData, Set
  <2> HIDE DEF v
  <2>3. Moved(v, q, "event")
    <3>1. "event" \in Pcs
      BY DEF Pcs
    <3> QED BY <1>10, <3>1, MoveFields
  <2> HIDE DEF q
  <2>4. /\ q \in UserRec /\ q.pc = "event" /\ q.op = "recv" /\ q.fd = u.fd /\ q.new = NoFd
        /\ q.conn = u.conn
    BY <1>0, <1>2, <1>10, <2>3 DEF Moved
  <2>5. Fetched(q) /\ ~Closing(q) /\ ~Engaged(q) /\ ~Making(q) /\ Brought(q) = NoFd
    BY <2>4 DEF Fetched, Closing, Engaged, Making, Brought
  <2>6. MyCount(b, q, c)
    BY <1>13, <2>4, <2>5
  <2>7. Shape(q)
    BY <1>2, <2>4, <2>5 DEF Shape, OnFd
  <2>8. TaskOK(b, t, q)
    BY <2>4, <2>5, <2>7 DEF TaskOK, Hears, Stage, SlotFresh
  <2>9. OnIt(net, q, {c})
    BY <1>3, <2>4, <2>5 DEF OnIt
  <2>10. FdStep(net, user, t, q)
    BY <1>0, <1>2, <2>4, <2>5 DEF FdStep
  <2>11. TaskMoves(net, b, user, t, q, c)
    BY <1>9, <1>14, <2>4, <2>8, <2>9, <2>10 DEF TaskMoves
  <2>12. HeardOf(b, user', c)
    BY <1>5, <1>7, <1>9 DEF HeardOf
  <2>13. Handled(net, b, c)
    BY <1>1, <1>3, <1>7, <1>8, <1>9, TouchHandled, Zenon
  <2> QED BY <1>3, <1>7, <1>9, <1>15, <2>2, <2>4, <2>6, <2>11, <2>12, <2>13, CallStep, Zenon
<1> QED BY <1>16, <1>17

-----------------------------------------------------------------------------
(* event_callback in a task.                                               *)

(* Task t knows that the list has changed.                                 *)
Marked(s, t) == [s EXCEPT !.moved = @ \cup {t}]

(* From s to e only the marks of the tasks change, and are ms.             *)
OnlyMoved(s, e, ms) ==
  /\ e \in NetRec /\ e.conn = s.conn /\ e.sock = s.sock /\ e.list = s.list
  /\ e.want = s.want /\ e.sig = s.sig /\ e.ans = s.ans /\ e.moved = ms

(* select_cb_ctr *)
LEMMA MarkFields ==
  ASSUME NEW s \in NetRec, NEW ms \in SUBSET User
  PROVE  OnlyMoved(s, [s EXCEPT !.moved = ms], ms)
BY Zenon DEF NetRec, OnlyMoved

(* A task that goes through the list has a call on its descriptor.         *)
LEMMA LookFacts ==
  ASSUME NEW s, NEW w, SockInv(s, w), NEW t \in User, w[t].pc \in {"look", "event"},
         NEW c, c = s.sock[w[t].fd].conn
  PROVE  /\ w[t] \in UserRec /\ w[t].op \in {"recv", "accept"} /\ w[t].fd \in Fd /\ w[t].new = NoFd
         /\ c \in Conn /\ s.conn[c].socket = w[t].fd /\ s.conn[c].used /\ Private(s, w, t, c)
         /\ (Fetched(w[t]) <=> w[t].pc = "event") /\ ~Engaged(w[t]) /\ ~Closing(w[t])
         /\ OnIt(s, w[t], {c}) /\ MyCount(s, w[t], c)
         /\ w[t].op = "accept" => Brought(w[t]) = w[t].conn /\ w[t].conn \in Conn
<1>1. Shape(w[t]) /\ w[t] \in UserRec
  BY DEF SockInv, Shapes, Types
<1>2. w[t].op \in {"recv", "accept"} /\ w[t].fd # NoFd /\ w[t].new = NoFd
  BY <1>1 DEF Shape, OnFd
<1>3. w[t].fd \in Fd /\ c \in Conn /\ s.conn[c].socket = w[t].fd /\ s.conn[c].used /\ Private(s, w, t, c)
  BY <1>2, PrivateCall
<1>4. (Fetched(w[t]) <=> w[t].pc = "event") /\ ~Engaged(w[t]) /\ ~Closing(w[t])
  BY <1>2 DEF Fetched, Engaged, Closing
<1>5. OnIt(s, w[t], {c})
  BY <1>4 DEF OnIt
<1>6. MyCount(s, w[t], c)
  BY <1>3, CountMine DEF SockInv, Counts, Links
<1>7. w[t].op = "accept" => Brought(w[t]) = w[t].conn /\ w[t].conn \in Conn
  BY <1>1, UserFields DEF Shape, Brought
<1> QED BY <1>1, <1>2, <1>3, <1>4, <1>5, <1>6, <1>7

(* The same task with the event counted.                                   *)
Onward(u, q) ==
  q \in UserRec /\ q.op = u.op /\ q.fd = u.fd /\ q.new = u.new /\ q.conn = u.conn

(* netconn_recv_data goes on to the copying.                               *)
LEMMA LookCopy ==
  ASSUME NEW s \in NetRec, NEW t \in User, NEW w, SockInv(Marked(s, t), w), w[t].pc = "look",
         w[t].op = "recv", NEW q, Onward(w[t], q), q.pc = "copy"
  PROVE  SockInv(s, [w EXCEPT ![t] = q])
<1> DEFINE u == w[t]
           p == Marked(s, t)
           c == p.sock[u.fd].conn
<1>1. /\ u \in UserRec /\ u.fd \in Fd /\ u.new = NoFd
      /\ c \in Conn /\ p.conn[c].socket = u.fd /\ p.conn[c].used /\ Private(p, w, t, c)
      /\ ~Fetched(u) /\ ~Engaged(u) /\ ~Closing(u)
      /\ OnIt(p, u, {c}) /\ MyCount(p, u, c)
  BY LookFacts
<1>2. OnlyMoved(s, p, s.moved \cup {t})
  <2>1. s.moved \cup {t} \in SUBSET User
    BY NetFields
  <2> QED BY <2>1, MarkFields DEF Marked
<1> HIDE DEF p
<1>3. /\ s.conn = p.conn /\ s.sock = p.sock /\ s.list = p.list
      /\ s.want = p.want /\ s.sig = p.sig /\ s.ans = p.ans /\ p.moved = s.moved \cup {t}
  BY <1>2 DEF OnlyMoved
<1>4. q \in UserRec /\ q.op = "recv" /\ q.fd = u.fd /\ q.new = NoFd /\ q.conn = u.conn
  BY <1>1 DEF Onward
<1>5. ~Fetched(q) /\ ~Engaged(q) /\ ~Closing(q) /\ ~Making(q) /\ Brought(q) = NoFd /\ Brought(u) = NoFd
  BY <1>4 DEF Fetched, Engaged, Closing, Making, Brought
<1>6. MyCount(p, q, c)
  <2>1. Due(q, p.conn[c].socket) = 0 /\ Due(u, p.conn[c].socket) = 0
    BY <1>1, <1>5 DEF Due
  <2> QED BY <1>1, <1>5, <2>1, Zenon DEF MyCount
<1>7. TaskMoves(p, s, w, t, q, c)
  <2>1. Shape(q)
    <3>1. u.fd # NoFd
      BY <1>1, NoFdIsNone
    <3> QED BY <1>4, <1>5, <3>1 DEF Shape, OnFd
  <2>2. Hears(s, t, q) /\ Stage(s, t, q) /\ SlotFresh(s, q)
    BY <1>4, <1>5 DEF Hears, Stage, SlotFresh, Engaged
  <2>3. FdStep(p, w, t, q)
    BY <1>1, <1>4, <1>5 DEF FdStep
  <2>4. OnIt(p, q, {c})
    BY <1>5 DEF OnIt
  <2>5. \A v \in User : v # t /\ v \in p.moved => v \in s.moved
    BY <1>3
  <2>6. q.op # "select" /\ u.op # "select" /\ q.op # "close" /\ q.pc # "look"
    BY <1>4
  <2>7. TaskOK(s, t, q) /\ OnIt(p, u, {c})
    BY <1>1, <2>1, <2>2 DEF TaskOK
  <2> QED BY <1>3, <2>3, <2>4, <2>5, <2>6, <2>7 DEF TaskMoves
<1>8. SockInv(p, w) /\ u.pc # "await"
  BY DEF p
<1> QED BY <1>1, <1>3, <1>4, <1>6, <1>7, <1>8, PlainStep, Zenon

(* netconn_accept asks for the peer of the netconn that it brings.         *)
LEMMA LookPeer ==
  ASSUME NEW s \in NetRec, NEW t \in User, NEW w, SockInv(Marked(s, t), w), w[t].pc = "look",
         w[t].op = "accept", NEW q, Onward(w[t], q), q.pc = "await", q.fn = "peer", NEW r \in Results
  PROVE  SockInv(Ack(PutAns(s, t, "unset"), w[t].conn, t, r), [w EXCEPT ![t] = q])
<1> DEFINE u == w[t]
           p == Marked(s, t)
           d == u.conn
           n == p.conn[d]
           g == PutAns(s, t, "unset")
           e == Ack(g, d, t, r)
<1>0. SockInv(p, w)
  OBVIOUS
<1>1. /\ u \in UserRec /\ u.fd \in Fd /\ u.new = NoFd
      /\ ~Fetched(u) /\ ~Engaged(u) /\ ~Closing(u)
      /\ Brought(u) = d /\ d \in Conn /\ d # NoFd
  BY LookFacts, NoFdIsNone, Zenon
<1>2. OnlyMoved(s, p, s.moved \cup {t})
  <2>1. s.moved \cup {t} \in SUBSET User
    BY NetFields
  <2> QED BY <2>1, MarkFields, Zenon DEF Marked
<1>3. Private(p, w, t, d) /\ p.conn[d].used
  BY <1>1, PrivateBrought
<1> HIDE DEF p
<1>4. /\ p \in NetRec /\ s.conn = p.conn /\ s.sock = p.sock /\ s.list = p.list
      /\ s.want = p.want /\ s.sig = p.sig /\ s.ans = p.ans /\ p.moved = s.moved \cup {t}
  BY <1>2 DEF OnlyMoved
<1>5. q \in UserRec /\ q.op = "accept" /\ q.fd = u.fd /\ q.new = NoFd /\ q.conn = d
  BY <1>1 DEF Onward
<1>6. OnlyAns(s, g, [s.ans EXCEPT ![t] = "unset"])
  BY PutAnsFields, Zenon
<1> HIDE DEF g
<1>7. /\ g \in NetRec /\ g.conn = p.conn /\ g.sock = p.sock /\ g.list = p.list
      /\ g.want = p.want /\ g.sig = p.sig /\ g.moved = s.moved
      /\ \A v \in User : v # t => g.ans[v] = p.ans[v]
  BY <1>4, <1>6, NetFields DEF OnlyAns
<1>8. Handled(p, g, d)
  <2>1. \A f, v : Asks(g, v, f) <=> Asks(p, v, f)
    BY <1>7 DEF Asks
  <2>2. SelKept(p, g)
    BY <1>7, <2>1 DEF SelKept
  <2>3. LinkSame(p, g)
    BY <1>7 DEF LinkSame
  <2> QED BY <1>7, <2>2, <2>3 DEF Handled
<1>9. Acked(g, e, d, t, r)
  BY <1>1, <1>7, AckFields
<1> HIDE DEF e
<1>10. ConnSane(n) /\ Bounds(n) /\ Writable(p, d)
  BY <1>0, <1>1, ConnFacts DEF SockInv, Counts
<1>11. n.msg = NoUser /\ n.done = 0
  BY <1>0, <1>1, <1>3, Quiet
<1>12. ~Fetched(q) /\ ~Closing(q) /\ Brought(q) = d
  BY <1>5 DEF Fetched, Closing, Brought
<1>13. MyCount(g, q, d)
  <2>1. MyCount(p, u, d)
    BY <1>0, <1>1, <1>3, CountMine DEF SockInv, Counts, Links
  <2>2. Due(q, n.socket) = 0 /\ Due(u, n.socket) = 0
    BY <1>1, <1>12 DEF Due
  <2>3. Raw(g, d) = Raw(p, d)
    BY <1>7 DEF Raw
  <2> QED BY <1>1, <1>7, <1>12, <2>1, <2>2, <2>3, Zenon DEF MyCount
<1>14. Shape(q)
  <2>1. u.fd # NoFd
    BY <1>1, NoFdIsNone
  <2> QED BY <1>1, <1>5, <2>1 DEF Shape, Engaged, OnFd, FnOf
<1>15. FdStep(p, w, t, q)
  BY <1>1, <1>5, <1>12 DEF FdStep
<1>16. Writable(g, d)
  BY <1>7, <1>10 DEF Writable
<1>17. OnIt(p, u, {d}) /\ u.op # "select"
  BY <1>1 DEF OnIt
<1>18. \A v \in User : v # t /\ v \in p.moved => v \in g.moved
  BY <1>4, <1>7
<1>19. SockInv(e, [w EXCEPT ![t] = q])
  BY <1>0, <1>1, <1>3, <1>5, <1>7, <1>8, <1>9, <1>10, <1>11, <1>13, <1>14, <1>15, <1>16, <1>17,
     <1>18, AskStep, Zenon
<1> QED BY <1>19 DEF e, g

(* The task looks at the next entry z of the list.                         *)
LEMMA LookNext ==
  ASSUME NEW s \in NetRec, NEW t \in User, NEW w, SockInv(Marked(s, t), w), w[t].pc = "look",
         NEW z \in Listed(s), NEW q, Onward(w[t], q), q.pc = "look", q.scb = z, NEW f \in Fd
  PROVE  SockInv([Signalled(s, {z}, f) EXCEPT !.moved = @ \ {t}], [w EXCEPT ![t] = q])
<1> DEFINE u == w[t]
           p == Marked(s, t)
           c == p.sock[u.fd].conn
           b == Signalled(s, {z}, f)
           e == [b EXCEPT !.moved = b.moved \ {t}]
<1>0. SockInv(p, w) /\ u.pc # "await"
  OBVIOUS
<1>1. /\ u \in UserRec /\ u.op \in {"recv", "accept"} /\ u.fd \in Fd /\ u.new = NoFd
      /\ c \in Conn /\ p.conn[c].socket = u.fd /\ p.conn[c].used /\ Private(p, w, t, c)
      /\ ~Fetched(u) /\ ~Engaged(u) /\ ~Closing(u)
      /\ OnIt(p, u, {c}) /\ MyCount(p, u, c)
  BY LookFacts
<1>2. OnlyMoved(s, p, s.moved \cup {t})
  <2>1. s.moved \cup {t} \in SUBSET User
    BY NetFields
  <2> QED BY <2>1, MarkFields, Zenon DEF Marked
<1> HIDE DEF p
<1>3. /\ p \in NetRec /\ s.conn = p.conn /\ s.sock = p.sock /\ s.list = p.list
      /\ s.want = p.want /\ s.sig = p.sig /\ s.ans = p.ans /\ p.moved = s.moved \cup {t}
  BY <1>2 DEF OnlyMoved
<1>4. OnlySig(s, b, {v \in {z} : Asks(s, v, f)})
  <2>1. {z} \in SUBSET User
    BY ListedTasks
  <2> QED BY <2>1, SignalledFields
<1> HIDE DEF b
<1>5. OnlyMoved(b, e, b.moved \ {t})
  <2>1. b \in NetRec
    BY <1>4 DEF OnlySig
  <2>2. b.moved \ {t} \in SUBSET User
    BY <2>1, NetFields
  <2> QED BY <2>1, <2>2, MarkFields
<1> HIDE DEF e
<1>6. /\ e \in NetRec /\ e.conn = p.conn /\ e.sock = p.sock /\ e.list = p.list
      /\ e.want = p.want /\ p.sig \subseteq e.sig /\ e.ans = p.ans /\ e.moved = s.moved \ {t}
  BY <1>3, <1>4, <1>5 DEF OnlyMoved, OnlySig
<1>7. Handled(p, e, c)
  <2>1. \A h, v : Asks(e, v, h) <=> Asks(p, v, h)
    BY <1>6 DEF Asks
  <2>2. SelKept(p, e)
    BY <1>6, <2>1 DEF SelKept
  <2>3. LinkSame(p, e)
    BY <1>6 DEF LinkSame
  <2> QED BY <1>6, <2>2, <2>3 DEF Handled
<1>8. q \in UserRec /\ q.op = u.op /\ q.fd = u.fd /\ q.new = NoFd /\ q.conn = u.conn
  BY <1>1 DEF Onward
<1>9. ~Fetched(q) /\ ~Engaged(q) /\ ~Closing(q) /\ ~Making(q) /\ Brought(q) = Brought(u)
  BY <1>8 DEF Fetched, Engaged, Closing, Making, Brought
<1>10. MyCount(e, q, c) /\ Writable(e, c)
  <2>1. Due(q, p.conn[c].socket) = 0 /\ Due(u, p.conn[c].socket) = 0
    BY <1>1, <1>9 DEF Due
  <2>2. Raw(e, c) = Raw(p, c)
    BY <1>6 DEF Raw
  <2>3. MyCount(e, q, c)
    BY <1>1, <1>6, <1>9, <2>1, <2>2, Zenon DEF MyCount
  <2>4. Writable(p, c)
    BY <1>0, <1>1 DEF SockInv, Counts
  <2>5. Writable(e, c)
    BY <1>6, <2>4, Zenon DEF Writable
  <2> QED BY <2>3, <2>5
<1>11. ConnSane(e.conn[c]) /\ Bounds(e.conn[c])
  BY <1>0, <1>1, <1>6, ConnFacts, Zenon
<1>12. p.conn[c].msg = NoUser /\ p.conn[c].done = 0 /\ p.conn[c].state \in {"NONE", "LISTEN"}
  BY <1>0, <1>1, Quiet, Zenon
<1>13. HeardOf(e, [w EXCEPT ![t] = q], c)
  BY <1>6, <1>12 DEF HeardOf
<1>14. TaskMoves(p, e, w, t, q, c)
  <2>1. Shape(q)
    <3>1. u.fd # NoFd /\ Shape(u)
      BY <1>0, <1>1, NoFdIsNone DEF SockInv, Shapes
    <3> QED BY <1>1, <1>8, <1>9, <3>1 DEF Shape, OnFd
  <2>2. Hears(e, t, q) /\ Stage(e, t, q) /\ SlotFresh(e, q)
    BY <1>8, <1>9 DEF Hears, Stage, SlotFresh, Engaged
  <2>3. FdStep(p, w, t, q)
    BY <1>1, <1>8, <1>9 DEF FdStep
  <2>4. OnIt(p, q, {c})
    BY <1>9 DEF OnIt
  <2>5. \A v \in User : v # t /\ v \in p.moved => v \in e.moved
    BY <1>3, <1>6
  <2>6. q.op # "select" /\ u.op # "select" /\ q.op # "close"
    BY <1>1, <1>8
  <2>7. TaskOK(e, t, q) /\ OnIt(p, u, {c})
    BY <1>1, <2>1, <2>2 DEF TaskOK
  <2>8. q.scb \in Listed(e)
    BY <1>3, <1>6 DEF Listed
  <2> QED BY <1>6, <2>3, <2>4, <2>5, <2>6, <2>7, <2>8 DEF TaskMoves
<1>15. SockInv(e, [w EXCEPT ![t] = q])
  BY <1>0, <1>1, <1>7, <1>8, <1>10, <1>11, <1>13, <1>14, CallStep, Zenon
<1> QED BY <1>15 DEF e, b

(* Netconn c of state s has a fatal error.                                 *)
PutFatal(s, c) == [s EXCEPT !.conn[c].fatal = TRUE]

(* recv() has read that the peer has closed: netconn_recv_data.            *)
LEMMA FatalStep ==
  ASSUME NEW s, NEW w, SockInv(s, w), NEW t \in User, w[t].pc = "copy",
         NEW c, c = s.sock[w[t].fd].conn
  PROVE  SockInv(PutFatal(s, c), w) /\ PutFatal(s, c).sock = s.sock
<1> DEFINE u == w[t]
           n == s.conn[c]
           m == [n EXCEPT !.fatal = TRUE]
           e == PutConn(s, c, m)
<1>1. /\ u \in UserRec /\ u.op = "recv" /\ u.fd \in Fd /\ u.new = NoFd
      /\ c \in Conn /\ n.socket = u.fd /\ n.used /\ Private(s, w, t, c)
      /\ ~Fetched(u) /\ ~Engaged(u) /\ ~Closing(u) /\ Brought(u) = NoFd
      /\ OnIt(s, u, {c}) /\ MyCount(s, u, c)
  <2>1. Copying(s, w, t, c)
    BY CopyFacts
  <2> QED BY <2>1 DEF Copying
<1>2. /\ s \in NetRec /\ n \in ConnRec /\ ConnSane(n) /\ Bounds(n) /\ w \in [User -> UserRec]
      /\ Shape(u) /\ Writable(s, c)
  BY <1>1, ConnFacts, Zenon DEF SockInv, Types, Shapes, Counts
<1>3. PutFatal(s, c) = e
  BY <1>1, <1>2, Zenon DEF PutFatal, PutConn, NetRec
<1>4. m \in ConnRec
  BY <1>2, Zenon DEF ConnRec
<1>5. /\ m.used = n.used /\ m.type = n.type /\ m.fatal = TRUE /\ m.socket = n.socket
      /\ m.recvOk = n.recvOk /\ m.done = n.done /\ m.snd = n.snd /\ m.recvmbox = n.recvmbox
      /\ m.acceptOk = n.acceptOk /\ m.acceptmbox = n.acceptmbox
      /\ m.state = n.state /\ m.msg = n.msg /\ m.pcb = n.pcb
  BY <1>2, Zenon DEF ConnRec
<1> HIDE DEF m
<1>6. OnlyConn(s, e, c, m) /\ Touch(s, e, c) /\ SameCounts(s, e, c)
  BY <1>1, <1>2, <1>4, <1>5, PutConnFields, PutConnTouch, Zenon
<1> HIDE DEF e
<1>7. e \in NetRec /\ e.conn[c] = m /\ e.ans = s.ans /\ e.sock = s.sock /\ e.moved = s.moved
  BY <1>6 DEF OnlyConn
<1>8. Handled(s, e, c)
  BY <1>1, <1>2, <1>5, <1>6, <1>7, TouchHandled, Zenon
<1>9. n.msg = NoUser /\ n.done = 0 /\ n.state \in {"NONE", "LISTEN"}
  BY <1>1, Quiet, Zenon
<1>10. HeardOf(e, w, c)
  BY <1>5, <1>7, <1>9, Zenon DEF HeardOf
<1>11. MyCount(e, u, c) /\ Writable(e, c) /\ ConnSane(m) /\ Bounds(m)
  <2>1. MyCount(e, u, c)
    BY <1>5, <1>7 DEF MyCount
  <2>2. Writable(e, c)
    BY <1>2, <1>5, <1>7, Zenon DEF Writable
  <2>3. ConnSane(n) /\ n.used /\ Bounds(n)
    BY <1>1, <1>2
  <2>4. ConnSane(m)
    BY ONLY <1>5, <2>3 DEF ConnSane
  <2>5. Bounds(m)
    BY ONLY <1>5, <2>3 DEF Bounds
  <2> QED BY <2>1, <2>2, <2>4, <2>5
<1>12. TaskMoves(s, e, w, t, u, c)
  <2>1. Hears(e, t, u) /\ Stage(e, t, u) /\ SlotFresh(e, u)
    BY <1>1 DEF Hears, Stage, SlotFresh, Engaged, Making, Closing
  <2>2. FdStep(s, w, t, u)
    BY DEF FdStep
  <2> QED BY <1>1, <1>2, <1>7, <2>1, <2>2, Zenon DEF TaskMoves, TaskOK
<1>13. w = [w EXCEPT ![t] = u]
  BY <1>2
<1>14. SockInv(e, w)
  BY <1>1, <1>7, <1>8, <1>10, <1>11, <1>12, <1>13, CallStep, Zenon
<1> QED BY <1>3, <1>7, <1>14

(* Resume *)
LEMMA ResumeKeeps ==
  ASSUME NEW t \in User, NEW s \in NetRec, Resume(t, s), user \in [User -> UserRec],
         s.sock[user[t].fd].conn = ConnOf(user[t].fd),
         SockInv(Marked(s, t), [user EXCEPT ![t] = [user[t] EXCEPT !.pc = "look"]])
  PROVE  SockInv(net', user')
<1> DEFINE v == user[t]
           u == [v EXCEPT !.scb = NoUser, !.got = "none"]
           k == [v EXCEPT !.pc = "look"]
           x == [user EXCEPT ![t] = k]
           c == ConnOf(v.fd)
<1>1. v \in UserRec
  OBVIOUS
<1>2. u \in UserRec /\ u.op = v.op /\ u.fd = v.fd /\ u.new = v.new /\ u.conn = v.conn /\ u.off = v.off
  <2>1. u \in UserRec
    BY <1>1, Zenon DEF UserRec
  <2> QED BY <1>1, <2>1 DEF UserRec
<1>3. Moved(v, k, "look")
  <2>1. "look" \in Pcs
    BY DEF Pcs
  <2> QED BY <1>1, <2>1, MoveFields
<1>4. x[t] = k /\ \A y : [x EXCEPT ![t] = y] = [user EXCEPT ![t] = y]
  BY Zenon
<1>5. SockInv(Marked(s, t), x)
  OBVIOUS
<1> HIDE DEF k, x
<1>6. k.pc = "look" /\ k.op = v.op /\ k.fd = v.fd /\ k.new = v.new /\ k.conn = v.conn
  BY <1>3 DEF Moved
<1>7. v.op \in {"recv", "accept"} /\ (v.op = "accept" => v.conn \in Conn)
  BY <1>4, <1>5, <1>6, LookFacts, Zenon
<1>8. CASE v.op = "accept"
  <2> DEFINE r == IF s.conn[v.conn].pcb = "none" THEN "fatal" ELSE "ok"
             q == [u EXCEPT !.pc = "await", !.fn = "peer", !.conn = v.conn]
  <2>1. net' = Ack(PutAns(s, t, "unset"), v.conn, t, r) /\ user' = [user EXCEPT ![t] = q]
    <3>1. tcpip_apimsg(t, u, u.conn, "peer", do_getaddr([s EXCEPT !.ans[t] = "unset"], u.conn, t))
      BY <1>2, <1>8 DEF Resume
    <3>2. PutAns(s, t, "unset").conn = s.conn
      BY UnansweredFields
    <3> HIDE DEF u
    <3> QED BY <1>2, <3>1, <3>2 DEF tcpip_apimsg, Set, do_getaddr, PutAns
  <2>2. r \in Results
    BY DEF Results
  <2> HIDE DEF r, u
  <2>3. Posted(u, q, "peer", v.conn)
    <3>1. "peer" \in Fns
      BY DEF Fns
    <3> QED BY <1>2, <1>7, <1>8, <3>1, PostFields, Zenon
  <2> HIDE DEF q
  <2>4. Onward(x[t], q) /\ q.pc = "await" /\ q.fn = "peer"
    BY <1>2, <1>4, <1>6, <2>3 DEF Posted, Onward
  <2>5. SockInv(Ack(PutAns(s, t, "unset"), x[t].conn, t, r), [x EXCEPT ![t] = q])
    BY <1>4, <1>5, <1>6, <1>8, <2>2, <2>4, LookPeer
  <2> QED BY <1>4, <1>6, <2>1, <2>5, Zenon
<1>9. CASE v.op = "recv"
  <2> DEFINE q == [u EXCEPT !.pc = "copy"]
             y == [user EXCEPT ![t] = q]
  <2>1. \/ ReadEnds(t, PutFatal(s, c), u, u.off)
        \/ net' = PutLast(s, v.fd, TRUE) /\ user' = y
    BY <1>2, <1>9 DEF Resume, PutFatal, PutLast, Set
  <2> HIDE DEF u
  <2>2. Moved(u, q, "copy")
    <3>1. "copy" \in Pcs
      BY DEF Pcs
    <3> QED BY <1>2, <3>1, MoveFields
  <2>3. y[t] = q
    BY Zenon
  <2> HIDE DEF q
  <2>4. Onward(x[t], q) /\ q.pc = "copy" /\ q.fd = v.fd
    BY <1>2, <1>4, <1>6, <2>2 DEF Moved, Onward
  <2>5. SockInv(s, [x EXCEPT ![t] = q])
    BY <1>4, <1>5, <1>6, <1>9, <2>4, LookCopy
  <2>6. SockInv(s, y)
    BY <1>4, <2>5, Zenon
  <2> HIDE DEF y
  <2>7. y[t].pc = "copy" /\ y[t].fd = v.fd
    BY <2>3, <2>4
  <2>8. CASE net' = PutLast(s, v.fd, TRUE) /\ user' = y
    <3>1. SockInv(PutLast(s, y[t].fd, TRUE), y)
      BY <2>6, <2>7, LastStep, Zenon
    <3> QED BY <2>7, <2>8, <3>1, Zenon
  <2>9. CASE ReadEnds(t, PutFatal(s, c), u, u.off)
    <3>1. SockInv(PutFatal(s, c), y) /\ PutFatal(s, c).sock = s.sock
      BY <2>6, <2>7, FatalStep
    <3>2. SockInv(PutFatal(s, c), [user EXCEPT ![t] = [u EXCEPT !.pc = "copy"]])
      BY <3>1 DEF y, q
    <3>3. ReadOK(PutFatal(s, c), user, t, u, c)
      BY <1>2, <3>1, <3>2, ReadsOn, Zenon
    <3> QED BY <1>2, <2>9, <3>3, ReadEndsKeeps
  <2> QED BY <2>1, <2>8, <2>9, Zenon
<1> QED BY <1>7, <1>8, <1>9

(* Look *)
LEMMA LookKeeps ==
  ASSUME NEW t \in User, NEW s \in NetRec, NEW i \in Nat \ {0}, Look(t, s, i),
         user \in [User -> UserRec], s.sock[user[t].fd].conn = ConnOf(user[t].fd),
         SockInv(Marked(s, t), [user EXCEPT ![t] = [user[t] EXCEPT !.pc = "look"]])
  PROVE  SockInv(net', user')
<1>0. s.list \in Seq(User) /\ Len(s.list) \in Nat
  BY NetFields
<1>1. CASE i > Len(s.list)
  <2>1. Resume(t, s)
    BY <1>1 DEF Look
  <2> QED BY <2>1, ResumeKeeps, Zenon
<1>2. CASE ~(i > Len(s.list))
  <2> DEFINE v == user[t]
             z == s.list[i]
             k == [v EXCEPT !.pc = "look"]
             q == [v EXCEPT !.pc = "look", !.scb = z]
             x == [user EXCEPT ![t] = k]
  <2>1. /\ net' = [Signalled(s, {z}, v.fd) EXCEPT !.moved = @ \ {t}]
        /\ user' = [user EXCEPT ![t] = q]
    BY <1>2, Zenon DEF Look, Set
  <2>2. i \in 1 .. Len(s.list)
    BY <1>0, <1>2
  <2>3. z \in Listed(s) /\ z \in User
    BY <1>0, <2>2 DEF Listed
  <2>4. Moved(v, k, "look")
    <3>1. "look" \in Pcs
      BY DEF Pcs
    <3> QED BY <3>1, MoveFields
  <2>5. x[t] = k /\ \A y : [x EXCEPT ![t] = y] = [user EXCEPT ![t] = y]
    BY Zenon
  <2>6. SockInv(Marked(s, t), x)
    OBVIOUS
  <2> HIDE DEF z
  <2>7. q \in UserRec
    <3>1. v \in UserRec /\ z \in User \cup {NoUser}
      BY <2>3
    <3> QED BY <3>1, Zenon DEF UserRec
  <2>8. q.op = v.op /\ q.fd = v.fd /\ q.new = v.new /\ q.conn = v.conn /\ q.pc = "look" /\ q.scb = z
    BY DEF UserRec
  <2> HIDE DEF k, x, q
  <2>9. k.pc = "look" /\ k.op = v.op /\ k.fd = v.fd /\ k.new = v.new /\ k.conn = v.conn
    BY <2>4 DEF Moved
  <2>10. Onward(x[t], q) /\ x[t].pc = "look"
    BY <2>5, <2>7, <2>8, <2>9 DEF Onward
  <2>11. v.fd \in Fd
    BY <2>5, <2>6, <2>9, <2>10, LookFacts, Zenon
  <2>12. SockInv([Signalled(s, {z}, v.fd) EXCEPT !.moved = @ \ {t}], [x EXCEPT ![t] = q])
    BY <2>3, <2>6, <2>8, <2>10, <2>11, LookNext, Zenon
  <2> QED BY <2>1, <2>5, <2>12, Zenon
<1> QED BY <1>1, <1>2

(* LookOn *)
LEMMA LookOnKeeps ==
  ASSUME SockInv(net, user), NEW t \in User, LookOn(t)
  PROVE  SockInv(net', user')
<1> DEFINE u == user[t]
           c == ConnOf(u.fd)
<1>0. u.pc = "look" /\ c = net.sock[u.fd].conn
  BY DEF LookOn, ConnOf
<1>1. /\ u \in UserRec /\ u.op \in {"recv", "accept"} /\ u.fd \in Fd /\ u.new = NoFd
      /\ c \in Conn /\ net.conn[c].socket = u.fd /\ net.conn[c].used /\ Private(net, user, t, c)
      /\ ~Fetched(u) /\ ~Engaged(u) /\ ~Closing(u)
      /\ OnIt(net, u, {c}) /\ MyCount(net, u, c)
  BY <1>0, LookFacts
<1>2. net \in NetRec /\ user \in [User -> UserRec] /\ net.moved \subseteq User /\ Shape(u)
  BY NetFields DEF SockInv, Types, Shapes
<1>3. [user EXCEPT ![t] = [u EXCEPT !.pc = "look"]] = user
  <2>1. [u EXCEPT !.pc = "look"] = u
    BY <1>0, <1>1, Zenon DEF UserRec
  <2> QED BY <1>2, <2>1
<1>4. CASE t \in net.moved
  <2> DEFINE s == [net EXCEPT !.moved = @ \ {t}]
  <2>1. Look(t, s, 1)
    BY <1>0, <1>4 DEF LookOn
  <2>2. OnlyMoved(net, s, net.moved \ {t})
    <3>1. net.moved \ {t} \in SUBSET User
      BY <1>2
    <3> QED BY <1>2, <3>1, MarkFields, Zenon
  <2>3. Marked(s, t) = net
    <3>1. (net.moved \ {t}) \cup {t} = net.moved
      BY <1>4
    <3>2. Marked(s, t) = [net EXCEPT !.moved = (net.moved \ {t}) \cup {t}]
      BY <1>2, Zenon DEF Marked, NetRec
    <3>3. [net EXCEPT !.moved = net.moved] = net
      BY <1>2, Zenon DEF NetRec
    <3> QED BY <3>1, <3>2, <3>3
  <2> HIDE DEF s
  <2>4. s \in NetRec /\ s.sock = net.sock
    BY <2>2 DEF OnlyMoved
  <2>5. SockInv(Marked(s, t), [user EXCEPT ![t] = [user[t] EXCEPT !.pc = "look"]])
    BY <1>3, <2>3
  <2>6. s.sock[user[t].fd].conn = ConnOf(user[t].fd) /\ 1 \in Nat \ {0}
    BY <2>4 DEF ConnOf
  <2> QED BY <1>2, <2>1, <2>4, <2>5, <2>6, LookKeeps, Zenon
<1>5. CASE t \notin net.moved
  <2>1. PICK i \in 1 .. Len(net.list) : Look(t, net, i + 1)
    BY <1>0, <1>5 DEF LookOn
  <2>2. OnlyMoved(net, Marked(net, t), net.moved \cup {t})
    <3>1. net.moved \cup {t} \in SUBSET User
      BY <1>2
    <3> QED BY <1>2, <3>1, MarkFields, Zenon DEF Marked
  <2> DEFINE e == Marked(net, t)
  <2>3. e \in NetRec /\ e.conn = net.conn /\ e.sock = net.sock /\ e.list = net.list
        /\ e.want = net.want /\ e.sig = net.sig /\ e.ans = net.ans /\ e.moved = net.moved \cup {t}
    BY <2>2 DEF OnlyMoved
  <2> HIDE DEF e
  <2>4. TaskMoves(net, e, user, t, u, c)
    <3>1. Hears(e, t, u) /\ Stage(e, t, u) /\ SlotFresh(e, u)
      BY <1>0, <1>1 DEF Hears, Stage, SlotFresh, Engaged, Making, Closing
    <3>2. FdStep(net, user, t, u)
      BY DEF FdStep
    <3>3. t \in e.moved /\ \A v \in User : v \in net.moved => v \in e.moved
      BY <2>3
    <3> QED BY <1>1, <1>2, <2>3, <3>1, <3>2, <3>3 DEF TaskMoves, TaskOK
  <2>5. u.pc # "await" /\ user = [user EXCEPT ![t] = u]
    BY <1>0, <1>2
  <2>6. SockInv(e, user)
    BY <1>1, <2>3, <2>4, <2>5, PlainStep
  <2>7. SockInv(Marked(net, t), [user EXCEPT ![t] = [user[t] EXCEPT !.pc = "look"]])
    BY <1>3, <2>6 DEF e
  <2>8. i + 1 \in Nat \ {0}
    OBVIOUS
  <2>9. net.sock[user[t].fd].conn = ConnOf(user[t].fd)
    BY DEF ConnOf
  <2> QED BY <1>2, <2>1, <2>7, <2>8, <2>9, LookKeeps, Zenon
<1> QED BY <1>4, <1>5
(* RcvMinus: one event less, and the select() calls that look at the       *)
(* descriptor are looked up.                                               *)
LEMMA RcvMinusKeeps ==
  ASSUME SockInv(net, user), NEW t \in User, RcvMinus(t)
  PROVE  SockInv(net', user')
<1> DEFINE u == user[t]
           fd == u.fd
           c == ConnOf(u.fd)
           s == Counted(net, fd, "RCVMINUS")
           p == Marked(s, t)
           q == [u EXCEPT !.pc = "look"]
           x == [user EXCEPT ![t] = q]
<1>0. u.pc = "event" /\ c = net.sock[u.fd].conn
  BY DEF RcvMinus, ConnOf
<1>1. /\ u \in UserRec /\ u.op \in {"recv", "accept"} /\ u.fd \in Fd /\ u.new = NoFd
      /\ c \in Conn /\ net.conn[c].socket = u.fd /\ net.conn[c].used /\ Private(net, user, t, c)
      /\ (Fetched(u) <=> u.pc = "event") /\ ~Engaged(u) /\ ~Closing(u)
      /\ OnIt(net, u, {c}) /\ MyCount(net, u, c)
  BY <1>0, LookFacts
<1>2. net \in NetRec /\ user \in [User -> UserRec] /\ net.moved \subseteq User /\ Shape(u)
  BY NetFields DEF SockInv, Types, Shapes
<1>3. "RCVMINUS" \in Events
  BY DEF Events
<1> DEFINE k == net.sock[fd]
           j == CountedSock(k, "RCVMINUS")
<1>4. k \in SockRec /\ k.rcvevent \in Int
  BY <1>1, <1>2, NetFields, SockFields
<1>5. /\ s \in NetRec /\ s.conn = net.conn /\ s.list = net.list /\ s.moved = net.moved
      /\ s.want = net.want /\ s.sig = net.sig /\ s.ans = net.ans
      /\ s.sock[fd] = j /\ \A f \in Fd : f # fd => s.sock[f] = net.sock[f]
  BY <1>1, <1>2, <1>3, CountedFields
<1>6. /\ j.conn = k.conn /\ j.waiting = k.waiting /\ j.last = k.last
      /\ j.rcvevent = k.rcvevent - 1 /\ j.sendevent = k.sendevent
  BY <1>3, <1>4, CountedSockFields
<1> HIDE DEF s, j
<1>7. OnlyMoved(s, p, s.moved \cup {t})
  <2>1. s.moved \cup {t} \in SUBSET User
    BY <1>2, <1>5
  <2> QED BY <1>5, <2>1, MarkFields, Zenon DEF Marked
<1> HIDE DEF p
<1>8. /\ p \in NetRec /\ p.conn = net.conn /\ p.list = net.list /\ p.moved = net.moved \cup {t}
      /\ p.want = net.want /\ p.sig = net.sig /\ p.ans = net.ans
      /\ p.sock[fd] = j /\ \A f \in Fd : f # fd => p.sock[f] = net.sock[f]
  BY <1>5, <1>7 DEF OnlyMoved
<1>9. \A f \in Fd : \A z : Asks(p, z, f) => Asks(net, z, f)
  BY <1>4, <1>6, <1>8 DEF Asks
<1>10. \A f \in Fd : p.sock[f].conn = net.sock[f].conn /\ p.sock[f].waiting = net.sock[f].waiting
  BY <1>6, <1>8
<1>11. Handled(net, p, c)
  <2>1. LinkSame(net, p)
    BY <1>8, <1>10 DEF LinkSame
  <2>2. SelKept(net, p)
    BY <1>8, <1>9, <1>10 DEF SelKept
  <2> QED BY <1>1, <1>8, <2>1, <2>2 DEF Handled
<1>12. Moved(u, q, "look")
  <2>1. "look" \in Pcs
    BY DEF Pcs
  <2> QED BY <1>1, <2>1, MoveFields
<1> HIDE DEF q
<1>13. /\ q \in UserRec /\ q.pc = "look" /\ q.op = u.op /\ q.fd = u.fd /\ q.new = u.new
       /\ q.conn = u.conn /\ ~Engaged(q) /\ ~Fetched(q) /\ ~Closing(q) /\ ~Making(q)
       /\ Brought(q) = Brought(u)
  BY <1>12 DEF Moved, Engaged, Fetched, Closing, Making, Brought
<1>14. net.conn[c].msg = NoUser /\ net.conn[c].done = 0 /\ net.conn[c].state \in {"NONE", "LISTEN"}
  BY <1>0, <1>1, Quiet, Zenon
<1>15. ConnSane(p.conn[c]) /\ Bounds(p.conn[c])
  BY <1>1, <1>8 DEF SockInv, Types, Conns
<1>16. HeardOf(p, x, c)
  BY <1>8, <1>14 DEF HeardOf
<1>17. MyCount(p, q, c)
  <2>1. fd \in Int /\ fd >= 0 /\ ~(fd < 0)
    BY <1>1, FdFacts
  <2>2. Due(u, fd) = 1 /\ Due(q, fd) = 0
    BY <1>0, <1>1, <1>13, <2>1 DEF Due
  <2>3. Raw(p, c) = k.rcvevent - 1 /\ Raw(net, c) = k.rcvevent
    BY <1>1, <1>6, <1>8, <2>1 DEF Raw
  <2>4. k.rcvevent - 1 - 0 = k.rcvevent - 1
    BY <1>4
  <2>5. SUFFICES ASSUME net.conn[c].used, ~net.conn[c].fatal
                 PROVE  Raw(p, c) - 0 = Len(net.conn[c].recvmbox) + Len(net.conn[c].acceptmbox)
    BY <1>1, <1>8, <2>2, Zenon DEF MyCount
  <2>6. Raw(net, c) - 1 = Len(net.conn[c].recvmbox) + Len(net.conn[c].acceptmbox)
    BY <1>1, <2>2, <2>5, Zenon DEF MyCount
  <2> QED BY <2>3, <2>4, <2>6, Zenon
<1>18. Writable(p, c)
  <2>1. Writable(net, c)
    BY <1>1 DEF SockInv, Counts
  <2>2. p.sock[fd].sendevent = net.sock[fd].sendevent
    BY <1>6, <1>8
  <2> QED BY <1>1, <1>8, <2>1, <2>2 DEF Writable
<1>19. TaskMoves(net, p, user, t, q, c)
  <2>1. Shape(q)
    BY <1>0, <1>1, <1>2, <1>13 DEF Shape, Engaged, OnFd
  <2>2. Hears(p, t, q) /\ Stage(p, t, q) /\ SlotFresh(p, q)
    BY <1>1, <1>13 DEF Hears, Stage, SlotFresh, Engaged
  <2>3. FdStep(net, user, t, q)
    BY <1>0, <1>13 DEF FdStep
  <2>4. t \in p.moved /\ \A v \in User : v \in net.moved => v \in p.moved
    BY <1>8
  <2>5. OnIt(net, q, {c})
    BY <1>13 DEF OnIt
  <2>6. \A v \in User : v # t => p.ans[v] = net.ans[v]
    BY <1>8
  <2> QED BY <1>1, <1>13, <2>1, <2>2, <2>3, <2>4, <2>5, <2>6 DEF TaskMoves, TaskOK
<1>20. SockInv(p, x)
  BY <1>1, <1>11, <1>13, <1>15, <1>16, <1>17, <1>18, <1>19, CallStep
<1>21. SockInv(Marked(s, t), [user EXCEPT ![t] = [user[t] EXCEPT !.pc = "look"]])
  BY <1>20 DEF p, q
<1>22. s.sock[user[t].fd].conn = ConnOf(user[t].fd)
  BY <1>0, <1>5, <1>6 DEF ConnOf
<1>23. Resume(t, s) \/ Look(t, s, 1)
  BY DEF RcvMinus, s
<1>24. CASE Resume(t, s)
  BY <1>2, <1>5, <1>21, <1>22, <1>24, ResumeKeeps, Zenon
<1>25. CASE Look(t, s, 1)
  <2>1. 1 \in Nat \ {0}
    OBVIOUS
  <2> QED BY <1>2, <1>5, <1>21, <1>22, <1>25, <2>1, LookKeeps, Zenon
<1> QED BY <1>23, <1>24, <1>25

=============================================================================
