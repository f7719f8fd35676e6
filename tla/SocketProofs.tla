---------------------------- MODULE SocketProofs ----------------------------
(***************************************************************************)
(* Proofs about the sockets of the application tasks, second part: the     *)
(* calls that make, accept and delete netconns and descriptors, select(),  *)
(* and the theorems, for any number of tasks, netconns and descriptors,    *)
(* any size of the mailboxes and buffers and any programs, if no two tasks *)
(* use one descriptor at a time.                                           *)
(***************************************************************************)
EXTENDS SocketSteps

-----------------------------------------------------------------------------
(* A netconn is deleted: do_delconn.                                       *)

(* The connections in the queue of a listener.                             *)
Queued(s, c) == {s.conn[c].acceptmbox[i] : i \in 1 .. Len(s.conn[c].acceptmbox)}

(* From s to e netconn c becomes m and those in its queue are freed.       *)
Drained(s, e, c, m) ==
  /\ e \in NetRec /\ e.conn[c] = m
  /\ \A d \in Conn : d # c /\ d \in Queued(s, c) => e.conn[d] = FreeConn
  /\ \A d \in Conn : d # c /\ d \notin Queued(s, c) => e.conn[d] = s.conn[d]
  /\ e.sock = s.sock /\ e.list = s.list /\ e.moved = s.moved
  /\ e.want = s.want /\ e.sig = s.sig /\ e.ans = s.ans

(* Its mailboxes are gone.                                                 *)
EmptyBox(n) ==
  [n EXCEPT !.recvOk = FALSE, !.recvmbox = <<>>, !.acceptOk = FALSE, !.acceptmbox = <<>>]

(* A free netconn.                                                         *)
LEMMA FreeFields ==
  /\ FreeConn \in ConnRec /\ ConnSane(FreeConn) /\ Bounds(FreeConn) /\ FreeConn.used = FALSE
  /\ FreeConn.socket = -1 /\ FreeConn.acceptmbox = <<>> /\ FreeConn.msg = NoUser
  /\ FreeConn.done = 0 /\ FreeConn.state = "NONE" /\ FreeConn.pcb = "none"
  /\ FreeConn.recvOk = FALSE /\ FreeConn.acceptOk = FALSE
<1>1. /\ FreeConn.used = FALSE /\ FreeConn.type = "tcp" /\ FreeConn.pcb = "none"
      /\ FreeConn.state = "NONE" /\ FreeConn.socket = -1 /\ FreeConn.recvOk = FALSE
      /\ FreeConn.recvmbox = <<>> /\ FreeConn.acceptOk = FALSE /\ FreeConn.acceptmbox = <<>>
      /\ FreeConn.fatal = FALSE /\ FreeConn.snd = 0 /\ FreeConn.left = 0 /\ FreeConn.msg = NoUser
      /\ FreeConn.done = 0
  BY DEF FreeConn, netconn_alloc
<1>2. /\ <<>> \in Seq({"data", "null"}) /\ <<>> \in Seq(Conn) /\ "none" \in Pcbs
      /\ "NONE" \in Busy \cup {"NONE", "LISTEN"} /\ -1 \in Int /\ 0 \in 0 .. SndBuf /\ 0 \in Nat
      /\ NoUser \in User \cup {NoUser} /\ FALSE \in BOOLEAN /\ TRUE \in BOOLEAN
      /\ "tcp" \in {"tcp", "udp"}
  BY SocketAssumption, EmptySeq DEF Pcbs
<1>3. FreeConn \in ConnRec
  BY <1>2, Zenon DEF FreeConn, netconn_alloc, ConnRec
<1>4. ConnSane(FreeConn)
  BY <1>1 DEF ConnSane, Busy, Live
<1>5. Bounds(FreeConn)
  BY <1>1, SocketAssumption, EmptySeq DEF Bounds
<1> QED BY <1>1, <1>3, <1>4, <1>5

(* netconn_drain *)
LEMMA DrainFields ==
  ASSUME NEW s \in NetRec, NEW c \in Conn, c \notin Queued(s, c)
  PROVE  EmptyBox(s.conn[c]) \in ConnRec
         /\ Drained(s, netconn_drain(s, c), c, EmptyBox(s.conn[c]))
<1> DEFINE f == [d \in Conn |-> IF d \in Queued(s, c) THEN FreeConn ELSE s.conn[d]]
           b == [s EXCEPT !.conn = f]
           m == EmptyBox(s.conn[c])
           e == PutConn(b, c, m)
<1>1. s.conn \in [Conn -> ConnRec] /\ s.conn[c] \in ConnRec
  BY NetFields
<1>2. f \in [Conn -> ConnRec]
  BY <1>1, FreeFields
<1>3. f[c] = s.conn[c]
  OBVIOUS
<1>4. m \in ConnRec
  <2>1. <<>> \in Seq({"data", "null"}) /\ <<>> \in Seq(Conn)
    BY EmptySeq
  <2> QED BY <1>1, <2>1, Zenon DEF EmptyBox, ConnRec
<1>5. b \in NetRec /\ b.conn = f /\ b.sock = s.sock /\ b.list = s.list /\ b.moved = s.moved
      /\ b.want = s.want /\ b.sig = s.sig /\ b.ans = s.ans
  <2> HIDE DEF f
  <2> QED BY <1>2, Zenon DEF NetRec
<1>6. netconn_drain(s, c) = [b EXCEPT !.conn[c].recvOk = FALSE, !.conn[c].recvmbox = <<>>,
                                      !.conn[c].acceptOk = FALSE, !.conn[c].acceptmbox = <<>>]
  BY Zenon DEF netconn_drain, Queued, NetRec
<1>7. netconn_drain(s, c) = PutConn(b, c, EmptyBox(b.conn[c]))
  <2> DEFINE h == [b EXCEPT !.conn[c].recvOk = FALSE, !.conn[c].recvmbox = <<>>]
             n == b.conn[c]
             k == [n EXCEPT !.recvOk = FALSE, !.recvmbox = <<>>]
             l == [k EXCEPT !.acceptOk = FALSE, !.acceptmbox = <<>>]
  <2> HIDE DEF b, f, m
  <2>1. b \in NetRec /\ n \in ConnRec
    BY <1>5, NetFields
  <2>2. h = PutConn(b, c, k)
    BY <2>1, Zenon DEF PutConn, NetRec
  <2>3. k \in ConnRec
    <3>1. <<>> \in Seq({"data", "null"})
      BY EmptySeq
    <3> QED BY <2>1, <3>1, Zenon DEF ConnRec
  <2>4. netconn_drain(s, c) = [h EXCEPT !.conn[c].acceptOk = FALSE, !.conn[c].acceptmbox = <<>>]
    BY <1>6
  <2>5. EmptyBox(n) = l
    BY <2>1, Zenon DEF EmptyBox, ConnRec
  <2> HIDE DEF k, h
  <2>6. h \in NetRec /\ h.conn[c] = k
    <3>1. OnlyConn(b, PutConn(b, c, k), c, k)
      BY <2>1, <2>3, PutConnFields
    <3> QED BY <2>2, <3>1 DEF OnlyConn
  <2>7. netconn_drain(s, c) = PutConn(h, c, l)
    BY <2>4, <2>6, Zenon DEF PutConn, NetRec
  <2> HIDE DEF l, n
  <2>8. PutConn(h, c, l) = PutConn(b, c, l)
    BY <2>1, <2>2, PutAgain
  <2> QED BY <2>5, <2>7, <2>8 DEF n
<1>8. netconn_drain(s, c) = e
  BY <1>3, <1>5, <1>7
<1> HIDE DEF b, m
<1>9. OnlyConn(b, e, c, m)
  BY <1>4, <1>5, PutConnFields
<1> HIDE DEF e
<1>10. \A d \in Conn : d # c => e.conn[d] = f[d]
  BY <1>5, <1>9 DEF OnlyConn
<1>11. Drained(s, e, c, m)
  BY <1>5, <1>9, <1>10 DEF Drained, OnlyConn
<1> QED BY <1>4, <1>8, <1>11 DEF m

(* A queued connection is nobody's but the listener's.                     *)
LEMMA QueuedFacts ==
  ASSUME NEW s, NEW w, Types(s, w), Conns(s), Links(s, w), NEW c \in Conn, NEW d \in Queued(s, c)
  PROVE  /\ d \in Conn /\ s.conn[d].used /\ s.conn[d].socket < 0 /\ d # c /\ s.conn[c].socket >= 0
         /\ s.conn[d].acceptmbox = <<>> /\ \A t \in User : Brought(w[t]) # d
         /\ \A e \in Conn : \A j \in 1 .. Len(s.conn[e].acceptmbox) :
              s.conn[e].acceptmbox[j] = d => e = c
<1>1. PICK i \in 1 .. Len(s.conn[c].acceptmbox) : d = s.conn[c].acceptmbox[i]
  BY DEF Queued
<1>2. s \in NetRec /\ s.conn[c].acceptmbox \in Seq(Conn)
  BY Entries DEF Types
<1>3. d \in Conn
  BY <1>1, <1>2
<1>4. Boxed(s, w, c, i)
  BY <1>1 DEF Links, Boxes
<1>5. s.conn[c].acceptmbox # <<>>
  BY <1>1, <1>2
<1>6. s.conn[c].socket \in Int /\ s.conn[c].socket >= 0
  BY <1>2, <1>5, Entries DEF Conns, ConnSane
<1>7. s.conn[d].socket \in Int /\ s.conn[d].socket < 0 /\ s.conn[d].used
  BY <1>1, <1>2, <1>3, <1>4, Entries DEF Boxed
<1>8. d # c
  BY <1>6, <1>7
<1>9. s.conn[d].acceptmbox = <<>>
  BY <1>3, <1>7 DEF Conns, ConnSane
<1> QED BY <1>1, <1>3, <1>4, <1>6, <1>7, <1>8, <1>9 DEF Boxed

(* From s to e netconn c and its queue are left with no queue.             *)
Purged(s, e, c) ==
  /\ \A d \in Conn : d # c /\ d \in Queued(s, c) => e.conn[d] = FreeConn
  /\ \A d \in Conn : d # c /\ d \notin Queued(s, c) => e.conn[d] = s.conn[d]
  /\ e.conn[c].used = s.conn[c].used /\ e.conn[c].acceptmbox = <<>>
  /\ s.conn[c].socket >= 0 => e.conn[c].socket = s.conn[c].socket
  /\ s.conn[c].socket < 0 => e.conn[c].socket < 0
  /\ \A f \in Fd : e.sock[f].conn = s.sock[f].conn

(* What is queued is freed with its queue; nothing else changes hands.     *)
LEMMA PurgeLinks ==
  ASSUME NEW s, NEW e, NEW x, Types(s, x), e \in NetRec, Conns(s), Links(s, x), NEW c \in Conn,
         Purged(s, e, c)
  PROVE  Links(e, x)
<1> DEFINE Q == Queued(s, c)
<1>1. s \in NetRec /\ \A t \in User : x[t] \in UserRec
  BY DEF Types
<1>2. \A d \in Q : /\ d \in Conn /\ s.conn[d].used /\ s.conn[d].socket < 0 /\ d # c
                   /\ s.conn[d].acceptmbox = <<>> /\ \A t \in User : Brought(x[t]) # d
                   /\ \A k \in Conn : \A j \in 1 .. Len(s.conn[k].acceptmbox) :
                        s.conn[k].acceptmbox[j] = d => k = c
  BY QueuedFacts
<1>3. \A d \in Conn : s.conn[d].socket \in Int /\ e.conn[d].socket \in Int
                      /\ s.conn[d].acceptmbox \in Seq(Conn)
  BY <1>1, Entries
<1>4. /\ FreeConn.used = FALSE /\ FreeConn.socket = -1 /\ FreeConn.acceptmbox = <<>>
  BY FreeFields
<1>5. \A d \in Conn : s.conn[d].socket >= 0 => e.conn[d].socket = s.conn[d].socket /\ d \notin Q
  BY <1>2, <1>3 DEF Purged
<1>6. \A d \in Conn : s.conn[d].socket < 0 => e.conn[d].socket < 0
  BY <1>2, <1>3, <1>4 DEF Purged
<1>7. \A d \in Conn : d \notin Q => e.conn[d].used = s.conn[d].used
  BY DEF Purged
<1>8. \A d \in Conn : d \in Q => ~e.conn[d].used
  BY <1>2, <1>4 DEF Purged
<1>9. \A d \in Conn : \/ e.conn[d].acceptmbox = <<>>
                      \/ d # c /\ d \notin Q /\ e.conn[d].acceptmbox = s.conn[d].acceptmbox
  BY <1>2, <1>4 DEF Purged
<1>10. \A f \in Fd : e.sock[f].conn = s.sock[f].conn /\ s.sock[f].conn \in Conn \cup {NoFd}
  BY <1>1, Entries DEF Purged
<1>11. \A d \in Conn : e.conn[d].socket >= 0 => e.conn[d].socket = s.conn[d].socket
  BY <1>3, <1>5, <1>6
<1> HIDE DEF Q
<1>12. SockConn(e)
  <2> SUFFICES ASSUME NEW d \in Conn, e.conn[d].socket >= 0
               PROVE  e.sock[e.conn[d].socket].conn = d
    BY DEF SockConn
  <2>1. s.conn[d].socket >= 0 /\ e.conn[d].socket = s.conn[d].socket
    BY <1>11
  <2>2. s.sock[s.conn[d].socket].conn = d
    BY <2>1 DEF Links, SockConn
  <2>3. s.conn[d].socket \in Fd
    BY <1>3, <2>1, SocketAssumption DEF Types, Bounds, Fd
  <2> QED BY <1>10, <2>1, <2>2, <2>3
<1>13. ASSUME NEW t \in User PROVE Holds(e, x[t])
  <2> SUFFICES ASSUME x[t].fd # NoFd
               PROVE  /\ e.sock[x[t].fd].conn # NoFd
                      /\ x[t].pc # "free" => e.conn[e.sock[x[t].fd].conn].socket = x[t].fd
                      /\ x[t].pc = "free" => \A d \in Conn : e.conn[d].socket # x[t].fd
    BY DEF Holds
  <2>1. x[t].fd \in Fd /\ x[t].fd >= 0
    BY <1>1, UserFields, FdFacts
  <2>2. /\ s.sock[x[t].fd].conn # NoFd
        /\ x[t].pc # "free" => s.conn[s.sock[x[t].fd].conn].socket = x[t].fd
        /\ x[t].pc = "free" => \A d \in Conn : s.conn[d].socket # x[t].fd
    BY <1>13 DEF Links, Holds
  <2>3. e.sock[x[t].fd].conn = s.sock[x[t].fd].conn /\ s.sock[x[t].fd].conn \in Conn
    BY <1>10, <2>1, <2>2
  <2>4. x[t].pc # "free" => e.conn[e.sock[x[t].fd].conn].socket = x[t].fd
    BY <1>5, <2>1, <2>2, <2>3, Zenon
  <2>5. x[t].pc = "free" => \A d \in Conn : e.conn[d].socket # x[t].fd
    BY <1>11, <2>1, <2>2
  <2> QED BY <2>2, <2>3, <2>4, <2>5
<1>14. ASSUME NEW t \in User PROVE Brings(e, x[t])
  <2>1. Brings(s, x[t]) /\ Brought(x[t]) \in Conn \cup {NoFd} /\ x[t].new \in Fd \cup {NoFd}
    BY <1>1, <1>14, UserFields DEF Links
  <2>2. Brought(x[t]) \notin Q
    BY <1>2, <1>14
  <2> QED BY <1>6, <1>7, <1>10, <2>1, <2>2 DEF Brings
<1>15. Boxes(e, x)
  <2> SUFFICES ASSUME NEW d \in Conn, NEW i \in 1 .. Len(e.conn[d].acceptmbox)
               PROVE  Boxed(e, x, d, i)
    BY DEF Boxes
  <2>1. d # c /\ d \notin Q /\ e.conn[d].acceptmbox = s.conn[d].acceptmbox
    BY <1>9
  <2> DEFINE b == s.conn[d].acceptmbox[i]
  <2>2. Boxed(s, x, d, i) /\ b \in Conn
    BY <1>3, <2>1 DEF Links, Boxes
  <2>3. b \notin Q
    BY <1>2, <2>1
  <2>4. s.conn[b].used /\ s.conn[b].socket < 0 /\ \A t \in User : Brought(x[t]) # b
    BY <2>2 DEF Boxed
  <2>5. e.conn[b].used /\ e.conn[b].socket < 0
    BY <1>6, <1>7, <2>2, <2>3, <2>4
  <2>6. \A k \in Conn : \A j \in 1 .. Len(e.conn[k].acceptmbox) :
          e.conn[k].acceptmbox[j] = b => k = d /\ j = i
    BY <1>9, <2>2 DEF Boxed
  <2> QED BY <2>1, <2>4, <2>5, <2>6 DEF Boxed
<1>16. OwnersExist(e, x)
  <2> SUFFICES ASSUME NEW k \in Conn, e.conn[k].used
               PROVE  HasOwner(e, x, k)
    BY DEF OwnersExist
  <2>1. k \notin Q /\ s.conn[k].used
    BY <1>7, <1>8
  <2>2. HasOwner(s, x, k)
    BY <2>1 DEF Links, OwnersExist
  <2>3. CASE InBox(s, k)
    <3>1. PICK d \in Conn : \E i \in 1 .. Len(s.conn[d].acceptmbox) : s.conn[d].acceptmbox[i] = k
      BY <2>3 DEF InBox
    <3>2. PICK i \in 1 .. Len(s.conn[d].acceptmbox) : s.conn[d].acceptmbox[i] = k
      BY <3>1
    <3>3. d # c
      BY <2>1, <3>2 DEF Q, Queued
    <3>4. d \notin Q
      BY <1>2, <3>2
    <3>5. e.conn[d].acceptmbox = s.conn[d].acceptmbox
      BY <3>3, <3>4 DEF Purged, Q
    <3> QED BY <3>2, <3>5 DEF HasOwner, InBox
  <2> QED BY <1>5, <2>2, <2>3 DEF HasOwner
<1>17. SocksTaken(e, x)
  <2> SUFFICES ASSUME NEW f \in Fd, e.sock[f].conn # NoFd
               PROVE  SockTaken(e, x, f)
    BY DEF SocksTaken
  <2>1. s.sock[f].conn = e.sock[f].conn /\ s.sock[f].conn \in Conn
    BY <1>10
  <2>2. SockTaken(s, x, f) /\ f >= 0
    BY <2>1, FdFacts DEF Links, SocksTaken
  <2> QED BY <1>5, <2>1, <2>2 DEF SockTaken
<1> QED BY <1>12, <1>13, <1>14, <1>15, <1>16, <1>17 DEF Links

(* From s to e netconn c loses its mailboxes and its queue.                *)
Cut(s, e, c) ==
  /\ e \in NetRec /\ Purged(s, e, c) /\ SelKept(s, e) /\ e.moved = s.moved
  /\ \A f \in Fd : f # s.conn[c].socket => e.sock[f] = s.sock[f]

(* The deletion of netconn c is answered, or waits for the FIN.            *)
Leaving(e, t, c) ==
  /\ ConnSane(e.conn[c]) /\ Bounds(e.conn[c]) /\ Deleting(e.conn[c]) /\ Writable(e, c)
  /\ \/ e.conn[c].done = 1 /\ e.ans[t] # "unset" /\ e.conn[c].msg = NoUser
     \/ e.conn[c].msg = t /\ e.ans[t] = "unset"

(* A task posts the deletion of a netconn that only it has to do with.     *)
LEMMA DeleteStep ==
  ASSUME NEW s, NEW w, SockInv(s, w), NEW t \in User, NEW c \in Conn, Private(s, w, t, c),
         NEW e, Cut(s, e, c), Leaving(e, t, c),
         \A v \in User : v # t => e.ans[v] = s.ans[v],
         NEW u \in UserRec, NEW x, x = [w EXCEPT ![t] = u], Shape(u),
         u.pc = "await", u.fn = "delconn", u.conn = c, u.new = NoFd,
         u.op \in {"close", "socket", "accept"}, FdStep(s, w, t, u),
         u.op = "close" => /\ u.fd \in Fd /\ s.sock[u.fd].conn = c
                           /\ \A z \in User : u.fd \notin WantsOf(s, z),
         OnIt(s, w[t], {c}), w[t].op # "select"
  PROVE  SockInv(e, x)
<1> DEFINE C == {c} \cup Queued(s, c)
           F == {s.conn[c].socket}
<1>1. /\ s \in NetRec /\ w \in [User -> UserRec] /\ e \in NetRec /\ Types(s, w) /\ Conns(s)
      /\ Links(s, w) /\ AllApart(w) /\ SockConn(s) /\ Selects(s, w)
  BY DEF SockInv, Types, Cut, Links
<1>2. x \in [User -> UserRec] /\ x[t] = u /\ \A v \in User : v # t => x[v] = w[v]
  BY <1>1
<1>3. Types(s, x) /\ LinkSame(s, s)
  <2>1. Types(s, x)
    BY <1>1, <1>2 DEF Types
  <2>2. \A d \in Conn : s.conn[d].socket \in Int
    BY <1>1, Entries
  <2> QED BY <2>1, <2>2 DEF LinkSame
<1>4. AllApart(x) /\ Links(s, x)
  BY <1>1, <1>3, LinkStep, Zenon
<1>5. Links(e, x)
  BY <1>1, <1>3, <1>4, PurgeLinks DEF Cut
<1>6. \A d \in Queued(s, c) : /\ d \in Conn /\ s.conn[d].used /\ s.conn[d].socket < 0 /\ d # c
                              /\ \A v \in User : Brought(w[v]) # d
  BY <1>1, QueuedFacts
<1>7. C \in SUBSET Conn
  BY <1>6
<1>8. s.conn[c].socket \in Int
  BY <1>1, Entries
<1>9. OnlyOn(s, e, C, F)
  <2>1. \A d \in Conn : d \notin C => e.conn[d] = s.conn[d]
    BY DEF Cut, Purged
  <2>2. \A f \in Fd : f \notin F => e.sock[f] = s.sock[f]
    BY DEF Cut
  <2>3. \A f \in Fd : f \in F => s.sock[f].conn \in C \cup {NoFd}
    BY <1>1, FdFacts DEF SockConn
  <2> QED BY <1>1, <2>1, <2>2, <2>3 DEF OnlyOn
<1>10. ASSUME NEW d \in Queued(s, c) PROVE Private(s, w, t, d) /\ ConnOK(e, x, d)
  <2>1. Private(s, w, t, d)
    BY <1>6, <1>10, PrivateNew
  <2>2. e.conn[d] = FreeConn
    BY <1>6, <1>10 DEF Cut, Purged
  <2>3. /\ ConnSane(FreeConn) /\ Bounds(FreeConn) /\ FreeConn.used = FALSE
        /\ FreeConn.socket = -1 /\ FreeConn.msg = NoUser
        /\ FreeConn.done = 0 /\ FreeConn.state = "NONE"
    BY FreeFields
  <2>4. HeardOf(e, x, d)
    BY <2>2, <2>3 DEF HeardOf
  <2>5. CountOf(e, x, d) /\ Writable(e, d)
    <3>1. ~e.conn[d].used /\ ~(e.conn[d].socket >= 0)
      BY <2>2, <2>3
    <3> QED BY <3>1, Zenon DEF CountOf, Writable
  <2> QED BY <2>1, <2>2, <2>3, <2>4, <2>5 DEF ConnOK
<1>11. ConnOK(e, x, c)
  <2>1. HeardOf(e, x, c)
    <3>1. e.conn[c].msg # NoUser => e.conn[c].msg = t
      BY DEF Leaving
    <3>2. e.conn[c].state = "CLOSE" => e.conn[c].msg = t
      BY <3>1 DEF Leaving, ConnSane, Busy
    <3> QED BY <1>2, <3>1, <3>2 DEF HeardOf
  <2>2. CountOf(e, x, c)
    BY <1>2 DEF CountOf, Unclosed, Closing, Engaged
  <2> QED BY <2>1, <2>2 DEF ConnOK, Leaving
<1>12. \A d \in C : Private(s, w, t, d) /\ ConnOK(e, x, d)
  BY <1>10, <1>11, Zenon
<1>13. OnIt(s, w[t], C) /\ OnIt(s, u, C)
  BY DEF OnIt, Fetched
<1>14. TaskOK(e, t, u)
  <2>1. Hears(e, t, u)
    <3>1. u.op = "close" => u.conn = e.sock[u.fd].conn
      BY DEF Cut, Purged
    <3> QED BY <3>1 DEF Hears, Leaving
  <2>2. Stage(e, t, u)
    BY DEF Stage, Leaving, Making
  <2>3. SlotFresh(e, u)
    BY DEF SlotFresh
  <2> QED BY <2>1, <2>2, <2>3 DEF TaskOK
<1>15. WantKept(s, e)
  <2> SUFFICES ASSUME NEW z \in User, NEW fd \in WantsOf(s, z)
               PROVE  e.sock[fd].conn # NoFd /\ e.conn[e.sock[fd].conn].socket = fd
    BY DEF WantKept
  <2>1. fd \in Fd /\ fd >= 0 /\ ~(fd < 0)
    BY <1>1, WantsAreFds, FdFacts
  <2>2. s.sock[fd].conn # NoFd /\ s.conn[s.sock[fd].conn].socket = fd
    BY <1>1 DEF Selects, Wanted
  <2>3. e.sock[fd].conn = s.sock[fd].conn /\ s.sock[fd].conn \in Conn
    BY <1>1, <2>1, <2>2, Entries DEF Cut, Purged
  <2>4. s.sock[fd].conn \notin Queued(s, c)
    BY <1>6, <2>1, <2>2
  <2>5. e.conn[s.sock[fd].conn].socket = fd
    BY <2>1, <2>2, <2>3, <2>4 DEF Cut, Purged
  <2> QED BY <2>2, <2>3, <2>5
<1>16. SelOK(s, e, w, t, u)
  BY <1>15 DEF SelOK, Cut
<1> HIDE DEF C, F
<1>17. TaskDone(s, w, e, x, t, u, C, F)
  BY <1>4, <1>5, <1>7, <1>9, <1>12, <1>13, <1>14, <1>16, Zenon DEF TaskDone
<1> QED BY ONLY SockInv(s, w), <1>17, TaskStep

(* The queue is emptied, and the stack goes on with netconn c.             *)
LEMMA CutTouch ==
  ASSUME NEW s, NEW w, SockInv(s, w), NEW t \in User, NEW c \in Conn, NEW m,
         m.used = s.conn[c].used, m.socket = s.conn[c].socket,
         NEW g, Drained(PutAns(s, t, "unset"), g, c, m), NEW e, Touch(g, e, c),
         e.conn[c].used = m.used, e.conn[c].acceptmbox = <<>>
  PROVE  Cut(s, e, c) /\ (e.conn[c].socket < NumConn)
<1> DEFINE a == PutAns(s, t, "unset")
<1>1. s \in NetRec /\ s.conn[c].socket \in Int /\ s.conn[c].socket < NumConn
  BY ConnFacts, Entries DEF Bounds
<1>2. OnlyAns(s, a, [s.ans EXCEPT ![t] = "unset"])
  BY <1>1, PutAnsFields, Zenon
<1> HIDE DEF a
<1>3. /\ a.conn = s.conn /\ a.sock = s.sock /\ a.list = s.list /\ a.moved = s.moved
      /\ a.want = s.want /\ a.sig = s.sig
  BY <1>2 DEF OnlyAns
<1>4. Queued(a, c) = Queued(s, c)
  BY <1>3 DEF Queued
<1>5. Drained(a, g, c, m)
  BY DEF a
<1>6. /\ g \in NetRec /\ g.conn[c] = m
      /\ \A d \in Conn : d # c /\ d \in Queued(s, c) => g.conn[d] = FreeConn
      /\ \A d \in Conn : d # c /\ d \notin Queued(s, c) => g.conn[d] = s.conn[d]
      /\ g.sock = s.sock /\ g.list = s.list /\ g.moved = s.moved
      /\ g.want = s.want /\ g.sig = s.sig
  BY <1>3, <1>4, <1>5 DEF Drained
<1>7. e.conn[c].socket \in Int /\ e \in NetRec
  BY Entries DEF Touch
<1>8. /\ s.conn[c].socket >= 0 => e.conn[c].socket = s.conn[c].socket
      /\ s.conn[c].socket < 0 => e.conn[c].socket <= s.conn[c].socket
  BY <1>6 DEF Touch
<1>9. Purged(s, e, c)
  <2>1. \A f \in Fd : e.sock[f].conn = s.sock[f].conn
    BY <1>6 DEF Touch
  <2>2. \A d \in Conn : d # c => e.conn[d] = g.conn[d]
    BY DEF Touch
  <2>3. s.conn[c].socket < 0 => e.conn[c].socket < 0
    BY <1>1, <1>7, <1>8
  <2> QED BY <1>6, <1>8, <2>1, <2>2, <2>3 DEF Purged
<1>10. SelKept(s, e)
  <2>1. e.list = s.list /\ e.want = s.want /\ s.sig \subseteq e.sig
    BY <1>6 DEF Touch
  <2>2. \A f \in Fd : e.sock[f].waiting = s.sock[f].waiting
    BY <1>6 DEF Touch
  <2>3. Listed(g) = Listed(s)
    BY <1>6 DEF Listed
  <2>4. ASSUME NEW f \in Fd, NEW z \in Listed(s), s.sock[f].waiting # 0, Asks(e, z, f)
        PROVE  Asks(s, z, f) \/ z \in e.sig
    <3>1. Asks(g, z, f) \/ z \in e.sig
      BY <1>6, <2>3, <2>4 DEF Touch
    <3>2. Asks(g, z, f) <=> Asks(s, z, f)
      BY <1>6, AsksSame
    <3> QED BY <3>1, <3>2
  <2> QED BY <2>1, <2>2, <2>4 DEF SelKept
<1>11. \A f \in Fd : f # s.conn[c].socket => e.sock[f] = s.sock[f]
  BY <1>6 DEF Touch
<1>12. e.moved = s.moved
  BY <1>6 DEF Touch
<1>13. e.conn[c].socket < NumConn
  BY <1>1, <1>7, <1>8, SocketAssumption
<1> QED BY <1>7, <1>9, <1>10, <1>11, <1>12, <1>13 DEF Cut

(* The mailboxes are gone, the rest of the netconn stays.                  *)
LEMMA EmptyFields ==
  ASSUME NEW n \in ConnRec
  PROVE  LET m == EmptyBox(n)
         IN  /\ m \in ConnRec /\ m.used = n.used /\ m.type = n.type /\ m.pcb = n.pcb
             /\ m.state = n.state /\ m.socket = n.socket /\ m.fatal = n.fatal /\ m.snd = n.snd
             /\ m.msg = n.msg /\ m.done = n.done
             /\ m.recvOk = FALSE /\ m.acceptOk = FALSE /\ m.recvmbox = <<>> /\ m.acceptmbox = <<>>
<1>1. <<>> \in Seq({"data", "null"}) /\ <<>> \in Seq(Conn)
  BY EmptySeq
<1>2. EmptyBox(n) \in ConnRec
  BY <1>1, Zenon DEF EmptyBox, ConnRec
<1> QED BY <1>2, Zenon DEF EmptyBox, ConnRec

(* After the drain only netconn c changes.                                 *)
LEMMA PutDrained ==
  ASSUME NEW s, NEW d, NEW c \in Conn, NEW k, Drained(s, d, c, k), NEW m \in ConnRec
  PROVE  Drained(s, PutConn(d, c, m), c, m)
<1> DEFINE e == PutConn(d, c, m)
<1>1. OnlyConn(d, e, c, m)
  BY PutConnFields DEF Drained
<1> HIDE DEF e
<1>2. Drained(s, e, c, m)
  BY <1>1 DEF OnlyConn, Drained
<1> QED BY <1>2 DEF e

(* No other task is answered.                                              *)
OthersAns(s, e, t) == \A v \in User : v # t => e.ans[v] = s.ans[v]

(* do_delconn that is answered at once, for a UDP netconn or one without a *)
(* pcb.                                                                    *)
LEMMA GoneLeaves ==
  ASSUME NEW s, NEW w, SockInv(s, w), NEW t \in User, NEW c \in Conn, s.conn[c].used,
         s.conn[c].msg = NoUser, s.conn[c].done = 0, s.conn[c].state = "NONE",
         NEW d, Drained(PutAns(s, t, "unset"), d, c, EmptyBox(s.conn[c])),
         NEW m, m = [EmptyBox(s.conn[c]) EXCEPT !.pcb = "none"], NEW g, g = PutConn(d, c, m),
         NEW e, e = Ack(event_callback(event_callback(g, c, "RCVPLUS"), c, "SENDPLUS"), c, t, "ok")
  PROVE  /\ Cut(s, e, c) /\ Leaving(e, t, c)
         /\ OthersAns(s, e, t)
<1> DEFINE n == s.conn[c]
           k == EmptyBox(n)
           a == PutAns(s, t, "unset")
           h == event_callback(event_callback(g, c, "RCVPLUS"), c, "SENDPLUS")
<1>1. s \in NetRec /\ n \in ConnRec /\ ConnSane(n) /\ Fit(s, c)
  BY ConnFacts
<1>2. /\ k \in ConnRec /\ k.used = n.used /\ k.type = n.type /\ k.pcb = n.pcb
      /\ k.state = n.state /\ k.socket = n.socket /\ k.fatal = n.fatal /\ k.snd = n.snd
      /\ k.msg = n.msg /\ k.done = n.done
      /\ k.recvOk = FALSE /\ k.acceptOk = FALSE /\ k.recvmbox = <<>> /\ k.acceptmbox = <<>>
  BY <1>1, EmptyFields, Zenon
<1> HIDE DEF k
<1>3. /\ m \in ConnRec /\ m.used = k.used /\ m.pcb = "none"
      /\ m.state = k.state /\ m.socket = k.socket /\ m.msg = k.msg /\ m.done = k.done
      /\ m.recvOk = k.recvOk /\ m.acceptOk = k.acceptOk /\ m.recvmbox = k.recvmbox
      /\ m.acceptmbox = k.acceptmbox
  <2>1. m = [k EXCEPT !.pcb = "none"] /\ "none" \in Pcbs
    BY DEF k, Pcbs
  <2> QED BY <1>2, <2>1, Zenon DEF ConnRec
<1>4. OnlyAns(s, a, [s.ans EXCEPT ![t] = "unset"])
  BY <1>1, PutAnsFields, Zenon
<1>5. Drained(a, g, c, m)
  BY <1>3, PutDrained
<1> HIDE DEF a
<1>6. g \in NetRec /\ g.conn[c] = m /\ g.ans = [s.ans EXCEPT ![t] = "unset"] /\ g.sock = s.sock
  BY <1>4, <1>5 DEF Drained, OnlyAns
<1>7. Fit(g, c)
  <2>1. g.conn[c].socket = s.conn[c].socket
    BY <1>2, <1>3, <1>6, Zenon
  <2> QED BY ONLY <1>1, <1>6, <2>1 DEF Fit
<1>8. ToldBoth(g, h, c)
  BY <1>7, BothTold
<1> HIDE DEF h
<1>9. h \in NetRec /\ Alike(m, h.conn[c]) /\ h.ans = g.ans /\ Touch(g, h, c)
  <2>1. h.conn[c] = [m EXCEPT !.socket = h.conn[c].socket]
    BY <1>6, <1>8, Zenon DEF ToldBoth
  <2> QED BY <1>3, <1>8, <2>1, AlikeButSocket, Zenon DEF ToldBoth, Touch
<1>10. Acked(h, e, c, t, "ok")
  <2>1. "ok" \in Results
    BY DEF Results
  <2> QED BY <1>9, <2>1, AckFields DEF h
<1>11. Touch(g, e, c)
  BY <1>6, <1>9, <1>10, TouchTrans DEF Acked
<1> DEFINE b == h.conn[c]
           l == e.conn[c]
<1>12. b \in ConnRec /\ e \in NetRec
  BY <1>9, <1>11, NetFields DEF Touch
<1>13. l = [b EXCEPT !.done = b.done + 1]
  BY <1>10 DEF Acked
<1>14. /\ l.used = b.used /\ l.pcb = b.pcb /\ l.state = b.state /\ l.socket = b.socket
       /\ l.recvOk = b.recvOk /\ l.recvmbox = b.recvmbox /\ l.acceptOk = b.acceptOk
       /\ l.acceptmbox = b.acceptmbox /\ l.msg = b.msg /\ l.done = b.done + 1
  <2> HIDE DEF b, l
  <2> QED BY <1>12, <1>13, Zenon DEF ConnRec
<1>15. /\ l.used /\ l.pcb = "none" /\ l.state = "NONE" /\ ~l.recvOk /\ ~l.acceptOk
       /\ l.recvmbox = <<>> /\ l.acceptmbox = <<>> /\ l.msg = NoUser /\ l.done = 1
       /\ l.used = m.used
  <2>1. b.done = 0 /\ b.msg = NoUser /\ b.state = "NONE" /\ b.used = m.used
    BY <1>2, <1>3, <1>9, Zenon DEF Alike, Kept
  <2>2. b.pcb = "none" /\ b.recvmbox = <<>> /\ b.acceptmbox = <<>>
    BY <1>2, <1>3, <1>9, Zenon DEF Alike, Kept
  <2>3. b.recvOk = FALSE /\ b.acceptOk = FALSE /\ m.used = n.used
    BY <1>2, <1>3, <1>9, Zenon DEF Alike, Kept
  <2>4. l.done = 1
    BY ONLY <1>14, <2>1
  <2>5. n.used
    OBVIOUS
  <2> QED BY <1>14, <2>1, <2>2, <2>3, <2>4, <2>5, Zenon
<1>16. Cut(s, e, c) /\ l.socket < NumConn
  <2>1. m.used = s.conn[c].used /\ m.socket = s.conn[c].socket
    BY <1>2, <1>3, Zenon
  <2>2. Drained(PutAns(s, t, "unset"), g, c, m)
    BY <1>5 DEF a
  <2>3. e.conn[c].used = m.used /\ e.conn[c].acceptmbox = <<>>
    BY <1>15
  <2> QED BY <1>11, <2>1, <2>2, <2>3, CutTouch, Zenon
<1>17. e.ans[t] = "ok" /\ \A v \in User : v # t => e.ans[v] = s.ans[v]
  <2>1. e.ans = [[s.ans EXCEPT ![t] = "unset"] EXCEPT ![t] = "ok"]
    BY <1>6, <1>9, <1>10 DEF Acked
  <2>2. s.ans \in [User -> {"unset", "ok", "err", "fatal"}]
    BY <1>1, NetFields
  <2> QED BY <2>1, <2>2
<1>18. Leaving(e, t, c)
  <2>1. ConnSane(l)
    BY <1>15 DEF ConnSane, Busy, Live
  <2>2. Bounds(l)
    BY <1>15, <1>16, SocketAssumption, EmptySeq DEF Bounds
  <2>3. Deleting(l) /\ Writable(e, c)
    BY <1>15 DEF Deleting, Writable, Live
  <2> QED BY <1>15, <1>17, <2>1, <2>2, <2>3 DEF Leaving
<1> QED BY <1>16, <1>17, <1>18 DEF OthersAns

(* The pcb is about to be closed.                                          *)
Going(n, t) == [EmptyBox(n) EXCEPT !.state = "CLOSE", !.msg = t]
Closes(g, e, c) == \E ok \in BOOLEAN : e = do_close_internal(g, c, ok)

(* do_delconn of a TCP netconn with a pcb.                                 *)
LEMMA CloseLeaves ==
  ASSUME NEW s, NEW w, SockInv(s, w), NEW t \in User, NEW c \in Conn, s.conn[c].used,
         s.conn[c].msg = NoUser, s.conn[c].done = 0, s.conn[c].pcb # "none",
         NEW d, Drained(PutAns(s, t, "unset"), d, c, EmptyBox(s.conn[c])),
         NEW e, Closes(PutConn(d, c, Going(s.conn[c], t)), e, c)
  PROVE  /\ Cut(s, e, c) /\ Leaving(e, t, c)
         /\ OthersAns(s, e, t)
<1> DEFINE n == s.conn[c]
           k == EmptyBox(n)
           a == PutAns(s, t, "unset")
           m == Going(n, t)
           g == PutConn(d, c, m)
           l == e.conn[c]
<1>0. t # NoUser
  BY SocketAssumption
<1>1. s \in NetRec /\ n \in ConnRec /\ ConnSane(n) /\ Fit(s, c) /\ Bounds(n)
  BY ConnFacts
<1>2. /\ k \in ConnRec /\ k.used = n.used /\ k.type = n.type /\ k.pcb = n.pcb
      /\ k.state = n.state /\ k.socket = n.socket /\ k.fatal = n.fatal /\ k.snd = n.snd
      /\ k.msg = n.msg /\ k.done = n.done
      /\ k.recvOk = FALSE /\ k.acceptOk = FALSE /\ k.recvmbox = <<>> /\ k.acceptmbox = <<>>
  BY <1>1, EmptyFields, Zenon
<1> HIDE DEF k, m
<1>3. /\ m \in ConnRec /\ m.used = k.used /\ m.pcb = k.pcb
      /\ m.state = "CLOSE" /\ m.socket = k.socket /\ m.msg = t /\ m.done = k.done
      /\ m.recvOk = k.recvOk /\ m.acceptOk = k.acceptOk /\ m.recvmbox = k.recvmbox
      /\ m.acceptmbox = k.acceptmbox /\ m.snd = k.snd
  <2>1. m = [k EXCEPT !.state = "CLOSE", !.msg = t]
    BY DEF k, m, Going
  <2>2. "CLOSE" \in Busy \cup {"NONE", "LISTEN"} /\ t \in User \cup {NoUser}
    BY DEF Busy
  <2> QED BY <1>2, <2>1, <2>2, Zenon DEF ConnRec
<1>4. OnlyAns(s, a, [s.ans EXCEPT ![t] = "unset"])
  BY <1>1, PutAnsFields, Zenon
<1>5. Drained(a, g, c, m)
  BY <1>3, PutDrained
<1> HIDE DEF a, m, g
<1>6. g \in NetRec /\ g.conn[c] = m /\ g.ans = [s.ans EXCEPT ![t] = "unset"] /\ g.sock = s.sock
  BY <1>4, <1>5 DEF Drained, OnlyAns
<1>7. Fit(g, c)
  <2>1. g.conn[c].socket = s.conn[c].socket
    BY <1>2, <1>3, <1>6, Zenon
  <2> QED BY ONLY <1>1, <1>6, <2>1 DEF Fit
<1>8. (e = g /\ g.conn[c].pcb \in Live) \/ Closed(g, e, c)
  <2>1. g.conn[c].msg \in User
    BY <1>3, <1>6
  <2>2. PICK ok \in BOOLEAN : e = do_close_internal(g, c, ok)
    BY DEF Closes, g, m
  <2> QED BY <1>7, <2>1, <2>2, CloseInternal
<1>9. /\ m.used /\ m.used = n.used /\ m.socket = n.socket /\ m.pcb = n.pcb /\ m.snd = n.snd
      /\ m.done = 0 /\ m.recvOk = FALSE /\ m.acceptOk = FALSE /\ m.recvmbox = <<>>
      /\ m.acceptmbox = <<>>
  BY <1>2, <1>3, Zenon
<1>10. Drained(PutAns(s, t, "unset"), g, c, m)
  BY <1>5 DEF a
<1>11. s.ans \in [User -> {"unset", "ok", "err", "fatal"}]
  BY <1>1, NetFields
<1>12. CASE e = g /\ g.conn[c].pcb \in Live
  <2>1. l = m
    BY <1>6, <1>12
  <2>2. Touch(g, e, c)
    <3>1. g.conn[c].socket \in Int
      BY <1>6, Entries
    <3> QED BY <1>6, <1>12, <3>1 DEF Touch
  <2>3. Cut(s, e, c) /\ l.socket < NumConn
    <3>1. e.conn[c].used = m.used /\ e.conn[c].acceptmbox = <<>>
      BY <1>9, <2>1, Zenon
    <3> QED BY <1>9, <1>10, <2>2, <3>1, CutTouch, Zenon
  <2>4. e.ans[t] = "unset" /\ \A v \in User : v # t => e.ans[v] = s.ans[v]
    BY <1>6, <1>11, <1>12
  <2>5. ConnSane(l)
    BY ONLY <1>0, <1>3, <1>6, <1>9, <1>12, <2>1 DEF ConnSane, Busy, Live
  <2>6. Bounds(l)
    <3>1. l.recvmbox = <<>> /\ l.acceptmbox = <<>>
      BY <1>9, <2>1
    <3> QED BY ONLY <2>3, <3>1, SocketAssumption, EmptySeq DEF Bounds
  <2>7. Deleting(l)
    BY ONLY <1>0, <1>3, <1>9, <2>1 DEF Deleting
  <2>8. Writable(e, c)
    <3>1. Writable(s, c)
      BY DEF SockInv, Counts
    <3> QED BY ONLY <1>6, <1>9, <1>12, <2>1, <3>1 DEF Writable
  <2> QED BY <1>3, <2>1, <2>3, <2>4, <2>5, <2>6, <2>7, <2>8 DEF Leaving, OthersAns
<1>13. CASE Closed(g, e, c)
  <2>1. Touch(g, e, c) /\ Kept(m, l) /\ l.pcb = "none" /\ Ends(g, e, c)
    BY <1>6, <1>13 DEF Closed
  <2>2. /\ l.used = m.used /\ l.recvOk = FALSE /\ l.acceptOk = FALSE /\ l.recvmbox = <<>>
        /\ l.acceptmbox = <<>>
    BY <1>9, <2>1, Zenon DEF Kept
  <2>3. l.msg = NoUser /\ l.state = "NONE" /\ l.done = 1
    BY ONLY <1>6, <1>9, <2>1 DEF Ends
  <2>4. e.ans[t] # "unset" /\ \A v \in User : v # t => e.ans[v] = s.ans[v]
    <3>0. g.conn[c].msg = t
      BY <1>3, <1>6
    <3>1. PICK r \in Results : e.ans = [g.ans EXCEPT ![t] = r]
      BY ONLY <2>1, <3>0 DEF Ends
    <3> QED BY <1>6, <1>11, <3>1 DEF Results
  <2>5. Cut(s, e, c) /\ l.socket < NumConn
    <3>1. e.conn[c].used = m.used /\ e.conn[c].acceptmbox = <<>>
      BY <2>2
    <3> QED BY <1>9, <1>10, <2>1, <3>1, CutTouch, Zenon
  <2>6. ConnSane(l)
    BY ONLY <1>9, <2>1, <2>2, <2>3 DEF ConnSane, Busy, Live
  <2>7. Bounds(l)
    BY <2>2, <2>5, SocketAssumption, EmptySeq DEF Bounds
  <2>8. Deleting(l) /\ Writable(e, c)
    BY ONLY <2>1, <2>2, <2>3 DEF Deleting, Writable, Live
  <2> QED BY <2>3, <2>4, <2>5, <2>6, <2>7, <2>8 DEF Leaving, OthersAns
<1> QED BY <1>8, <1>12, <1>13

Deletes(s, e, c, t) == \E ok \in BOOLEAN : e = do_delconn(s, c, t, ok)

(* do_delconn *)
LEMMA DelconnLeaves ==
  ASSUME NEW s, NEW w, SockInv(s, w), NEW t \in User, NEW c \in Conn, s.conn[c].used,
         s.conn[c].msg = NoUser, s.conn[c].done = 0, s.conn[c].state \in {"NONE", "LISTEN"},
         NEW e, Deletes(PutAns(s, t, "unset"), e, c, t)
  PROVE  /\ Cut(s, e, c) /\ Leaving(e, t, c)
         /\ OthersAns(s, e, t)
<1> DEFINE n == s.conn[c]
           k == EmptyBox(n)
           a == PutAns(s, t, "unset")
           d == netconn_drain(a, c)
<1>1. s \in NetRec /\ n \in ConnRec /\ ConnSane(n)
  BY ConnFacts
<1>2. a \in NetRec /\ a.conn = s.conn
  BY <1>1, UnansweredFields
<1>3. c \notin Queued(a, c)
  <2>1. Queued(a, c) = Queued(s, c)
    BY <1>2 DEF Queued
  <2> QED BY <2>1, QueuedFacts DEF SockInv
<1>4. Drained(a, d, c, k) /\ k \in ConnRec
  <2> HIDE DEF a
  <2> QED BY <1>2, <1>3, DrainFields
<1>5. n.state \in {"NONE", "LISTEN", "CONNECT"} /\ n.type \in {"tcp", "udp"}
  BY <1>1, ConnFields
<1>6. CASE n.type = "tcp" /\ n.pcb # "none"
  <2> DEFINE g == [d EXCEPT !.conn[c].state = "CLOSE", !.conn[c].msg = t]
             m == [k EXCEPT !.state = "CLOSE", !.msg = t]
  <2>1. Closes(g, e, c)
    BY <1>2, <1>5, <1>6 DEF Deletes, Closes, do_delconn
  <2> HIDE DEF d
  <2>2. g = PutConn(d, c, m)
    <3>1. d \in NetRec /\ d.conn[c] = k
      BY <1>4 DEF Drained
    <3> QED BY <3>1, Zenon DEF PutConn, NetRec
  <2> HIDE DEF g
  <2>3. m = Going(s.conn[c], t)
    BY DEF Going
  <2>4. Drained(PutAns(s, t, "unset"), d, c, EmptyBox(s.conn[c])) /\ s.conn[c].pcb # "none"
    BY <1>4, <1>6
  <2>5. Closes(PutConn(d, c, Going(s.conn[c], t)), e, c)
    BY <2>1, <2>2, <2>3
  <2>6. Drained(PutAns(s, t, "unset"), d, c, EmptyBox(s.conn[c]))
    BY <2>4
  <2>7. s.conn[c].pcb # "none"
    BY <2>4
  <2> HIDE DEF m, k, n, a
  <2>8. Cut(s, e, c)
    BY <2>6, <2>7, <2>5, CloseLeaves, Zenon
  <2>9. Leaving(e, t, c)
    BY <2>6, <2>7, <2>5, CloseLeaves, Zenon
  <2>10. OthersAns(s, e, t)
    BY <2>6, <2>7, <2>5, CloseLeaves, Zenon
  <2> QED BY <2>8, <2>9, <2>10
<1>7. CASE ~(n.type = "tcp" /\ n.pcb # "none")
  <2> DEFINE g == [d EXCEPT !.conn[c].pcb = "none"]
             m == [k EXCEPT !.pcb = "none"]
  <2>1. e = Ack(event_callback(event_callback(g, c, "RCVPLUS"), c, "SENDPLUS"), c, t, "ok")
    BY <1>2, <1>5, <1>7 DEF Deletes, do_delconn
  <2>2. n.state = "NONE"
    BY <1>1, <1>5, <1>7 DEF ConnSane
  <2> HIDE DEF d
  <2>3. g = PutConn(d, c, m)
    <3>1. d \in NetRec /\ d.conn[c] = k
      BY <1>4 DEF Drained
    <3> QED BY <3>1, Zenon DEF PutConn, NetRec
  <2> HIDE DEF g
  <2> QED BY <1>4, <2>1, <2>2, <2>3, GoneLeaves
<1> QED BY <1>6, <1>7

(* lwip_close *)
LEMMA CloseKeeps ==
  ASSUME SockInv(net, user), Shared = FALSE, NEW t \in User, lwip_close(t)
  PROVE  SockInv(net', user')
<1>1. PICK fd \in Fd, ok \in BOOLEAN :
        /\ MayCall(t, fd, "close")
        /\ tcpip_apimsg(t, Call(fd, "close"), ConnOf(fd), "delconn",
                        do_delconn(Unanswered(t), ConnOf(fd), t, ok))
  BY DEF lwip_close
<1> DEFINE c == ConnOf(fd)
           u == Waiting(fd, "close", "delconn", c)
           a == PutAns(net, t, "unset")
<1>2. Begun(net, user, t, fd, c)
  BY <1>1, Begins, Zenon
<1>3. /\ c \in Conn /\ net.sock[fd].conn = c /\ net.conn[c].socket = fd /\ user[t] = IdleUser
      /\ net.conn[c].used /\ Private(net, user, t, c) /\ net.conn[c].msg = NoUser
      /\ net.conn[c].done = 0 /\ net.conn[c].state \in {"NONE", "LISTEN"}
      /\ \A v \in User : v # t => user[v].fd # fd
  BY <1>2 DEF Begun
<1>4. net \in NetRec /\ user \in [User -> UserRec]
  BY DEF SockInv, Types
<1>5. Unanswered(t) = a
  BY <1>4, UnansweredFields DEF Unanswered
<1>6. net' = do_delconn(a, c, t, ok) /\ user' = [user EXCEPT ![t] = u]
  BY <1>1, <1>5 DEF tcpip_apimsg, Set, Waiting
<1>7. /\ Cut(net, net', c) /\ Leaving(net', t, c)
      /\ \A v \in User : v # t => net'.ans[v] = net.ans[v]
  <2>1. Deletes(a, net', c, t)
    BY <1>6 DEF Deletes
  <2> QED BY <1>3, <2>1, DelconnLeaves DEF OthersAns
<1>8. Awaits(u, fd, "close", "delconn", c)
  <2>1. "close" \in CallOps /\ "delconn" \in Fns
    BY DEF CallOps, OnFd, Fns
  <2> HIDE DEF c
  <2> QED BY <1>3, <2>1, WaitingFields
<1> HIDE DEF u, c
<1>9. /\ u \in UserRec /\ u.pc = "await" /\ u.op = "close" /\ u.fn = "delconn" /\ u.fd = fd
      /\ u.conn = c /\ u.new = NoFd
  BY <1>8 DEF Awaits
<1>10. fd # NoFd /\ c # NoFd
  BY <1>3, NoFdIsNone
<1>11. Shape(u)
  BY <1>9, <1>10 DEF Shape, Engaged, FnOf, OnFd
<1>12. FdStep(net, user, t, u)
  <2>1. Holds(net, u)
    BY <1>3, <1>9, <1>10 DEF Holds
  <2> QED BY <1>3, <1>9, <2>1, IdleFacts DEF FdStep, Brought
<1>13. \A z \in User : fd \notin WantsOf(net, z)
  <2>1. \A v \in User : v # t => fd \notin WantsOf(net, v)
    BY <1>1 DEF MayCall, WantsOf
  <2>2. Wanted(net, user, t)
    BY DEF SockInv, Selects
  <2>3. net.want[t] = <<{}, {}>>
    BY <1>3, <2>2, IdleFacts DEF Wanted
  <2>4. WantsOf(net, t) = {}
    BY <2>3 DEF WantsOf
  <2> QED BY <2>1, <2>4
<1>14. OnIt(net, user[t], {c}) /\ user[t].op # "select"
  BY <1>3, IdleFacts DEF OnIt
<1> QED BY <1>3, <1>6, <1>7, <1>9, <1>11, <1>12, <1>13, <1>14, DeleteStep, Zenon

(* What the invariant says of socket() and accept() after an answer.       *)
LEMMA MadeFacts ==
  ASSUME NEW s, NEW w, SockInv(s, w), NEW t \in User, w[t].pc = "back", w[t].fn \in {"new", "peer"},
         NEW c, c = w[t].conn
  PROVE  /\ w[t] \in UserRec /\ w[t].op \in {"socket", "accept"} /\ w[t].new = NoFd
         /\ (w[t].op = "socket" <=> w[t].fn = "new") /\ Brought(w[t]) = c /\ c \in Conn /\ c # NoFd
         /\ s.conn[c].used /\ s.conn[c].socket < 0 /\ Private(s, w, t, c)
         /\ s.conn[c].msg = NoUser /\ s.conn[c].done = 0 /\ s.conn[c].state \in {"NONE", "LISTEN"}
         /\ OnIt(s, w[t], {c}) /\ Shape(w[t]) /\ ~Closing(w[t]) /\ ~Fetched(w[t])
<1>1. Engaged(w[t])
  BY DEF Engaged
<1>2. /\ OnIt(s, w[t], {w[t].conn}) /\ w[t].fn \in FnOf(w[t].op) /\ Shape(w[t]) /\ w[t] \in UserRec
  BY <1>1, EngagedFacts
<1>3. w[t].op \in {"socket", "accept"} /\ (w[t].op = "socket" <=> w[t].fn = "new")
  <2>1. w[t].op # "new" /\ w[t].op # "peer"
    BY <1>2 DEF UserRec
  <2> QED BY <1>2, <2>1 DEF FnOf
<1>4. w[t].new = NoFd /\ w[t].conn # NoFd
  BY <1>1, <1>2 DEF Shape
<1>5. Brought(w[t]) = c
  BY <1>3 DEF Brought
<1>6. c \in Conn /\ s.conn[c].used /\ s.conn[c].socket < 0 /\ Private(s, w, t, c)
  BY <1>4, <1>5, PrivateBrought
<1>7. s.conn[c].msg = NoUser /\ s.conn[c].done = 0 /\ s.conn[c].state \in {"NONE", "LISTEN"}
  BY <1>6, Quiet
<1>8. ~Closing(w[t]) /\ ~Fetched(w[t])
  BY DEF Closing, Fetched
<1> QED BY <1>2, <1>3, <1>4, <1>5, <1>6, <1>7, <1>8

(* Dropped: netconn_delete of a netconn that got no descriptor.            *)
LEMMA DroppedKeeps ==
  ASSUME SockInv(net, user), NEW t \in User, user[t].pc = "back", user[t].fn \in {"new", "peer"},
         Dropped(t, user[t])
  PROVE  SockInv(net', user')
<1> DEFINE v == user[t]
           c == v.conn
           u == [v EXCEPT !.pc = "await", !.fn = "delconn", !.conn = c]
           a == PutAns(net, t, "unset")
<1>1. /\ v \in UserRec /\ v.op \in {"socket", "accept"} /\ v.new = NoFd
      /\ Brought(v) = c /\ c \in Conn /\ c # NoFd
      /\ net.conn[c].used /\ net.conn[c].socket < 0 /\ Private(net, user, t, c)
      /\ net.conn[c].msg = NoUser /\ net.conn[c].done = 0 /\ net.conn[c].state \in {"NONE", "LISTEN"}
      /\ OnIt(net, v, {c}) /\ Shape(v)
  BY MadeFacts
<1>2. net \in NetRec /\ user \in [User -> UserRec]
  BY DEF SockInv, Types
<1>3. Unanswered(t) = a
  BY <1>2, UnansweredFields DEF Unanswered
<1>4. Deletes(a, net', c, t) /\ user' = [user EXCEPT ![t] = u]
  BY <1>3 DEF Dropped, Deletes, tcpip_apimsg, Set
<1>5. Cut(net, net', c) /\ Leaving(net', t, c) /\ OthersAns(net, net', t)
  BY <1>1, <1>4, DelconnLeaves
<1>6. Posted(v, u, "delconn", c)
  <2>1. "delconn" \in Fns
    BY DEF Fns
  <2> HIDE DEF v, c
  <2> QED BY <1>1, <2>1, PostFields, Zenon
<1> HIDE DEF u
<1>7. /\ u \in UserRec /\ u.pc = "await" /\ u.fn = "delconn" /\ u.conn = c
      /\ u.op = v.op /\ u.fd = v.fd /\ u.new = v.new
  BY <1>6 DEF Posted
<1>8. Shape(u)
  BY <1>1, <1>7 DEF Shape, Engaged, FnOf, OnFd
<1>9. FdStep(net, user, t, u)
  BY <1>1, <1>7 DEF FdStep, Brought
<1>10. u.op \in {"close", "socket", "accept"} /\ u.op # "close" /\ v.op # "select" /\ u.new = NoFd
  BY <1>1, <1>7
<1>11. \A z \in User : z # t => net'.ans[z] = net.ans[z]
  BY <1>5 DEF OthersAns
<1> QED BY <1>1, <1>4, <1>5, <1>7, <1>8, <1>9, <1>10, <1>11, DeleteStep, Zenon

-----------------------------------------------------------------------------
(* A netconn is made.                                                      *)

(* From s to e netconn c, free in s, is allocated with no descriptor.      *)
Alloted(s, e, c) ==
  /\ e \in NetRec /\ s.conn[c] = FreeConn
  /\ e.conn[c].used /\ e.conn[c].socket = -1 /\ e.conn[c].acceptmbox = <<>>
  /\ \A d \in Conn : d # c => e.conn[d] = s.conn[d]
  /\ \A f \in Fd : e.sock[f].conn = s.sock[f].conn

(* A task that brings a new netconn is its only owner.                     *)
LEMMA AllotLinks ==
  ASSUME NEW s, NEW w, NEW e, Types(s, w), Links(s, w), AllApart(w), NEW c \in Conn,
         Alloted(s, e, c), \A v \in User : Brought(w[v]) # c, NEW t \in User, w[t] = IdleUser,
         NEW u \in UserRec, Brought(u) = c, u.fd = NoFd, u.new = NoFd, u.pc # "free",
         NEW x, x = [w EXCEPT ![t] = u]
  PROVE  Links(e, x) /\ AllApart(x)
<1>1. s \in NetRec /\ e \in NetRec /\ w \in [User -> UserRec] /\ c # NoFd
  BY NoFdIsNone DEF Types, Alloted
<1>2. x[t] = u /\ \A v \in User : v # t => x[v] = w[v]
  BY <1>1
<1>3. Brought(w[t]) = NoFd /\ w[t].fd = NoFd /\ w[t].new = NoFd /\ w[t].pc # "free"
  BY IdleFacts
<1>4. /\ ~s.conn[c].used /\ s.conn[c].socket = -1 /\ s.conn[c].acceptmbox = <<>>
  BY FreeFields DEF Alloted
<1>5. \A d \in Conn : s.conn[d].socket \in Int /\ e.conn[d].socket = s.conn[d].socket
                      /\ e.conn[d].acceptmbox = s.conn[d].acceptmbox
                      /\ s.conn[d].acceptmbox \in Seq(Conn)
  BY <1>1, <1>4, Entries DEF Alloted
<1>6. \A d \in Conn : d # c => e.conn[d].used = s.conn[d].used
  BY DEF Alloted
<1>7. \A f \in Fd : e.sock[f].conn = s.sock[f].conn /\ s.sock[f].conn \in Conn \cup {NoFd}
  BY <1>1, Entries DEF Alloted
<1>8. SockConn(e)
  <2> SUFFICES ASSUME NEW d \in Conn, e.conn[d].socket >= 0
               PROVE  e.sock[e.conn[d].socket].conn = d
    BY DEF SockConn
  <2>1. s.conn[d].socket >= 0 /\ e.conn[d].socket = s.conn[d].socket
    BY <1>5
  <2>2. s.sock[s.conn[d].socket].conn = d
    BY <2>1 DEF Links, SockConn
  <2>3. s.conn[d].socket \in Fd
    BY <1>5, <2>1, SocketAssumption DEF Types, Bounds, Fd
  <2> QED BY <1>7, <2>1, <2>2, <2>3
<1>9. ASSUME NEW v \in User PROVE Holds(e, x[v])
  <2>1. Holds(s, x[v])
    BY <1>2, <1>9 DEF Links, Holds
  <2>2. x[v] \in UserRec /\ x[v].fd \in Fd \cup {NoFd}
    BY <1>1, <1>2, <1>9, UserFields
  <2> QED BY <1>5, <1>7, <2>1, <2>2, Zenon DEF Holds
<1>10. ASSUME NEW v \in User PROVE Brings(e, x[v])
  <2>1. CASE v = t
    <3>1. e.conn[c].used /\ e.conn[c].socket < 0
      BY DEF Alloted
    <3> QED BY <1>2, <2>1, <3>1 DEF Brings
  <2>2. CASE v # t
    <3>1. x[v] = w[v] /\ Brings(s, w[v]) /\ Brought(w[v]) # c
      BY <1>2, <1>10, <2>2 DEF Links
    <3>2. Brought(w[v]) \in Conn \cup {NoFd} /\ w[v].new \in Fd \cup {NoFd}
      BY <1>1, <1>10, UserFields
    <3> QED BY <1>5, <1>6, <1>7, <3>1, <3>2 DEF Brings
  <2> QED BY <2>1, <2>2
<1>11. Boxes(e, x)
  <2> SUFFICES ASSUME NEW d \in Conn, NEW i \in 1 .. Len(e.conn[d].acceptmbox)
               PROVE  Boxed(e, x, d, i)
    BY Zenon DEF Boxes
  <2> DEFINE b == s.conn[d].acceptmbox[i]
  <2>1. e.conn[d].acceptmbox = s.conn[d].acceptmbox /\ i \in 1 .. Len(s.conn[d].acceptmbox)
    BY <1>5
  <2>2. Boxed(s, w, d, i) /\ b \in Conn
    BY <1>5, <2>1 DEF Links, Boxes
  <2>3. s.conn[b].used /\ s.conn[b].socket < 0 /\ \A v \in User : Brought(w[v]) # b
    BY <2>2 DEF Boxed
  <2>4. b # c
    BY <1>4, <2>3
  <2>5. e.conn[b].used /\ e.conn[b].socket < 0
    BY <1>5, <1>6, <2>2, <2>3, <2>4, Zenon
  <2>6. \A v \in User : Brought(x[v]) # b
    BY <1>2, <2>3, <2>4
  <2>7. \A k \in Conn : \A j \in 1 .. Len(e.conn[k].acceptmbox) :
          e.conn[k].acceptmbox[j] = b => k = d /\ j = i
    BY <1>5, <2>2 DEF Boxed
  <2> QED BY <2>1, <2>5, <2>6, <2>7 DEF Boxed
<1>12. OwnersExist(e, x)
  <2> SUFFICES ASSUME NEW k \in Conn, e.conn[k].used
               PROVE  HasOwner(e, x, k)
    BY Zenon DEF OwnersExist
  <2>1. CASE k = c
    BY <1>2, <2>1 DEF HasOwner
  <2>2. CASE k # c
    <3>1. HasOwner(s, w, k)
      BY <1>6, <2>2 DEF Links, OwnersExist
    <3>2. CASE InBox(s, k)
      <4>1. InBox(e, k)
        BY <1>5, <3>2 DEF InBox
      <4> QED BY <4>1 DEF HasOwner
    <3>3. CASE \E v \in User : Brought(w[v]) = k
      <4>1. PICK v \in User : Brought(w[v]) = k
        BY <3>3
      <4>2. v # t
        BY <1>3, <4>1, NoFdIsNone
      <4>3. Brought(x[v]) = k
        BY <1>2, <4>1, <4>2
      <4> QED BY <4>3 DEF HasOwner
    <3> QED BY <1>5, <3>1, <3>2, <3>3 DEF HasOwner
  <2> QED BY <2>1, <2>2
<1>13. SocksTaken(e, x)
  <2> SUFFICES ASSUME NEW f \in Fd, e.sock[f].conn # NoFd
               PROVE  SockTaken(e, x, f)
    BY Zenon DEF SocksTaken
  <2>1. s.sock[f].conn = e.sock[f].conn /\ s.sock[f].conn \in Conn /\ f # NoFd
    BY <1>7, FdFacts
  <2>2. SockTaken(s, w, f)
    BY <2>1 DEF Links, SocksTaken
  <2>3. CASE s.conn[s.sock[f].conn].socket = f
    BY <1>5, <2>1, <2>3 DEF SockTaken
  <2>4. CASE \E v \in User : w[v].new = f \/ (w[v].pc = "free" /\ w[v].fd = f)
    <3>1. PICK v \in User : w[v].new = f \/ (w[v].pc = "free" /\ w[v].fd = f)
      BY <2>4
    <3>2. v # t
      BY <1>3, <2>1, <3>1
    <3>3. x[v].new = f \/ (x[v].pc = "free" /\ x[v].fd = f)
      BY <1>2, <3>1, <3>2
    <3> QED BY <3>3 DEF SockTaken
  <2> QED BY <2>2, <2>3, <2>4 DEF SockTaken
<1>14. AllApart(x)
  <2> SUFFICES ASSUME NEW y \in User, NEW z \in User, y # z
               PROVE  Apart(x[y], x[z])
    BY DEF AllApart
  <2>1. CASE y = t
    BY <1>1, <1>2, <2>1 DEF Apart
  <2>2. CASE z = t
    <3>1. x[y] = w[y] /\ Brought(w[y]) # c
      BY <1>2, <2>2
    <3> QED BY <1>1, <1>2, <2>2, <3>1 DEF Apart
  <2>3. CASE y # t /\ z # t
    BY <1>2, <2>3 DEF AllApart
  <2> QED BY <2>1, <2>2, <2>3
<1> QED BY <1>8, <1>9, <1>10, <1>11, <1>12, <1>13, <1>14 DEF Links

(* A new netconn, with its pcb or not.                                     *)
Newborn(type, pcb) == [netconn_alloc(type) EXCEPT !.pcb = pcb]

NewbornIs(n, type, pcb) ==
  /\ n \in ConnRec /\ n.used /\ n.type = type /\ n.pcb = pcb /\ n.state = "NONE" /\ n.socket = -1
  /\ n.recvOk /\ n.recvmbox = <<>> /\ ~n.acceptOk /\ n.acceptmbox = <<>> /\ ~n.fatal
  /\ n.snd = 0 /\ n.msg = NoUser /\ n.done = 0

(* netconn_alloc *)
LEMMA NewbornFields ==
  ASSUME NEW type \in {"tcp", "udp"}, NEW pcb \in Pcbs
  PROVE  NewbornIs(Newborn(type, pcb), type, pcb) /\ NewbornIs(netconn_alloc(type), type, "none")
<1>1. /\ <<>> \in Seq({"data", "null"}) /\ <<>> \in Seq(Conn) /\ "none" \in Pcbs
      /\ "NONE" \in Busy \cup {"NONE", "LISTEN"} /\ -1 \in Int /\ 0 \in 0 .. SndBuf /\ 0 \in Nat
      /\ NoUser \in User \cup {NoUser} /\ FALSE \in BOOLEAN /\ TRUE \in BOOLEAN
  BY SocketAssumption, EmptySeq DEF Pcbs
<1>2. Newborn(type, pcb) \in ConnRec
  BY <1>1, Zenon DEF Newborn, netconn_alloc, ConnRec
<1>3. netconn_alloc(type) \in ConnRec
  BY <1>1, Zenon DEF netconn_alloc, ConnRec
<1>4. NewbornIs(Newborn(type, pcb), type, pcb)
  BY <1>2 DEF NewbornIs, Newborn, netconn_alloc
<1>5. NewbornIs(netconn_alloc(type), type, "none")
  BY <1>3 DEF NewbornIs, netconn_alloc
<1> QED BY <1>4, <1>5

PcbOf(type, r) == IF r # "ok" THEN "none" ELSE IF type = "tcp" THEN "new" ELSE "udp"

(* do_newconn: the new netconn of task t is answered.                      *)
LEMMA NewStep ==
  ASSUME NEW s, NEW w, SockInv(s, w), NEW t \in User, w[t] = IdleUser, NEW c \in Conn,
         ~s.conn[c].used, NEW type \in {"tcp", "udp"}, NEW r \in {"ok", "err"},
         NEW m, NewbornIs(m, type, PcbOf(type, r))
  PROVE  SockInv(Ack(PutConn(PutAns(s, t, "unset"), c, m), c, t, r),
                 [w EXCEPT ![t] = Waiting(NoFd, "socket", "new", c)])
<1> DEFINE pcb == PcbOf(type, r)
           a == PutAns(s, t, "unset")
           g == PutConn(a, c, m)
           e == Ack(g, c, t, r)
           u == Waiting(NoFd, "socket", "new", c)
           x == [w EXCEPT ![t] = u]
           l == e.conn[c]
<1>1. /\ s \in NetRec /\ w \in [User -> UserRec] /\ Types(s, w) /\ Links(s, w) /\ AllApart(w)
      /\ Selects(s, w) /\ SockConn(s)
  BY DEF SockInv, Types, Links
<1>2. /\ s.conn[c] = FreeConn /\ s.conn[c].socket = -1 /\ Private(s, w, t, c)
      /\ \A v \in User : Brought(w[v]) # c
  BY PrivateFree
<1>3. NewbornIs(m, type, pcb)
  OBVIOUS
<1> HIDE DEF pcb
<1>4. OnlyAns(s, a, [s.ans EXCEPT ![t] = "unset"])
  BY <1>1, PutAnsFields, Zenon
<1> HIDE DEF a
<1>5. OnlyConn(a, g, c, m)
  BY <1>3, <1>4, PutConnFields DEF OnlyAns, NewbornIs
<1> HIDE DEF g
<1>6. /\ g \in NetRec /\ g.conn[c] = m /\ (\A d \in Conn : d # c => g.conn[d] = s.conn[d])
      /\ g.sock = s.sock /\ g.list = s.list /\ g.moved = s.moved /\ g.want = s.want
      /\ g.sig = s.sig /\ g.ans = [s.ans EXCEPT ![t] = "unset"]
  BY <1>4, <1>5 DEF OnlyConn, OnlyAns
<1>7. r \in Results /\ r # "unset"
  BY DEF Results
<1>8. Acked(g, e, c, t, r)
  BY <1>6, <1>7, AckFields
<1> HIDE DEF e
<1>9. Touch(g, e, c) /\ l = [m EXCEPT !.done = m.done + 1] /\ e.ans = [g.ans EXCEPT ![t] = r]
  BY <1>6, <1>8 DEF Acked
<1>10. /\ l.used /\ l.type = type /\ l.pcb = pcb /\ l.state = "NONE" /\ l.socket = -1
       /\ l.recvmbox = <<>> /\ ~l.acceptOk /\ l.acceptmbox = <<>> /\ ~l.fatal
       /\ l.msg = NoUser /\ l.done = 1
  BY <1>3, <1>9 DEF NewbornIs, ConnRec
<1>11. /\ e \in NetRec /\ (\A d \in Conn : d # c => e.conn[d] = s.conn[d])
       /\ (\A f \in Fd : e.sock[f] = s.sock[f]) /\ e.list = s.list /\ e.moved = s.moved
       /\ e.want = s.want /\ s.sig \subseteq e.sig
  <2>1. g.conn[c].socket = -1
    BY <1>3, <1>6 DEF NewbornIs
  <2> QED BY <1>6, <1>9, <2>1, FdFacts DEF Touch
<1>12. e.ans[t] = r /\ \A v \in User : v # t => e.ans[v] = s.ans[v]
  <2>1. s.ans \in [User -> {"unset", "ok", "err", "fatal"}]
    BY <1>1, NetFields
  <2> QED BY <1>6, <1>9, <2>1
<1>13. Awaits(u, NoFd, "socket", "new", c)
  <2>1. "socket" \in CallOps /\ "new" \in Fns /\ NoFd \in Fd \cup {NoFd}
    BY DEF CallOps, Fns
  <2> QED BY <2>1, WaitingFields, Zenon
<1> HIDE DEF u
<1>14. /\ u \in UserRec /\ u.pc = "await" /\ u.op = "socket" /\ u.fn = "new" /\ u.fd = NoFd
       /\ u.conn = c /\ u.new = NoFd
  BY <1>13 DEF Awaits
<1>15. c # NoFd /\ Brought(u) = c
  BY <1>14, NoFdIsNone DEF Brought
<1>16. x[t] = u /\ \A v \in User : v # t => x[v] = w[v]
  BY <1>1
<1>17. Links(e, x) /\ AllApart(x)
  <2>1. Alloted(s, e, c)
    BY <1>2, <1>10, <1>11 DEF Alloted
  <2> QED BY <1>1, <1>2, <1>14, <1>15, <2>1, AllotLinks, Zenon
<1>18. OnlyOn(s, e, {c}, {})
  BY <1>11 DEF OnlyOn
<1>19. ConnOK(e, x, c)
  <2>1. ConnSane(l)
    BY <1>10, SocketAssumption DEF ConnSane, Busy, Live, pcb, PcbOf
  <2>2. Bounds(l)
    BY <1>10, SocketAssumption, EmptySeq DEF Bounds
  <2>3. HeardOf(e, x, c)
    BY <1>10, <1>14, <1>16 DEF HeardOf
  <2>4. CountOf(e, x, c)
    <3>1. Raw(e, c) = 0
      BY <1>10 DEF Raw
    <3>2. Pending(x, l.socket) = 0
      BY <1>10 DEF Pending
    <3>3. Len(l.recvmbox) = 0 /\ Len(l.acceptmbox) = 0
      BY <1>10, EmptySeq
    <3> QED BY <3>1, <3>2, <3>3 DEF CountOf
  <2>5. Writable(e, c)
    BY <1>10 DEF Writable
  <2> QED BY <2>1, <2>2, <2>3, <2>4, <2>5 DEF ConnOK
<1>20. OnIt(s, w[t], {c}) /\ OnIt(s, u, {c})
  BY <1>14, IdleFacts DEF OnIt, Fetched
<1>21. TaskOK(e, t, u)
  <2>1. Shape(u)
    BY <1>14, <1>15 DEF Shape, Engaged, FnOf, OnFd
  <2>2. Hears(e, t, u)
    BY <1>7, <1>10, <1>12, <1>14 DEF Hears
  <2>3. Fresh(l, r)
    BY <1>10 DEF Fresh, pcb, PcbOf
  <2>4. Stage(e, t, u)
    BY <1>12, <1>14, <2>3 DEF Stage, Closing
  <2>5. SlotFresh(e, u)
    BY <1>14 DEF SlotFresh
  <2> QED BY <2>1, <2>2, <2>4, <2>5 DEF TaskOK
<1>22. SelOK(s, e, w, t, u)
  <2>1. SelKept(s, e)
    BY <1>11, AsksSame DEF SelKept
  <2>2. WantKept(s, e)
    <3> SUFFICES ASSUME NEW z \in User, NEW fd \in WantsOf(s, z)
                 PROVE  e.sock[fd].conn # NoFd /\ e.conn[e.sock[fd].conn].socket = fd
      BY DEF WantKept
    <3>1. fd \in Fd /\ fd # -1
      BY <1>1, WantsAreFds, FdFacts
    <3>2. s.sock[fd].conn # NoFd /\ s.conn[s.sock[fd].conn].socket = fd
      BY <1>1 DEF Selects, Wanted
    <3>3. s.sock[fd].conn \in Conn /\ s.sock[fd].conn # c
      BY <1>1, <1>2, <3>1, <3>2, Entries
    <3> QED BY <1>11, <3>1, <3>2, <3>3
  <2> QED BY <1>11, <1>14, <2>1, <2>2, IdleFacts DEF SelOK
<1>23. \A d \in {c} : Private(s, w, t, d) /\ ConnOK(e, x, d)
  BY <1>2, <1>19
<1>24. SockInv(e, x)
  <2> DEFINE C == {c}
  <2>1. /\ C \in SUBSET Conn /\ OnIt(s, w[t], C) /\ OnIt(s, u, C)
        /\ \A d \in C : Private(s, w, t, d) /\ ConnOK(e, x, d)
    BY <1>20, <1>23
  <2>2. OnlyOn(s, e, C, {}) /\ AllApart(x) /\ Links(e, x)
    BY <1>17, <1>18
  <2>3. u \in UserRec /\ x = [w EXCEPT ![t] = u] /\ \A v \in User : v # t => e.ans[v] = s.ans[v]
    BY <1>12, <1>14
  <2> HIDE DEF C, x
  <2>4. TaskDone(s, w, e, x, t, u, C, {})
    BY ONLY <1>21, <1>22, <2>1, <2>2, <2>3, t \in User, Zenon DEF TaskDone
  <2> QED BY ONLY SockInv(s, w), <2>4, TaskStep
<1> QED BY <1>24 DEF e, g, a, u

(* lwip_socket *)
LEMMA SocketKeeps ==
  ASSUME SockInv(net, user), NEW t \in User, lwip_socket(t)
  PROVE  SockInv(net', user')
<1>1. user[t].pc = "idle"
  BY DEF lwip_socket
<1>2. PICK type \in {"tcp", "udp"}, c \in Conn, r \in {"ok", "err"} :
        /\ ~net.conn[c].used
        /\ tcpip_apimsg(t, Call(NoFd, "socket"), c, "new",
                        do_newconn([Unanswered(t) EXCEPT !.conn[c] = netconn_alloc(type)], c, t, r))
  BY Zenon DEF lwip_socket
<1> DEFINE a == PutAns(net, t, "unset")
           k == netconn_alloc(type)
           b == PutConn(a, c, k)
           p == PcbOf(type, "ok")
           m == Newborn(type, p)
           x == [user EXCEPT ![t] = Waiting(NoFd, "socket", "new", c)]
<1>3. net \in NetRec /\ user[t] = IdleUser
  BY <1>1 DEF SockInv, Types, Shapes, Shape
<1>4. a \in NetRec /\ Unanswered(t) = a
  BY <1>3, UnansweredFields DEF Unanswered
<1>5. net' = do_newconn(b, c, t, r) /\ user' = x
  BY <1>2, <1>4 DEF tcpip_apimsg, Set, Waiting, PutConn
<1>6. p \in Pcbs
  BY DEF Pcbs, PcbOf
<1>7. NewbornIs(m, type, p) /\ NewbornIs(k, type, "none")
  <2> HIDE DEF p
  <2> QED BY <1>6, NewbornFields
<1>8. k.type = type /\ k \in ConnRec
  BY <1>7 DEF NewbornIs
<1> HIDE DEF a, x
<1>9. b \in NetRec /\ b.conn[c] = k
  <2>1. OnlyConn(a, b, c, k)
    <3> HIDE DEF k
    <3> QED BY <1>4, <1>8, PutConnFields
  <2> HIDE DEF b
  <2> QED BY <2>1 DEF OnlyConn
<1>10. CASE r = "ok"
  <2> DEFINE g == [b EXCEPT !.conn[c].pcb = p]
  <2>1. do_newconn(b, c, t, r) = Ack(g, c, t, "ok")
    <3> HIDE DEF b, k
    <3>1. p = IF type = "tcp" THEN "new" ELSE "udp"
      BY DEF PcbOf
    <3> HIDE DEF p
    <3> QED BY <1>8, <1>9, <1>10, <3>1 DEF do_newconn
  <2>2. g = PutConn(b, c, [k EXCEPT !.pcb = p])
    <3> HIDE DEF b, k, p
    <3> QED BY <1>9, Zenon DEF PutConn, NetRec
  <2>3. g = PutConn(a, c, m)
    <3>1. [k EXCEPT !.pcb = p] = m
      BY DEF Newborn
    <3> HIDE DEF k, p, m, g
    <3> QED BY <1>4, <2>2, <3>1, PutAgain
  <2>4. net' = Ack(PutConn(a, c, m), c, t, r)
    <3> HIDE DEF g, m, b
    <3> QED BY <1>5, <1>10, <2>1, <2>3
  <2> HIDE DEF m
  <2>5. NewbornIs(m, type, PcbOf(type, r)) /\ ~net.conn[c].used
    BY <1>2, <1>7, <1>10
  <2>6. SockInv(Ack(PutConn(PutAns(net, t, "unset"), c, m), c, t, r),
                [user EXCEPT ![t] = Waiting(NoFd, "socket", "new", c)])
    BY <1>3, <2>5, NewStep
  <2> QED BY <1>5, <2>4, <2>6 DEF a, x
<1>11. CASE r # "ok"
  <2>1. net' = Ack(PutConn(a, c, k), c, t, r)
    BY <1>5, <1>11 DEF do_newconn
  <2>2. PcbOf(type, r) = "none"
    BY <1>11 DEF PcbOf
  <2> HIDE DEF k
  <2>3. NewbornIs(k, type, PcbOf(type, r)) /\ ~net.conn[c].used
    BY <1>2, <1>7, <2>2
  <2>4. SockInv(Ack(PutConn(PutAns(net, t, "unset"), c, k), c, t, r),
                [user EXCEPT ![t] = Waiting(NoFd, "socket", "new", c)])
    BY <1>3, <2>3, NewStep
  <2> QED BY <1>5, <2>1, <2>4 DEF a, x
<1> QED BY <1>10, <1>11

-----------------------------------------------------------------------------
(* A connection comes in: accept_function.                                 *)

(* What stays of the listener.                                             *)
Listener(n, m) ==
  /\ m.used = n.used /\ m.type = n.type /\ m.pcb = n.pcb /\ m.state = n.state
  /\ m.socket = n.socket /\ m.recvOk = n.recvOk /\ m.recvmbox = n.recvmbox
  /\ m.acceptOk = n.acceptOk /\ m.fatal = n.fatal /\ m.msg = n.msg /\ m.done = n.done

(* From s to e listener c has the new netconn d in its queue.              *)
Arrives(s, e, c, d) ==
  /\ e \in NetRec /\ d # c /\ s.conn[d] = FreeConn
  /\ Listener(s.conn[c], e.conn[c]) /\ e.conn[c].acceptmbox = Append(s.conn[c].acceptmbox, d)
  /\ e.conn[d].used /\ e.conn[d].socket = -1 /\ e.conn[d].acceptmbox = <<>>
  /\ e.conn[d].recvmbox = <<>> /\ e.conn[d].msg = NoUser /\ e.conn[d].done = 0
  /\ e.conn[d].state = "NONE" /\ e.conn[d].pcb = "est" /\ ~e.conn[d].acceptOk
  /\ \A k \in Conn : k # c /\ k # d => e.conn[k] = s.conn[k]
  /\ \A f \in Fd : f # s.conn[c].socket => e.sock[f] = s.sock[f]
  /\ \A f \in Fd : e.sock[f].conn = s.sock[f].conn
  /\ Raw(e, c) = Raw(s, c) + 1 /\ e.ans = s.ans /\ e.moved = s.moved /\ SelKept(s, e)

(* The new netconn of accept_function.                                     *)
LEMMA ArrivingFields ==
  LET m == [netconn_alloc("tcp") EXCEPT !.pcb = "est", !.snd = SndBuf]
  IN  /\ m \in ConnRec /\ m.used /\ m.socket = -1 /\ m.acceptmbox = <<>> /\ m.recvmbox = <<>>
      /\ m.msg = NoUser /\ m.done = 0 /\ m.state = "NONE" /\ m.pcb = "est" /\ ~m.acceptOk
<1> DEFINE k == netconn_alloc("tcp")
           m == [k EXCEPT !.pcb = "est", !.snd = SndBuf]
<1>1. NewbornIs(k, "tcp", "none")
  BY NewbornFields DEF Pcbs
<1> HIDE DEF k
<1>2. SndBuf \in 0 .. SndBuf /\ "est" \in Pcbs
  BY SocketAssumption DEF Pcbs
<1>3. k \in ConnRec
  BY <1>1 DEF NewbornIs
<1>4. m \in ConnRec
  BY <1>2, <1>3, Zenon DEF ConnRec
<1>5. /\ m.used = k.used /\ m.socket = k.socket /\ m.acceptmbox = k.acceptmbox
      /\ m.recvmbox = k.recvmbox /\ m.msg = k.msg /\ m.done = k.done /\ m.state = k.state
      /\ m.pcb = "est" /\ m.acceptOk = k.acceptOk
  BY <1>3, Zenon DEF ConnRec
<1>6. m.used /\ ~m.acceptOk
  BY <1>1, <1>5 DEF NewbornIs
<1> HIDE DEF m
<1>7. /\ m \in ConnRec /\ m.used /\ m.socket = -1 /\ m.acceptmbox = <<>> /\ m.recvmbox = <<>>
      /\ m.msg = NoUser /\ m.done = 0 /\ m.state = "NONE" /\ m.pcb = "est" /\ ~m.acceptOk
  BY <1>1, <1>4, <1>5, <1>6 DEF NewbornIs
<1> QED BY <1>7 DEF m, k

(* accept_function: what it does to the netconns.                          *)
LEMMA AcceptArrives ==
  ASSUME NEW s, NEW w, SockInv(s, w), NEW c \in Conn, s.conn[c].acceptOk, NEW d \in Conn,
         ~s.conn[d].used, NEW m, m = [netconn_alloc("tcp") EXCEPT !.pcb = "est", !.snd = SndBuf],
         NEW e, e = event_callback([s EXCEPT !.conn[d] = m, !.conn[c].acceptmbox = Append(@, d)],
                                   c, "RCVPLUS")
  PROVE  Arrives(s, e, c, d)
<1> DEFINE n == s.conn[c]
           b == PutConn(s, d, m)
           l == [n EXCEPT !.acceptmbox = Append(n.acceptmbox, d)]
           g == PutConn(b, c, l)
<1>1. s \in NetRec /\ n \in ConnRec /\ ConnSane(n) /\ Fit(s, c)
  BY ConnFacts
<1>2. n.used /\ n.socket >= 0 /\ d # c
  <2>1. n.pcb # "none"
    BY <1>1 DEF ConnSane
  <2> QED BY <1>1, <2>1, PcbUsed DEF ConnSane
<1>3. s.conn[d] = FreeConn
  BY DEF SockInv, Conns, ConnSane
<1>4. /\ m \in ConnRec /\ m.used /\ m.socket = -1 /\ m.acceptmbox = <<>> /\ m.recvmbox = <<>>
      /\ m.msg = NoUser /\ m.done = 0 /\ m.state = "NONE" /\ m.pcb = "est" /\ ~m.acceptOk
  BY ArrivingFields
<1>5. OnlyConn(s, b, d, m)
  BY <1>1, <1>4, PutConnFields
<1>6. l \in ConnRec /\ Listener(n, l) /\ l.acceptmbox = Append(n.acceptmbox, d)
  <2>1. n.acceptmbox \in Seq(Conn) /\ Append(n.acceptmbox, d) \in Seq(Conn)
    BY <1>1, ConnFields, AppendProperties
  <2>2. l \in ConnRec
    BY <1>1, <2>1, Zenon DEF ConnRec
  <2> QED BY <1>1, <2>2, Zenon DEF Listener, ConnRec
<1>7. [s EXCEPT !.conn[d] = m, !.conn[c].acceptmbox = Append(@, d)] = g
  <2>1. [s EXCEPT !.conn[d] = m, !.conn[c].acceptmbox = Append(@, d)]
          = [b EXCEPT !.conn[c].acceptmbox = Append(@, d)]
    <3>1. [s EXCEPT !.conn[d] = m, !.conn[c].acceptmbox = Append(@, d)]
            = [[s EXCEPT !.conn[d] = m] EXCEPT !.conn[c].acceptmbox = Append(@, d)]
      BY <1>1, <1>2, Zenon DEF NetRec
    <3> QED BY <3>1 DEF PutConn
  <2>2. b \in NetRec /\ b.conn[c] = n
    BY <1>2, <1>5 DEF OnlyConn
  <2> HIDE DEF b, n
  <2>3. [b EXCEPT !.conn[c].acceptmbox = Append(@, d)] = g
    BY <2>2, Zenon DEF PutConn, NetRec
  <2> QED BY <2>1, <2>3
<1> HIDE DEF b, l
<1>8. OnlyConn(b, g, c, l)
  <2>1. b \in NetRec /\ l \in ConnRec
    BY <1>5, <1>6 DEF OnlyConn
  <2> QED BY <2>1, PutConnFields
<1>9. e = event_callback(g, c, "RCVPLUS")
  BY <1>7
<1> HIDE DEF g
<1>10. /\ g \in NetRec /\ g.conn[c] = l /\ g.conn[d] = m /\ g.sock = s.sock /\ g.list = s.list
       /\ g.moved = s.moved /\ g.want = s.want /\ g.sig = s.sig /\ g.ans = s.ans
       /\ \A k \in Conn : k # c /\ k # d => g.conn[k] = s.conn[k]
  BY <1>2, <1>5, <1>8 DEF OnlyConn
<1>11. Fit(g, c)
  <2>1. g.conn[c].socket = s.conn[c].socket
    BY <1>6, <1>10 DEF Listener
  <2> QED BY ONLY <1>1, <1>10, <2>1 DEF Fit
<1>12. Told(g, e, c, "RCVPLUS")
  BY <1>9, <1>11, EventTold DEF Fit
<1>13. Touch(g, e, c) /\ Raw(e, c) = Raw(g, c) + 1 /\ e.ans = s.ans
  BY <1>10, <1>12 DEF Told
<1>14. e.conn[c] = [l EXCEPT !.socket = e.conn[c].socket] /\ e.conn[c].socket = n.socket
  <2>1. g.conn[c].socket = n.socket
    BY <1>6, <1>10 DEF Listener
  <2>2. e.conn[c].socket = n.socket
    BY <1>2, <1>13, <2>1 DEF Touch
  <2> QED BY <1>10, <1>12, <2>2 DEF Told
<1>15. Listener(n, e.conn[c]) /\ e.conn[c].acceptmbox = Append(n.acceptmbox, d)
  <2> DEFINE h == e.conn[c]
  <2>1. h = [l EXCEPT !.socket = h.socket] /\ h.socket = n.socket
    BY <1>14
  <2> HIDE DEF h
  <2>2. /\ h.used = l.used /\ h.type = l.type /\ h.pcb = l.pcb /\ h.state = l.state
        /\ h.recvOk = l.recvOk /\ h.recvmbox = l.recvmbox
        /\ h.acceptOk = l.acceptOk /\ h.fatal = l.fatal /\ h.msg = l.msg /\ h.done = l.done
        /\ h.acceptmbox = l.acceptmbox
    BY <1>6, <2>1, Zenon DEF ConnRec
  <2>3. Listener(n, h) /\ h.acceptmbox = Append(n.acceptmbox, d)
    BY <1>6, <2>1, <2>2, Zenon DEF Listener
  <2> QED BY <2>3, Zenon DEF h
<1>16. Raw(g, c) = Raw(s, c)
  <2>1. g.conn[c].socket = s.conn[c].socket
    BY <1>6, <1>10 DEF Listener
  <2> QED BY <1>10, <2>1 DEF Raw
<1>17. SelKept(s, e)
  <2>1. Listed(g) = Listed(s)
    BY <1>10 DEF Listed
  <2>2. ASSUME NEW f \in Fd, NEW z \in Listed(s), s.sock[f].waiting # 0, Asks(e, z, f)
        PROVE  Asks(s, z, f) \/ z \in e.sig
    <3>1. Asks(g, z, f) \/ z \in e.sig
      BY <1>10, <1>13, <2>1, <2>2 DEF Touch
    <3>2. Asks(g, z, f) <=> Asks(s, z, f)
      BY <1>10, AsksSame
    <3> QED BY <3>1, <3>2
  <2>3. e.list = s.list /\ e.want = s.want /\ s.sig \subseteq e.sig
    <3>1. e.list = g.list /\ e.want = g.want /\ g.sig \subseteq e.sig
      BY ONLY <1>13 DEF Touch
    <3> QED BY ONLY <1>10, <3>1
  <2>4. \A f \in Fd : e.sock[f].waiting = s.sock[f].waiting
    <3>1. \A f \in Fd : e.sock[f].waiting = g.sock[f].waiting
      BY ONLY <1>13 DEF Touch
    <3> QED BY ONLY <1>10, <3>1
  <2> QED BY <2>2, <2>3, <2>4 DEF SelKept
<1>18. /\ e \in NetRec /\ e.moved = s.moved /\ (\A k \in Conn : k # c => e.conn[k] = g.conn[k])
       /\ (\A f \in Fd : e.sock[f].conn = s.sock[f].conn)
       /\ (\A f \in Fd : f # s.conn[c].socket => e.sock[f] = s.sock[f])
  <2>1. g.conn[c].socket = s.conn[c].socket
    BY <1>6, <1>10 DEF Listener
  <2>2. e \in NetRec /\ e.moved = g.moved /\ \A k \in Conn : k # c => e.conn[k] = g.conn[k]
    BY ONLY <1>13 DEF Touch
  <2>3. \A f \in Fd : e.sock[f].conn = g.sock[f].conn
    BY ONLY <1>13 DEF Touch
  <2>4. \A f \in Fd : f # g.conn[c].socket => e.sock[f] = g.sock[f]
    BY ONLY <1>13 DEF Touch
  <2> QED BY ONLY <1>10, <2>1, <2>2, <2>3, <2>4, Zenon
<1>19. e.conn[d] = m /\ \A k \in Conn : k # c /\ k # d => e.conn[k] = s.conn[k]
  BY <1>2, <1>10, <1>18
<1>20. Raw(e, c) = Raw(s, c) + 1
  BY <1>13, <1>16
<1> QED BY ONLY <1>2, <1>3, <1>4, <1>13, <1>15, <1>17, <1>18, <1>19, <1>20 DEF Arrives

(* The new netconn is in one queue, and nobody's else.                     *)
LEMMA ArrivalLinks ==
  ASSUME NEW s, NEW w, SockInv(s, w), NEW c \in Conn, NEW d \in Conn, NEW e, Arrives(s, e, c, d)
  PROVE  Links(e, w)
<1>1. s \in NetRec /\ e \in NetRec /\ Links(s, w) /\ Types(s, w) /\ (\A t \in User : w[t] \in UserRec)
  BY DEF SockInv, Types, Arrives
<1>2. /\ ~s.conn[d].used /\ s.conn[d].socket = -1 /\ s.conn[d].acceptmbox = <<>> /\ d # c
  BY FreeFields DEF Arrives
<1>3. \A t \in User : Brought(w[t]) # d
  <2> SUFFICES ASSUME NEW t \in User PROVE Brought(w[t]) # d
    OBVIOUS
  <2>1. Brings(s, w[t]) /\ d # NoFd
    BY <1>1, NoFdIsNone DEF Links
  <2> QED BY <1>2, <2>1 DEF Brings
<1>4. \A k \in Conn : s.conn[k].socket \in Int /\ e.conn[k].socket = s.conn[k].socket
                      /\ s.conn[k].acceptmbox \in Seq(Conn)
  BY <1>1, <1>2, Entries, Zenon DEF Arrives, Listener
<1>5. \A k \in Conn : k # d => e.conn[k].used = s.conn[k].used
  BY DEF Arrives, Listener
<1>6. \A k \in Conn : k # c => e.conn[k].acceptmbox = s.conn[k].acceptmbox
  BY <1>2 DEF Arrives
<1> DEFINE q == s.conn[c].acceptmbox
<1>7. q \in Seq(Conn) /\ Len(q) \in Nat
  BY <1>4
<1>8. e.conn[c].acceptmbox = Append(q, d)
  BY DEF Arrives
<1> HIDE DEF q
<1>9. /\ Len(e.conn[c].acceptmbox) = Len(q) + 1
      /\ \A j \in 1 .. Len(q) : e.conn[c].acceptmbox[j] = q[j]
      /\ e.conn[c].acceptmbox[Len(q) + 1] = d
  BY <1>7, <1>8, AppendProperties
<1>10. \A f \in Fd : e.sock[f].conn = s.sock[f].conn /\ s.sock[f].conn \in Conn \cup {NoFd}
  BY <1>1, Entries DEF Arrives
(* What is in a queue of e is d in the last place of c, or was there.      *)
<1>11. ASSUME NEW k \in Conn, NEW i \in 1 .. Len(e.conn[k].acceptmbox)
       PROVE  \/ k = c /\ i = Len(q) + 1 /\ e.conn[k].acceptmbox[i] = d
              \/ /\ i \in 1 .. Len(s.conn[k].acceptmbox)
                 /\ e.conn[k].acceptmbox[i] = s.conn[k].acceptmbox[i]
                 /\ s.conn[k].acceptmbox[i] \in Conn /\ s.conn[k].acceptmbox[i] # d
  <2>1. ASSUME i \in 1 .. Len(s.conn[k].acceptmbox)
        PROVE  s.conn[k].acceptmbox[i] \in Conn /\ s.conn[k].acceptmbox[i] # d
    <3>1. Boxed(s, w, k, i)
      BY <1>1, <2>1 DEF Links, Boxes
    <3> QED BY <1>2, <1>4, <2>1, <3>1 DEF Boxed
  <2>2. CASE k = c
    <3>1. i \in 1 .. Len(q) \/ i = Len(q) + 1
      BY <1>7, <1>9, <2>2
    <3> QED BY <1>9, <2>1, <2>2, <3>1, Zenon DEF q
  <2>3. CASE k # c
    BY <1>6, <2>1, <2>3
  <2> QED BY <2>2, <2>3
<1>12. SockConn(e)
  <2> SUFFICES ASSUME NEW k \in Conn, e.conn[k].socket >= 0
               PROVE  e.sock[e.conn[k].socket].conn = k
    BY DEF SockConn
  <2>1. s.conn[k].socket >= 0 /\ e.conn[k].socket = s.conn[k].socket
    BY <1>4
  <2>2. s.sock[s.conn[k].socket].conn = k
    BY <1>1, <2>1 DEF Links, SockConn
  <2>3. s.conn[k].socket \in Fd
    BY <1>1, <1>4, <2>1, SocketAssumption DEF Types, Bounds, Fd
  <2> QED BY <1>10, <2>1, <2>2, <2>3
<1>13. ASSUME NEW t \in User PROVE Holds(e, w[t]) /\ Brings(e, w[t])
  <2>1. Holds(s, w[t]) /\ Brings(s, w[t]) /\ Brought(w[t]) # d
    BY <1>1, <1>3, <1>13 DEF Links
  <2>2. w[t].fd \in Fd \cup {NoFd} /\ w[t].new \in Fd \cup {NoFd} /\ Brought(w[t]) \in Conn \cup {NoFd}
    BY <1>1, <1>13, UserFields
  <2>3. Holds(e, w[t])
    BY <1>4, <1>10, <2>1, <2>2, Zenon DEF Holds
  <2>4. Brings(e, w[t])
    BY <1>4, <1>5, <1>10, <2>1, <2>2 DEF Brings
  <2> QED BY <2>3, <2>4
<1>14. Boxes(e, w)
  <2> SUFFICES ASSUME NEW k \in Conn, NEW i \in 1 .. Len(e.conn[k].acceptmbox)
               PROVE  Boxed(e, w, k, i)
    BY DEF Boxes
  <2>1. CASE k = c /\ i = Len(q) + 1 /\ e.conn[k].acceptmbox[i] = d
    <3>1. e.conn[d].used /\ e.conn[d].socket < 0
      BY DEF Arrives
    <3>2. \A z \in Conn : \A j \in 1 .. Len(e.conn[z].acceptmbox) :
            e.conn[z].acceptmbox[j] = d => z = k /\ j = i
      BY <1>11, <2>1
    <3> QED BY <1>3, <2>1, <3>1, <3>2 DEF Boxed
  <2>2. CASE /\ i \in 1 .. Len(s.conn[k].acceptmbox)
             /\ e.conn[k].acceptmbox[i] = s.conn[k].acceptmbox[i]
             /\ s.conn[k].acceptmbox[i] \in Conn /\ s.conn[k].acceptmbox[i] # d
    <3> DEFINE b == s.conn[k].acceptmbox[i]
    <3>1. Boxed(s, w, k, i)
      BY <1>1, <2>2 DEF Links, Boxes
    <3>2. s.conn[b].used /\ s.conn[b].socket < 0 /\ \A t \in User : Brought(w[t]) # b
      BY <3>1 DEF Boxed
    <3>3. e.conn[b].used /\ e.conn[b].socket < 0
      BY <1>4, <1>5, <2>2, <3>2, Zenon
    <3>4. \A z \in Conn : \A j \in 1 .. Len(e.conn[z].acceptmbox) :
            e.conn[z].acceptmbox[j] = b => z = k /\ j = i
      <4> SUFFICES ASSUME NEW z \in Conn, NEW j \in 1 .. Len(e.conn[z].acceptmbox),
                          e.conn[z].acceptmbox[j] = b
                   PROVE  z = k /\ j = i
        OBVIOUS
      <4>1. j \in 1 .. Len(s.conn[z].acceptmbox) /\ s.conn[z].acceptmbox[j] = b
        <5>1. e.conn[z].acceptmbox[j] # d
          BY <2>2
        <5> QED BY <1>11, <5>1
      <4> QED BY ONLY <3>1, <4>1, z \in Conn DEF Boxed
    <3> QED BY <2>2, <3>2, <3>3, <3>4 DEF Boxed
  <2> QED BY <1>11, <2>1, <2>2
<1>15. OwnersExist(e, w)
  <2> SUFFICES ASSUME NEW k \in Conn, e.conn[k].used
               PROVE  HasOwner(e, w, k)
    BY DEF OwnersExist
  <2>1. CASE k = d
    <3>1. Len(q) + 1 \in 1 .. Len(e.conn[c].acceptmbox)
      BY <1>7, <1>9
    <3>2. InBox(e, d)
      BY <1>9, <3>1 DEF InBox
    <3> QED BY <2>1, <3>2 DEF HasOwner
  <2>2. CASE k # d
    <3>1. HasOwner(s, w, k)
      BY <1>1, <1>5, <2>2 DEF Links, OwnersExist
    <3>2. CASE InBox(s, k)
      <4>1. PICK z \in Conn : \E i \in 1 .. Len(s.conn[z].acceptmbox) : s.conn[z].acceptmbox[i] = k
        BY <3>2 DEF InBox
      <4>2. PICK i \in 1 .. Len(s.conn[z].acceptmbox) : s.conn[z].acceptmbox[i] = k
        BY <4>1
      <4>3. i \in 1 .. Len(e.conn[z].acceptmbox) /\ e.conn[z].acceptmbox[i] = k
        <5>1. CASE z = c
          <6>1. i \in 1 .. Len(q) /\ q[i] = k
            BY <4>2, <5>1 DEF q
          <6>2. i \in 1 .. Len(q) + 1
            BY <1>7, <6>1
          <6> QED BY <1>9, <5>1, <6>1, <6>2
        <5>2. CASE z # c
          BY <1>6, <4>2, <5>2
        <5> QED BY <5>1, <5>2
      <4> QED BY <4>3 DEF HasOwner, InBox
    <3> QED BY <1>4, <3>1, <3>2 DEF HasOwner
  <2> QED BY <2>1, <2>2
<1>16. SocksTaken(e, w)
  <2> SUFFICES ASSUME NEW f \in Fd, e.sock[f].conn # NoFd
               PROVE  SockTaken(e, w, f)
    BY DEF SocksTaken
  <2>1. s.sock[f].conn = e.sock[f].conn /\ s.sock[f].conn \in Conn
    BY <1>10
  <2>2. SockTaken(s, w, f)
    BY <1>1, <2>1 DEF Links, SocksTaken
  <2> QED BY <1>4, <2>1, <2>2 DEF SockTaken
<1> QED BY <1>12, <1>13, <1>14, <1>15, <1>16 DEF Links
(* accept_function: the listener counts one more, the new netconn none.    *)
LEMMA ArrivalKeeps ==
  ASSUME NEW s, NEW w, SockInv(s, w), NEW c \in Conn, NEW d \in Conn, NEW e, Arrives(s, e, c, d),
         s.conn[c].acceptOk, Len(s.conn[c].acceptmbox) < AcceptMbox
  PROVE  SockInv(e, w)
<1> DEFINE n == s.conn[c]
           q == s.conn[c].acceptmbox
<1>1. /\ s \in NetRec /\ Types(s, w) /\ Conns(s) /\ Shapes(w) /\ AllApart(w) /\ Links(s, w)
      /\ Talks(s, w) /\ Stages(s, w) /\ Counts(s, w) /\ Selects(s, w) /\ e \in NetRec
  BY DEF SockInv, Types, Arrives
<1>2. /\ ~s.conn[d].used /\ s.conn[d].socket = -1 /\ d # c
  BY FreeFields DEF Arrives
<1>3. \A t \in User : w[t] \in UserRec /\ Shape(w[t]) /\ Holds(s, w[t]) /\ Brings(s, w[t])
                      /\ Hears(s, t, w[t]) /\ Stage(s, t, w[t])
  BY <1>1 DEF Types, Shapes, Links, Talks, Stages
<1>4. n \in ConnRec /\ ConnSane(n) /\ Bounds(n) /\ n.socket >= 0 /\ n.socket \in Fd /\ n.used
  <2>1. n \in ConnRec /\ ConnSane(n) /\ Bounds(n)
    BY ConnFacts
  <2>2. n.socket \in Int /\ n.socket >= 0 /\ n.pcb # "none"
    BY <1>1, <2>1, Entries DEF ConnSane
  <2>3. n.socket \in Fd
    BY <2>1, <2>2, SocketAssumption DEF Bounds, Fd
  <2>4. n.used
    BY <2>1, <2>2, PcbUsed
  <2> QED BY <2>1, <2>2, <2>3, <2>4
<1>5. \A k \in Conn : k # c /\ k # d => e.conn[k] = s.conn[k]
  BY DEF Arrives
<1>6. q \in Seq(Conn) /\ Len(q) \in Nat /\ Len(e.conn[c].acceptmbox) = Len(q) + 1
      /\ e.conn[c].acceptmbox # <<>>
  <2>1. q \in Seq(Conn)
    BY <1>1, Entries
  <2>2. e.conn[c].acceptmbox = Append(q, d)
    BY DEF Arrives
  <2> HIDE DEF q
  <2>3. Len(e.conn[c].acceptmbox) = Len(q) + 1 /\ Len(q) \in Nat
    BY <2>1, <2>2, AppendProperties
  <2> QED BY <2>1, <2>3, EmptySeq
<1>7. Listener(n, e.conn[c])
  BY DEF Arrives
<1>8. Types(e, w)
  <2> SUFFICES ASSUME NEW k \in Conn PROVE Bounds(e.conn[k])
    BY <1>1 DEF Types
  <2>1. CASE k = c
    <3>1. Len(q) + 1 <= AcceptMbox
      BY <1>6, SocketAssumption
    <3> QED BY <1>4, <1>6, <1>7, <2>1, <3>1, Zenon DEF Bounds, Listener
  <2>2. CASE k = d
    <3>1. Len(<<>>) = 0 /\ 0 <= RecvMbox /\ 0 <= AcceptMbox /\ -1 < NumConn
      BY SocketAssumption
    <3> QED BY <2>2, <3>1 DEF Bounds, Arrives
  <2>3. CASE k # c /\ k # d
    BY <1>1, <1>5, <2>3 DEF Types
  <2> QED BY <2>1, <2>2, <2>3
<1>9. Conns(e)
  <2> SUFFICES ASSUME NEW k \in Conn PROVE ConnSane(e.conn[k])
    BY DEF Conns
  <2>1. CASE k = c
    BY <1>4, <1>7, <2>1, Zenon DEF ConnSane, Listener
  <2>2. CASE k = d
    <3>1. /\ e.conn[d].used /\ e.conn[d].acceptmbox = <<>> /\ e.conn[d].msg = NoUser
          /\ e.conn[d].done = 0 /\ e.conn[d].state = "NONE" /\ e.conn[d].pcb = "est"
          /\ ~e.conn[d].acceptOk
      BY DEF Arrives
    <3> QED BY <2>2, <3>1 DEF ConnSane, Busy, Live
  <2>3. CASE k # c /\ k # d
    BY <1>1, <1>5, <2>3 DEF Conns
  <2> QED BY <2>1, <2>2, <2>3
<1>10. Links(e, w)
  BY ArrivalLinks
(* No task is engaged with the new netconn.                                *)
<1>11. \A z \in User : Engaged(w[z]) => w[z].conn \in Conn /\ w[z].conn # d
  <2> SUFFICES ASSUME NEW z \in User, Engaged(w[z]) PROVE w[z].conn \in Conn /\ w[z].conn # d
    OBVIOUS
  <2>1. w[z].conn \in Conn /\ (s.conn[w[z].conn].used \/ s.conn[w[z].conn].socket \in Fd)
    BY <1>1, EngagedOn
  <2> QED BY <1>2, <2>1, NoFdIsNone DEF NoFd
<1>12. Talks(e, w)
  <2>1. ASSUME NEW t \in User PROVE Hears(e, t, w[t])
    <3>1. Hears(s, t, w[t]) /\ w[t] \in UserRec /\ Shape(w[t]) /\ e.ans[t] = s.ans[t]
      BY <1>3, <2>1 DEF Arrives
    <3>2. Engaged(w[t]) /\ w[t].op \notin {"socket", "accept"} => w[t].conn = e.sock[w[t].fd].conn
      <4> SUFFICES ASSUME Engaged(w[t]), w[t].op \notin {"socket", "accept"}
                   PROVE  w[t].conn = e.sock[w[t].fd].conn
        OBVIOUS
      <4>1. w[t].fd \in Fd
        BY <1>1, <2>1, EngagedOn DEF Brought
      <4> QED BY <3>1, <4>1 DEF Hears, Arrives
    <3>3. Engaged(w[t]) => /\ e.conn[w[t].conn].done = s.conn[w[t].conn].done
                           /\ e.conn[w[t].conn].msg = s.conn[w[t].conn].msg
      <4> SUFFICES ASSUME Engaged(w[t])
                   PROVE  /\ e.conn[w[t].conn].done = s.conn[w[t].conn].done
                          /\ e.conn[w[t].conn].msg = s.conn[w[t].conn].msg
        OBVIOUS
      <4> QED BY <1>5, <1>7, <1>11, <2>1 DEF Listener
    <3> QED BY <3>1, <3>2, <3>3 DEF Hears, Engaged
  <2>2. ASSUME NEW k \in Conn PROVE HeardOf(e, w, k)
    <3>1. HeardOf(s, w, k)
      BY <1>1, <2>2 DEF Talks
    <3>2. CASE k = c
      BY <1>7, <3>1, <3>2 DEF HeardOf, Listener
    <3>3. CASE k = d
      <4>1. e.conn[d].msg = NoUser /\ e.conn[d].done = 0 /\ e.conn[d].state = "NONE"
        BY DEF Arrives
      <4> QED BY <3>3, <4>1 DEF HeardOf
    <3>4. CASE k # c /\ k # d
      BY <1>5, <3>1, <3>4 DEF HeardOf
    <3> QED BY <3>2, <3>3, <3>4
  <2> QED BY <2>1, <2>2 DEF Talks
<1>13. Stages(e, w)
  <2> SUFFICES ASSUME NEW t \in User PROVE Stage(e, t, w[t])
    BY DEF Stages
  <2> DEFINE u == w[t]
  <2>1. Stage(s, t, u) /\ e.ans[t] = s.ans[t] /\ u \in UserRec /\ Shape(u) /\ Holds(s, u)
    BY <1>3 DEF Arrives
  <2>2. Closing(u) => Deleting(e.conn[u.conn])
    <3> SUFFICES ASSUME Closing(u) PROVE Deleting(e.conn[u.conn])
      OBVIOUS
    <3>1. Deleting(s.conn[u.conn]) /\ Engaged(u)
      BY <2>1 DEF Stage, Closing
    <3>2. u.conn # c /\ u.conn # d /\ u.conn \in Conn
      BY <1>11, <3>1 DEF Deleting
    <3> QED BY <1>5, <3>1, <3>2
  <2>3. Making(u) => Fresh(e.conn[u.conn], e.ans[t])
    <3> SUFFICES ASSUME Making(u) PROVE Fresh(e.conn[u.conn], e.ans[t])
      OBVIOUS
    <3>1. Fresh(s.conn[u.conn], s.ans[t]) /\ Engaged(u)
      BY <2>1 DEF Stage, Making
    <3>2. u.conn # c /\ u.conn # d /\ u.conn \in Conn
      BY <1>11, <3>1 DEF Fresh
    <3> QED BY <1>5, <2>1, <3>1, <3>2
  <2>4. u.pc = "fetch" /\ u.op = "recv" => Fetching(e.conn[e.sock[u.fd].conn], u)
    <3> SUFFICES ASSUME u.pc = "fetch", u.op = "recv"
                 PROVE  Fetching(e.conn[e.sock[u.fd].conn], u)
      OBVIOUS
    <3>1. u.fd \in Fd /\ u.fd # NoFd /\ u.fd >= 0
      <4>1. u.op \in OnFd
        BY DEF OnFd
      <4>2. u.fd # NoFd /\ u.fd \in Fd \cup {NoFd}
        BY <2>1, <4>1, UserFields DEF Shape
      <4> HIDE DEF u
      <4>3. u.fd \in Fd
        BY <4>2
      <4>4. u.fd \in Nat
        BY <4>3, NoFdIsNone, Zenon
      <4> QED BY <4>2, <4>3, <4>4
    <3>2. s.conn[s.sock[u.fd].conn].socket = u.fd /\ s.sock[u.fd].conn \in Conn
          /\ e.sock[u.fd].conn = s.sock[u.fd].conn
      BY <1>1, <2>1, <3>1, Entries DEF Holds, Arrives
    <3>3. Fetching(s.conn[s.sock[u.fd].conn], u)
      BY <2>1 DEF Stage
    <3>4. s.sock[u.fd].conn # c
      BY <1>4, <3>3 DEF Fetching, ConnSane
    <3>5. s.sock[u.fd].conn # d
      BY <1>2, <3>1, <3>2 DEF NoFd
    <3> QED BY <1>5, <3>2, <3>3, <3>4, <3>5, Zenon
  <2> QED BY <2>2, <2>3, <2>4 DEF Stage
<1>14. Counts(e, w)
  <2>1. ASSUME NEW k \in Conn PROVE CountOf(e, w, k) /\ Writable(e, k)
    <3>1. CountOf(s, w, k) /\ Writable(s, k)
      BY <1>1, <2>1 DEF Counts
    <3>2. CASE k = c
      <4>1. Raw(e, c) = Raw(s, c) + 1 /\ Raw(s, c) \in Int /\ Pending(w, n.socket) \in {0, 1}
            /\ Len(n.recvmbox) \in Nat
        <5>1. n.socket \in Int /\ s.sock[n.socket].rcvevent \in Int /\ Len(n.recvmbox) \in Nat
          BY <1>1, <1>4, NetFields, SockFields, ConnFields
        <5> QED BY <5>1 DEF Arrives, Raw, Pending
      <4>2. ASSUME e.conn[c].used, ~e.conn[c].fatal, Unclosed(w, c)
            PROVE  Raw(e, c) - Pending(w, e.conn[c].socket)
                     = Len(e.conn[c].recvmbox) + Len(e.conn[c].acceptmbox)
        <5>1. Raw(s, c) - Pending(w, n.socket) = Len(n.recvmbox) + Len(q)
          BY <1>7, <3>1, <3>2, <4>2, Zenon DEF CountOf, Listener
        <5>2. e.conn[c].socket = n.socket /\ e.conn[c].recvmbox = n.recvmbox
          BY <1>7 DEF Listener
        <5>3. /\ Raw(e, c) = Raw(s, c) + 1 /\ Raw(s, c) \in Int /\ Pending(w, n.socket) \in Int
              /\ Len(n.recvmbox) \in Nat /\ Len(q) \in Nat
              /\ Len(e.conn[c].acceptmbox) = Len(q) + 1
          BY <1>6, <4>1
        <5> HIDE DEF n, q
        <5>4. Raw(e, c) - Pending(w, n.socket) = Len(n.recvmbox) + (Len(q) + 1)
          <6> DEFINE a == Raw(s, c)
                     g == Pending(w, n.socket)
                     l == Len(n.recvmbox)
                     b == Len(q)
          <6>1. a \in Int /\ g \in Int /\ l \in Int /\ b \in Int
            BY <5>3
          <6>2. a - g = l + b
            BY <5>1
          <6>3. Raw(e, c) = a + 1
            BY <5>3
          <6> HIDE DEF a, g, l, b
          <6>4. (a + 1) - g = l + (b + 1)
            BY <6>1, <6>2
          <6>5. Raw(e, c) - g = l + (b + 1)
            BY <6>3, <6>4
          <6> QED BY <6>5, Zenon DEF a, g, l, b
        <5> QED BY <5>2, <5>3, <5>4, Zenon
      <4>3. Writable(e, c)
        <5>1. e.conn[c].pcb = "listen"
          BY <1>4, <1>7 DEF Listener, ConnSane
        <5> QED BY <5>1 DEF Writable, Live
      <4> QED BY <3>2, <4>2, <4>3, Zenon DEF CountOf
    <3>3. CASE k = d
      <4>1. e.conn[d].socket = -1 /\ e.conn[d].acceptmbox = <<>> /\ e.conn[d].recvmbox = <<>>
        BY DEF Arrives
      <4>2. Raw(e, d) = 0 /\ Pending(w, e.conn[d].socket) = 0 /\ Len(<<>>) = 0
        BY <4>1 DEF Raw, Pending
      <4>3. Writable(e, d)
        BY <4>1 DEF Writable
      <4> QED BY <3>3, <4>1, <4>2, <4>3 DEF CountOf
    <3>4. CASE k # c /\ k # d
      <4>1. e.conn[k] = s.conn[k]
        BY <1>5, <3>4
      <4>2. s.conn[k].socket >= 0 => e.sock[s.conn[k].socket] = s.sock[s.conn[k].socket]
        <5> SUFFICES ASSUME s.conn[k].socket >= 0
                     PROVE  e.sock[s.conn[k].socket] = s.sock[s.conn[k].socket]
          OBVIOUS
        <5>1. s.sock[s.conn[k].socket].conn = k /\ s.sock[n.socket].conn = c
          BY <1>1, <1>4 DEF Links, SockConn
        <5>2. s.conn[k].socket \in Fd
          BY <1>1, Entries, SocketAssumption DEF Types, Bounds, Fd
        <5> QED BY <3>4, <5>1, <5>2 DEF Arrives
      <4>3. Raw(e, k) = Raw(s, k)
        <5>1. s.conn[k].socket \in Int
          BY <1>1, Entries
        <5> QED BY <4>1, <4>2, <5>1 DEF Raw
      <4> QED BY <3>1, <4>1, <4>2, <4>3, Zenon DEF CountOf, Writable
    <3> QED BY <3>2, <3>3, <3>4
  <2>2. ASSUME NEW t \in User PROVE SlotFresh(e, w[t])
    <3> SUFFICES ASSUME w[t].new # NoFd
                 PROVE  e.sock[w[t].new] = s.sock[w[t].new]
      BY <1>1, <2>2 DEF SlotFresh, Counts
    <3>1. w[t].new \in Fd /\ s.sock[w[t].new].conn = Brought(w[t])
          /\ s.conn[Brought(w[t])].socket < 0
      BY <1>3, <2>2, UserFields DEF Brings
    <3>2. s.sock[n.socket].conn = c
      BY <1>1, <1>4 DEF Links, SockConn
    <3>3. w[t].new # n.socket
      <4> SUFFICES ASSUME w[t].new = n.socket PROVE FALSE
        OBVIOUS
      <4>1. Brought(w[t]) = c
        BY <3>1, <3>2
      <4>2. n.socket \in Int /\ n.socket < 0 /\ n.socket >= 0
        BY <1>1, <1>4, <3>1, <4>1, Entries
      <4> HIDE DEF n
      <4> QED BY <4>2
    <3> QED BY <3>1, <3>3 DEF Arrives
  <2> QED BY <2>1, <2>2 DEF Counts
<1>15. Selects(e, w)
  <2>1. SelKept(s, e) /\ e.moved = s.moved /\ e.list = s.list
    BY DEF Arrives, SelKept
  <2>2. WantKept(s, e)
    <3> SUFFICES ASSUME NEW t \in User, NEW fd \in WantsOf(s, t)
                 PROVE  e.sock[fd].conn # NoFd /\ e.conn[e.sock[fd].conn].socket = fd
      BY DEF WantKept
    <3>1. s.sock[fd].conn # NoFd /\ s.conn[s.sock[fd].conn].socket = fd
      BY <1>1 DEF Selects, Wanted
    <3>2. fd \in Fd /\ s.sock[fd].conn \in Conn /\ e.sock[fd].conn = s.sock[fd].conn
      <4>1. fd \in Fd
        BY <1>1, WantsAreFds
      <4> QED BY <1>1, <3>1, <4>1, Entries DEF Arrives
    <3>3. s.sock[fd].conn # d
      BY <1>2, <3>1, <3>2, NoFdIsNone DEF NoFd
    <3> QED BY <1>5, <1>7, <3>1, <3>2, <3>3 DEF Listener
  <2>3. SelUsers(s, e, w, w)
    <3>1. \A v \in User : w[v].pc = "look" => v \in s.moved \/ w[v].scb \in Listed(s)
      BY <1>1 DEF Selects, Selecting
    <3> QED BY <2>1, <3>1 DEF SelUsers, Listed
  <2> QED BY <1>1, <1>8, <2>1, <2>2, <2>3, SelectFrame
<1> QED BY <1>1, <1>8, <1>9, <1>10, <1>12, <1>13, <1>14, <1>15 DEF SockInv

(* accept_function of the thread of the stack.                             *)
LEMMA AcceptFunctionKeeps ==
  ASSUME SockInv(net, user), NEW c \in Conn, accept_function(c)
  PROVE  SockInv(net', user')
<1> DEFINE m == [netconn_alloc("tcp") EXCEPT !.pcb = "est", !.snd = SndBuf]
           After(d) == event_callback([net EXCEPT !.conn[d] = m,
                                       !.conn[c].acceptmbox = Append(@, d)], c, "RCVPLUS")
<1>1. /\ user' = user /\ net.conn[c].acceptOk /\ Len(net.conn[c].acceptmbox) < AcceptMbox
      /\ \E d \in Conn : ~net.conn[d].used /\ net' = After(d)
  BY Zenon DEF accept_function, Callback
<1>2. PICK d \in Conn : ~net.conn[d].used /\ net' = After(d)
  BY <1>1, Zenon
<1>3. Arrives(net, net', c, d)
  BY <1>1, <1>2, AcceptArrives, Zenon
<1>4. SockInv(net', user)
  BY <1>1, <1>3, ArrivalKeeps
<1> QED BY <1>1, <1>4
-----------------------------------------------------------------------------
(* accept() fetches a connection from the queue of its listener.           *)

(* From s to e the first connection d leaves the queue of listener c.      *)
Takes(s, e, c, d) ==
  /\ e \in NetRec /\ Listener(s.conn[c], e.conn[c])
  /\ s.conn[c].acceptmbox # <<>> /\ d = Head(s.conn[c].acceptmbox)
  /\ e.conn[c].acceptmbox = Tail(s.conn[c].acceptmbox)
  /\ \A k \in Conn : k # c => e.conn[k] = s.conn[k]
  /\ e.sock = s.sock

(* The queue without its first entry.                                      *)
WithoutFirst(q, b, d) ==
  /\ q \in Seq(Conn) /\ Len(q) \in Nat /\ Len(q) >= 1 /\ d \in Conn /\ d = q[1]
  /\ b \in Seq(Conn) /\ Len(b) = Len(q) - 1
  /\ \A j \in 1 .. Len(q) - 1 : b[j] = q[j + 1]

(* Takes() leaves the queue of its netconn without its first entry.        *)
LEMMA TakenBox ==
  ASSUME NEW s \in NetRec, NEW c \in Conn, NEW e, NEW d, Takes(s, e, c, d), NEW q,
         q = s.conn[c].acceptmbox
  PROVE  WithoutFirst(q, e.conn[c].acceptmbox, d)
<1>1. q \in Seq(Conn) /\ q # <<>> /\ d = Head(q) /\ e.conn[c].acceptmbox = Tail(q)
  BY Entries DEF Takes
<1>2. Len(q) \in Nat /\ Len(q) # 0
  BY <1>1, EmptySeq
<1>3. /\ Head(q) \in Conn /\ Tail(q) \in Seq(Conn) /\ Len(Tail(q)) = Len(q) - 1
      /\ \A i \in 1 .. Len(Tail(q)) : Tail(q)[i] = q[i + 1]
  BY <1>1, HeadTailProperties
<1>4. Head(q) = q[1]
  BY <1>1
<1> QED BY <1>1, <1>2, <1>3, <1>4 DEF WithoutFirst

(* The connection goes from the queue to the task, and to nobody else.     *)
LEMMA TakeLinks ==
  ASSUME NEW s, NEW w, NEW e, Types(s, w), Links(s, w), AllApart(w), NEW c \in Conn, NEW d,
         Takes(s, e, c, d), NEW t \in User, Brought(w[t]) = NoFd, w[t].new = NoFd, w[t].pc # "free",
         NEW u \in UserRec, Brought(u) = d, u.fd = w[t].fd, u.new = NoFd, u.pc # "free",
         NEW x, x = [w EXCEPT ![t] = u]
  PROVE  Links(e, x) /\ AllApart(x)
<1> DEFINE q == s.conn[c].acceptmbox
<1>1. s \in NetRec /\ e \in NetRec /\ w \in [User -> UserRec]
  BY DEF Types, Takes
<1>2. x[t] = u /\ \A v \in User : v # t => x[v] = w[v]
  BY <1>1
<1>3. /\ q \in Seq(Conn) /\ Len(q) \in Nat /\ Len(q) >= 1 /\ d \in Conn /\ d = q[1]
      /\ e.conn[c].acceptmbox \in Seq(Conn) /\ Len(e.conn[c].acceptmbox) = Len(q) - 1
      /\ \A j \in 1 .. Len(q) - 1 : e.conn[c].acceptmbox[j] = q[j + 1]
  <2>1. q = s.conn[c].acceptmbox
    OBVIOUS
  <2> HIDE DEF q
  <2>2. WithoutFirst(q, e.conn[c].acceptmbox, d)
    BY ONLY c \in Conn, Takes(s, e, c, d), <2>1, <1>1, TakenBox
  <2> QED BY ONLY <2>2 DEF WithoutFirst
<1>4. d # NoFd /\ 1 \in 1 .. Len(q)
  BY <1>3, NoFdIsNone
<1>5. \A k \in Conn : s.conn[k].socket \in Int /\ e.conn[k].socket = s.conn[k].socket
                      /\ e.conn[k].used = s.conn[k].used /\ s.conn[k].acceptmbox \in Seq(Conn)
  BY <1>1, Entries, Zenon DEF Takes, Listener
<1>6. \A k \in Conn : k # c => e.conn[k].acceptmbox = s.conn[k].acceptmbox
  BY DEF Takes
<1>7. \A f \in Fd : e.sock[f].conn = s.sock[f].conn /\ s.sock[f].conn \in Conn \cup {NoFd}
  BY <1>1, Entries DEF Takes
<1>8. Boxed(s, w, c, 1)
  BY <1>4 DEF Links, Boxes
<1>9. /\ s.conn[d].used /\ s.conn[d].socket < 0 /\ \A v \in User : Brought(w[v]) # d
      /\ \A k \in Conn : \A j \in 1 .. Len(s.conn[k].acceptmbox) :
           s.conn[k].acceptmbox[j] = d => k = c /\ j = 1
  BY <1>3, <1>8 DEF Boxed
<1> HIDE DEF q
(* What is in a queue of e was there in s, one place further on for c.     *)
<1>10. ASSUME NEW k \in Conn, NEW i \in 1 .. Len(e.conn[k].acceptmbox)
       PROVE  LET j == IF k = c THEN i + 1 ELSE i
              IN  /\ j \in 1 .. Len(s.conn[k].acceptmbox) /\ e.conn[k].acceptmbox[i] = s.conn[k].acceptmbox[j]
                  /\ s.conn[k].acceptmbox[j] \in Conn /\ s.conn[k].acceptmbox[j] # d
  <2>1. CASE k = c
    <3>1. i \in 1 .. Len(q) - 1 /\ i + 1 \in 1 .. Len(q) /\ i + 1 # 1
      BY <1>3, <2>1
    <3>2. e.conn[c].acceptmbox[i] = q[i + 1] /\ q[i + 1] \in Conn
      BY <1>3, <3>1
    <3>3. q[i + 1] # d
      BY <1>9, <3>1 DEF q
    <3> QED BY <2>1, <3>1, <3>2, <3>3 DEF q
  <2>2. CASE k # c
    <3>1. e.conn[k].acceptmbox = s.conn[k].acceptmbox /\ i \in 1 .. Len(s.conn[k].acceptmbox)
      BY <1>6, <2>2
    <3>2. s.conn[k].acceptmbox[i] \in Conn /\ s.conn[k].acceptmbox[i] # d
      BY <1>5, <1>9, <2>2, <3>1
    <3> QED BY <2>2, <3>1, <3>2
  <2> QED BY <2>1, <2>2
<1>11. SockConn(e)
  <2> SUFFICES ASSUME NEW k \in Conn, e.conn[k].socket >= 0
               PROVE  e.sock[e.conn[k].socket].conn = k
    BY DEF SockConn
  <2>1. s.conn[k].socket >= 0 /\ e.conn[k].socket = s.conn[k].socket
    BY <1>5
  <2>2. s.sock[s.conn[k].socket].conn = k
    BY <2>1 DEF Links, SockConn
  <2> QED BY <2>1, <2>2 DEF Takes
<1>12. ASSUME NEW v \in User PROVE Holds(e, x[v]) /\ Brings(e, x[v])
  <2>1. Holds(s, w[v]) /\ Brings(s, w[v]) /\ w[v].fd \in Fd \cup {NoFd}
        /\ w[v].new \in Fd \cup {NoFd} /\ Brought(w[v]) \in Conn \cup {NoFd}
    BY <1>1, <1>12, UserFields DEF Links
  <2>2. Holds(e, w[v]) /\ Brings(e, w[v])
    BY <1>5, <1>7, <2>1, Zenon DEF Holds, Brings
  <2>3. CASE v = t
    <3>1. Holds(e, u)
      BY <2>2, <2>3 DEF Holds
    <3>2. Brings(e, u)
      BY <1>3, <1>5, <1>9 DEF Brings
    <3> QED BY <1>2, <2>3, <3>1, <3>2
  <2>4. CASE v # t
    BY <1>2, <2>2, <2>4
  <2> QED BY <2>3, <2>4
<1>13. Boxes(e, x)
  <2> SUFFICES ASSUME NEW k \in Conn, NEW i \in 1 .. Len(e.conn[k].acceptmbox)
               PROVE  Boxed(e, x, k, i)
    BY Zenon DEF Boxes
  <2> DEFINE j == IF k = c THEN i + 1 ELSE i
             b == s.conn[k].acceptmbox[j]
  <2>1. j \in 1 .. Len(s.conn[k].acceptmbox) /\ e.conn[k].acceptmbox[i] = b /\ b \in Conn /\ b # d
    BY <1>10, Zenon
  <2>2. Boxed(s, w, k, j)
    BY <2>1 DEF Links, Boxes
  <2>3. /\ s.conn[b].used /\ s.conn[b].socket < 0 /\ (\A v \in User : Brought(w[v]) # b)
        /\ \A z \in Conn : \A h \in 1 .. Len(s.conn[z].acceptmbox) :
             s.conn[z].acceptmbox[h] = b => z = k /\ h = j
    BY <2>2 DEF Boxed
  <2>4. e.conn[b].used /\ e.conn[b].socket < 0 /\ \A v \in User : Brought(x[v]) # b
    <3> HIDE DEF b, j
    <3>1. e.conn[b].used /\ e.conn[b].socket < 0
      BY <1>5, <2>1, <2>3
    <3>2. \A v \in User : Brought(x[v]) # b
      BY <1>2, <2>1, <2>3
    <3> QED BY <3>1, <3>2
  <2>5. ASSUME NEW z \in Conn, NEW h \in 1 .. Len(e.conn[z].acceptmbox), e.conn[z].acceptmbox[h] = b
        PROVE  z = k /\ h = i
    <3> DEFINE g == IF z = c THEN h + 1 ELSE h
    <3>1. g \in 1 .. Len(s.conn[z].acceptmbox) /\ s.conn[z].acceptmbox[g] = b
      BY <1>10, <2>5, Zenon
    <3> HIDE DEF b
    <3>2. z = k /\ g = j
      BY <2>3, <3>1
    <3>3. i \in Int /\ h \in Int
      BY <1>3, <1>5, <1>6
    <3> QED BY <3>2, <3>3
  <2> QED BY <2>1, <2>4, <2>5 DEF Boxed
<1>14. OwnersExist(e, x)
  <2> SUFFICES ASSUME NEW k \in Conn, e.conn[k].used
               PROVE  HasOwner(e, x, k)
    BY Zenon DEF OwnersExist
  <2>1. CASE k = d
    BY <1>2, <2>1 DEF HasOwner
  <2>2. CASE k # d
    <3>1. HasOwner(s, w, k)
      BY <1>5 DEF Links, OwnersExist
    <3>2. CASE InBox(s, k)
      <4>1. PICK z \in Conn : \E i \in 1 .. Len(s.conn[z].acceptmbox) : s.conn[z].acceptmbox[i] = k
        BY <3>2 DEF InBox
      <4>2. PICK i \in 1 .. Len(s.conn[z].acceptmbox) : s.conn[z].acceptmbox[i] = k
        BY <4>1
      <4>3. CASE z = c
        <5>1. i \in 1 .. Len(q) /\ q[i] = k
          BY <4>2, <4>3 DEF q
        <5>2. i # 1
          BY <1>3, <2>2, <5>1
        <5>3. i - 1 \in 1 .. Len(q) - 1 /\ (i - 1) + 1 = i
          BY <1>3, <5>1, <5>2
        <5>4. e.conn[c].acceptmbox[i - 1] = k /\ i - 1 \in 1 .. Len(e.conn[c].acceptmbox)
          BY <1>3, <5>1, <5>3, Zenon
        <5>5. InBox(e, k)
          BY <5>4 DEF InBox
        <5> QED BY <5>5 DEF HasOwner
      <4>4. CASE z # c
        <5>1. InBox(e, k)
          BY <1>6, <4>2, <4>4 DEF InBox
        <5> QED BY <5>1 DEF HasOwner
      <4> QED BY <4>3, <4>4
    <3>3. CASE \E v \in User : Brought(w[v]) = k
      <4>1. PICK v \in User : Brought(w[v]) = k
        BY <3>3
      <4>2. v # t
        BY <4>1, NoFdIsNone
      <4>3. Brought(x[v]) = k
        BY <1>2, <4>1, <4>2
      <4> QED BY <4>3 DEF HasOwner
    <3> QED BY <1>5, <3>1, <3>2, <3>3 DEF HasOwner
  <2> QED BY <2>1, <2>2
<1>15. SocksTaken(e, x)
  <2> SUFFICES ASSUME NEW f \in Fd, e.sock[f].conn # NoFd
               PROVE  SockTaken(e, x, f)
    BY Zenon DEF SocksTaken
  <2>1. s.sock[f].conn = e.sock[f].conn /\ s.sock[f].conn \in Conn /\ f # NoFd
    BY <1>7, FdFacts
  <2>2. SockTaken(s, w, f)
    BY <2>1 DEF Links, SocksTaken
  <2>3. CASE s.conn[s.sock[f].conn].socket = f
    BY <1>5, <2>1, <2>3 DEF SockTaken
  <2>4. CASE \E v \in User : w[v].new = f \/ (w[v].pc = "free" /\ w[v].fd = f)
    <3>1. PICK v \in User : w[v].new = f \/ (w[v].pc = "free" /\ w[v].fd = f)
      BY <2>4
    <3>2. v # t
      BY <2>1, <3>1
    <3>3. x[v].new = f \/ (x[v].pc = "free" /\ x[v].fd = f)
      BY <1>2, <3>1, <3>2
    <3> QED BY <3>3 DEF SockTaken
  <2> QED BY <2>2, <2>3, <2>4 DEF SockTaken
<1>16. AllApart(x)
  <2> SUFFICES ASSUME NEW y \in User, NEW z \in User, y # z
               PROVE  Apart(x[y], x[z])
    BY DEF AllApart
  <2>1. Apart(w[y], w[z])
    BY DEF AllApart
  <2>2. CASE y = t
    BY <1>2, <1>9, <2>1, <2>2 DEF Apart
  <2>3. CASE z = t
    <3>1. x[y] = w[y] /\ Brought(w[y]) # d
      BY <1>2, <1>9, <2>3
    <3> QED BY <1>2, <2>1, <2>3, <3>1 DEF Apart
  <2>4. CASE y # t /\ z # t
    BY <1>2, <2>1, <2>4
  <2> QED BY <2>2, <2>3, <2>4
<1> QED BY <1>11, <1>12, <1>13, <1>14, <1>15, <1>16 DEF Links

(* A step that keeps the netconns of the descriptors in use.               *)
LEMMA WantStays ==
  ASSUME NEW s, NEW w, SockInv(s, w), NEW e,
         \A f \in Fd : s.sock[f].conn # NoFd /\ s.conn[s.sock[f].conn].socket = f
           => e.sock[f].conn = s.sock[f].conn /\ e.conn[s.sock[f].conn].socket = f
  PROVE  WantKept(s, e)
<1> SUFFICES ASSUME NEW t \in User, NEW fd \in WantsOf(s, t)
             PROVE  e.sock[fd].conn # NoFd /\ e.conn[e.sock[fd].conn].socket = fd
  BY DEF WantKept
<1>1. s \in NetRec /\ Wanted(s, w, t)
  BY DEF SockInv, Types, Selects
<1>2. fd \in Fd
  BY <1>1, WantsAreFds
<1>3. s.sock[fd].conn # NoFd /\ s.conn[s.sock[fd].conn].socket = fd
  BY <1>1 DEF Wanted
<1> QED BY <1>2, <1>3

(* From s to e descriptor f has the same counters, or nobody waits for it. *)
Steady(s, e, f) ==
  /\ e.sock[f].waiting = s.sock[f].waiting
  /\ \/ s.sock[f].waiting = 0
     \/ e.sock[f].rcvevent = s.sock[f].rcvevent /\ e.sock[f].sendevent = s.sock[f].sendevent

(* A step that changes no counters of the descriptors select() waits for.  *)
LEMMA SelStays ==
  ASSUME NEW s, NEW e, e.list = s.list, e.want = s.want, e.sig = s.sig, \A f \in Fd : Steady(s, e, f)
  PROVE  SelKept(s, e)
<1>2. ASSUME NEW f \in Fd, NEW z, s.sock[f].waiting # 0, Asks(e, z, f)
      PROVE  Asks(s, z, f)
  <2>1. Steady(s, e, f) /\ s.sock[f].waiting # 0 /\ Asks(e, z, f) /\ e.want = s.want
    BY <1>2
  <2>2. /\ e.sock[f].rcvevent = s.sock[f].rcvevent /\ e.sock[f].sendevent = s.sock[f].sendevent
    BY <2>1 DEF Steady
  <2> QED BY ONLY <2>1, <2>2 DEF Asks
<1>3. \A f \in Fd : \A z \in Listed(s) :
        s.sock[f].waiting # 0 /\ Asks(e, z, f) => Asks(s, z, f) \/ z \in e.sig
  BY <1>2
<1>4. \A f \in Fd : e.sock[f].waiting = s.sock[f].waiting
  BY DEF Steady
<1>5. e.list = s.list /\ e.want = s.want /\ s.sig \subseteq e.sig
  OBVIOUS
<1> QED BY ONLY <1>3, <1>4, <1>5 DEF SelKept

(* TaskStep for one netconn.                                               *)
LEMMA OneStep ==
  ASSUME NEW s, NEW w, SockInv(s, w), NEW t \in User, NEW c \in Conn, Private(s, w, t, c), NEW F,
         NEW e, NEW u \in UserRec, NEW x, x = [w EXCEPT ![t] = u], ConnOK(e, x, c),
         OnlyOn(s, e, {c}, F), OthersAns(s, e, t),
         OnIt(s, w[t], {c}), OnIt(s, u, {c}), TaskOK(e, t, u), SelOK(s, e, w, t, u),
         AllApart(x), Links(e, x)
  PROVE  SockInv(e, x)
<1> DEFINE C == {c}
<1>1. C \in SUBSET Conn /\ (\A k \in C : Private(s, w, t, k) /\ ConnOK(e, x, k))
      /\ (\A v \in User : v # t => e.ans[v] = s.ans[v])
      /\ OnlyOn(s, e, C, F) /\ OnIt(s, w[t], C) /\ OnIt(s, u, C)
  BY DEF OthersAns
<1> HIDE DEF C
<1>2. TaskDone(s, w, e, x, t, u, C, F)
  BY ONLY <1>1, t \in User, u \in UserRec, x = [w EXCEPT ![t] = u], TaskOK(e, t, u),
          SelOK(s, e, w, t, u), AllApart(x), Links(e, x), Zenon DEF TaskDone
<1> QED BY ONLY SockInv(s, w), <1>2, TaskStep

(* FetchNewconn: the counter of the listener is due once more.             *)
LEMMA FetchNewconnKeeps ==
  ASSUME SockInv(net, user), NEW t \in User, FetchNewconn(t)
  PROVE  SockInv(net', user')
<1> DEFINE u == user[t]
           c == ConnOf(u.fd)
           n == net.conn[c]
           q == n.acceptmbox
           d == Head(n.acceptmbox)
           m == [n EXCEPT !.acceptmbox = Tail(n.acceptmbox)]
           e == PutConn(net, c, m)
           v == [u EXCEPT !.pc = "event", !.conn = d]
<1>0. u.pc = "fetch" /\ u.op = "accept" /\ q # <<>>
  BY DEF FetchNewconn
<1>1. Shape(u) /\ u \in UserRec /\ net \in NetRec
  BY DEF SockInv, Shapes, Types
<1>2. u.fd # NoFd /\ u.new = NoFd /\ u.conn = NoFd /\ ~Fetched(u) /\ ~Engaged(u) /\ ~Closing(u)
      /\ Brought(u) = NoFd
  BY <1>0, <1>1 DEF Shape, OnFd, Fetched, Engaged, Closing, Brought
<1>3. u.fd \in Fd /\ c \in Conn /\ n.socket = u.fd /\ n.used /\ Private(net, user, t, c)
      /\ net.sock[u.fd].conn = c /\ c # NoFd
  <2>1. u.pc # "free"
    BY <1>0
  <2>2. /\ u.fd \in Fd /\ net.sock[u.fd].conn \in Conn
        /\ net.conn[net.sock[u.fd].conn].socket = u.fd /\ net.conn[net.sock[u.fd].conn].used
        /\ Private(net, user, t, net.sock[u.fd].conn)
    BY <1>2, <2>1, PrivateCall
  <2>3. c = net.sock[u.fd].conn
    BY DEF ConnOf
  <2> HIDE DEF c
  <2> QED BY <2>2, <2>3, NoFdIsNone
<1>4. n \in ConnRec /\ ConnSane(n) /\ Bounds(n) /\ Writable(net, c)
  BY <1>3, ConnFacts DEF SockInv, Counts
<1>5. n.msg = NoUser /\ n.done = 0
  BY <1>0, <1>3, Quiet
<1>6. net' = e /\ user' = [user EXCEPT ![t] = v]
  <2>1. [net EXCEPT !.conn[c].acceptmbox = Tail(@)] = e
    BY <1>1, <1>3, Zenon DEF PutConn, NetRec
  <2> QED BY <2>1 DEF FetchNewconn, Set
<1>7. q \in Seq(Conn) /\ d \in Conn /\ Tail(q) \in Seq(Conn) /\ Len(Tail(q)) = Len(q) - 1
  <2>1. q \in Seq(Conn)
    BY <1>4, ConnFields
  <2> HIDE DEF q
  <2>2. Head(q) \in Conn /\ Tail(q) \in Seq(Conn) /\ Len(Tail(q)) = Len(q) - 1
    BY <1>0, <2>1, HeadTailProperties
  <2> QED BY <2>1, <2>2 DEF q
<1>8. m \in ConnRec /\ m.acceptmbox = Tail(q) /\ Listener(n, m) /\ m.snd = n.snd
  <2>1. m \in ConnRec
    BY <1>4, <1>7, Zenon DEF ConnRec
  <2> QED BY <1>4, <2>1, Zenon DEF Listener, ConnRec
<1>9. Len(m.acceptmbox) = Len(q) - 1
  BY <1>7, <1>8
<1>10. v \in UserRec /\ v.op = "accept" /\ v.fd = u.fd /\ v.new = NoFd /\ v.conn = d /\ v.pc = "event"
  BY <1>0, <1>1, <1>2, <1>7, Zenon DEF UserRec
<1>11. Fetched(v) /\ ~Closing(v) /\ ~Engaged(v) /\ ~Making(v) /\ Brought(v) = d /\ d # NoFd
  BY <1>7, <1>10, NoFdIsNone DEF Fetched, Closing, Engaged, Making, Brought
<1> HIDE DEF v, m
<1>12. OnlyConn(net, e, c, m) /\ Touch(net, e, c) /\ SameCounts(net, e, c)
  <2>1. m.socket = n.socket
    BY <1>8 DEF Listener
  <2> QED BY <1>1, <1>3, <1>8, <2>1, PutConnFields, PutConnTouch
<1> HIDE DEF e
<1>13. /\ e \in NetRec /\ e.conn[c] = m /\ e.ans = net.ans /\ e.sock = net.sock /\ e.moved = net.moved
       /\ (\A k \in Conn : k # c => e.conn[k] = net.conn[k]) /\ Raw(e, c) = Raw(net, c)
       /\ e.list = net.list /\ e.want = net.want /\ e.sig = net.sig
  BY <1>12 DEF OnlyConn, SameCounts
<1>14. Takes(net, e, c, d)
  BY <1>0, <1>8, <1>13 DEF Takes
<1>15. ConnSane(m) /\ Bounds(m)
  <2>1. n.acceptOk
    BY <1>0, <1>4 DEF ConnSane
  <2>2. Len(q) \in Nat /\ Len(q) <= AcceptMbox /\ AcceptMbox \in Nat
    BY <1>4, <1>7, SocketAssumption DEF Bounds
  <2>3. Len(m.acceptmbox) <= AcceptMbox
    BY <1>9, <2>2
  <2>4. /\ m.used = n.used /\ m.type = n.type /\ m.pcb = n.pcb /\ m.state = n.state
        /\ m.socket = n.socket /\ m.recvOk = n.recvOk /\ m.recvmbox = n.recvmbox
        /\ m.acceptOk = n.acceptOk /\ m.msg = n.msg /\ m.done = n.done
    BY <1>8 DEF Listener
  <2>5. n \in ConnRec /\ ConnSane(n) /\ Bounds(n) /\ n.used
    BY <1>3, <1>4
  <2> HIDE DEF n
  <2>6. ConnSane(m)
    BY ONLY <2>1, <2>4, <2>5 DEF ConnSane
  <2>7. Bounds(m)
    BY ONLY <2>3, <2>4, <2>5 DEF Bounds
  <2> QED BY <2>6, <2>7
<1>16. MyCount(net, u, c)
  BY <1>3, CountMine DEF SockInv, Counts, Links
<1>17. Raw(net, c) \in Int /\ Len(n.recvmbox) \in Nat /\ Len(n.acceptmbox) \in Nat
  BY <1>3, ConnFacts, RawInt
<1>18. MyCount(e, v, c)
  <2>1. Due(v, n.socket) = 1 /\ Due(u, n.socket) = 0
    BY <1>2, <1>3, <1>10, <1>11, FdFacts DEF Due
  <2>2. n.used /\ ~n.fatal => Raw(net, c) - 0 = Len(n.recvmbox) + Len(n.acceptmbox)
    BY <1>2, <1>16, <2>1, Zenon DEF MyCount
  <2>3. n.used /\ ~n.fatal => Raw(net, c) - 1 = Len(m.recvmbox) + Len(m.acceptmbox)
    <3> DEFINE a == Len(n.recvmbox)
               k == Len(m.acceptmbox)
               l == Len(n.acceptmbox)
               h == Raw(net, c)
    <3>1. Len(m.recvmbox) = a /\ k = l - 1 /\ a \in Nat /\ l \in Nat /\ h \in Int
      BY <1>8, <1>9, <1>17 DEF Listener
    <3>2. n.used /\ ~n.fatal => h - 0 = a + l
      BY <2>2, Zenon
    <3> HIDE DEF a, k, l, h
    <3>3. n.used /\ ~n.fatal => h - 1 = a + k
      BY <3>1, <3>2
    <3> QED BY <3>1, <3>3 DEF h, k
  <2>4. m.used = n.used /\ m.fatal = n.fatal /\ m.socket = n.socket
    BY <1>8 DEF Listener
  <2> QED BY <1>13, <2>1, <2>3, <2>4, Zenon DEF MyCount
<1> DEFINE x == [user EXCEPT ![t] = v]
<1>19. Types(net, user) /\ Links(net, user) /\ AllApart(user) /\ SockConn(net) /\ x[t] = v
       /\ user \in [User -> UserRec] /\ x = [user EXCEPT ![t] = v]
  BY DEF SockInv, Links, Types
<1> HIDE DEF x
<1>20. Links(e, x) /\ AllApart(x)
  <2>1. u.pc # "free" /\ v.pc # "free"
    BY <1>0, <1>10
  <2>2. /\ Brought(u) = NoFd /\ u.new = NoFd /\ v.fd = u.fd /\ v.new = NoFd /\ Brought(v) = d
        /\ v \in UserRec /\ c \in Conn
    BY <1>2, <1>3, <1>10, <1>11
  <2>3. Types(net, user) /\ Links(net, user) /\ AllApart(user) /\ x = [user EXCEPT ![t] = v]
    BY <1>19
  <2> HIDE DEF c, d
  <2> QED BY <1>14, <2>1, <2>2, <2>3, TakeLinks, Zenon
<1>21. Private(e, x, t, c) /\ SockConn(e)
  BY <1>3, <1>13, <1>19, <1>20 DEF Private, Links, x
<1>22. CountOf(e, x, c)
  BY <1>3, <1>18, <1>19, <1>21, CountMine, Zenon
<1>23. ConnOK(e, x, c)
  <2>1. HeardOf(e, x, c)
    <3>1. m.msg = NoUser /\ m.done = 0 /\ m.state = n.state
      BY <1>5, <1>8 DEF Listener
    <3>2. n.state # "CLOSE"
      BY <1>4, <1>5 DEF ConnSane, Busy
    <3> QED BY <1>13, <3>1, <3>2 DEF HeardOf
  <2>2. Writable(e, c)
    BY <1>4, <1>8, <1>13 DEF Writable, Listener
  <2> QED BY <1>13, <1>15, <1>22, <2>1, <2>2 DEF ConnOK
<1>24. Shape(v)
  BY <1>2, <1>10, <1>11 DEF Shape, OnFd
<1>25. TaskOK(e, t, v)
  BY <1>10, <1>11, <1>24 DEF TaskOK, Hears, Stage, SlotFresh
<1>26. OnIt(net, u, {c}) /\ OnIt(net, v, {c})
  BY <1>2, <1>3, <1>10, <1>11 DEF OnIt
<1>27. OnlyOn(net, e, {c}, {})
  BY <1>13 DEF OnlyOn
<1>28. SelOK(net, e, user, t, v)
  <2>1. SelKept(net, e)
    <3>1. \A f \in Fd : Steady(net, e, f)
      BY <1>13 DEF Steady
    <3> QED BY <1>13, <3>1, SelStays
  <2>2. WantKept(net, e)
    <3>1. m.socket = n.socket
      BY <1>8 DEF Listener
    <3>2. ASSUME NEW f \in Fd, net.sock[f].conn # NoFd, net.conn[net.sock[f].conn].socket = f
          PROVE  e.sock[f].conn = net.sock[f].conn /\ e.conn[net.sock[f].conn].socket = f
      <4>1. net.sock[f].conn \in Conn
        BY <1>1, <3>2, Entries
      <4> QED BY <1>13, <3>1, <3>2, <4>1
    <3> QED BY <3>2, WantStays
  <2> QED BY <1>0, <1>10, <1>13, <2>1, <2>2 DEF SelOK
<1>29. OthersAns(net, e, t)
  BY <1>13 DEF OthersAns
<1> HIDE DEF c
<1>30. SockInv(e, x)
  <2>1. v \in UserRec /\ x = [user EXCEPT ![t] = v]
    BY <1>10, <1>19
  <2>2. c \in Conn /\ Private(net, user, t, c) /\ AllApart(x) /\ Links(e, x)
    BY <1>3, <1>20
  <2> QED BY <1>23, <1>25, <1>26, <1>27, <1>28, <1>29, <2>1, <2>2, OneStep, Zenon
<1> QED BY <1>6, <1>19, <1>30
-----------------------------------------------------------------------------
(* A call gives a netconn its descriptor, or gives one of them back.       *)

(* From s to e task t, which becomes u, changes netconn c and descriptor g *)
(* (or none), that no other task has.                                      *)
Gives(s, e, w, t, u, c, g) ==
  /\ e \in NetRec /\ (\A k \in Conn : k # c => e.conn[k] = s.conn[k])
  /\ \A f \in Fd : f # g => e.sock[f] = s.sock[f]
  /\ e.conn[c].acceptmbox = s.conn[c].acceptmbox
  /\ e.conn[c].socket < 0 \/ e.conn[c].socket = g
  /\ s.conn[c].socket < 0 \/ s.conn[c].socket = g
  /\ g # NoFd => s.sock[g].conn \in {c, NoFd}
  /\ ~InBox(s, c) /\ Private(s, w, t, c) /\ (\A v \in User : v # t => w[v].fd # g \/ g = NoFd)
  /\ Brought(w[t]) \in {c, NoFd} /\ Brought(u) \in {c, NoFd}
  /\ u.fd \in {w[t].fd, NoFd} /\ w[t].new \in {g, NoFd} /\ u.new \in {g, NoFd} /\ w[t].pc # "free"

(* Then c and g have their owners, and u what it holds.                    *)
Given(e, x, u, c, g) ==
  /\ e.conn[c].socket >= 0 => e.sock[g].conn = c
  /\ Holds(e, u) /\ Brings(e, u)
  /\ e.conn[c].used => HasOwner(e, x, c)
  /\ g # NoFd /\ e.sock[g].conn # NoFd => SockTaken(e, x, g)

(* Everything else keeps its owner: sockets[] and the netconns of          *)
(* SocketMade, Accepted, Settle and ConnDeleted.                           *)
LEMMA GiveLinks ==
  ASSUME NEW s, NEW w, NEW e, Types(s, w), Links(s, w), AllApart(w), NEW c \in Conn,
         NEW g \in Fd \cup {NoFd}, NEW t \in User, NEW u \in UserRec, NEW x, x = [w EXCEPT ![t] = u],
         Gives(s, e, w, t, u, c, g), Given(e, x, u, c, g)
  PROVE  Links(e, x) /\ AllApart(x)
<1>1. s \in NetRec /\ e \in NetRec /\ w \in [User -> UserRec] /\ c # NoFd
  BY NoFdIsNone DEF Types, Gives
<1>2. x[t] = u /\ \A v \in User : v # t => x[v] = w[v]
  BY <1>1
<1>3. \A k \in Conn : s.conn[k].socket \in Int /\ e.conn[k].acceptmbox = s.conn[k].acceptmbox
                      /\ s.conn[k].acceptmbox \in Seq(Conn)
  BY <1>1, Entries DEF Gives
<1>4. \A k \in Conn : k # c => e.conn[k].used = s.conn[k].used /\ e.conn[k].socket = s.conn[k].socket
  BY DEF Gives
<1>5. \A f \in Fd : s.sock[f].conn \in Conn \cup {NoFd} /\ (f # g => e.sock[f].conn = s.sock[f].conn)
  BY <1>1, Entries DEF Gives
(* Descriptor g is of c or of none.                                        *)
<1>6. \A k \in Conn : k # c /\ s.conn[k].socket >= 0 =>
        s.conn[k].socket # g /\ s.conn[k].socket \in Fd /\ s.sock[s.conn[k].socket].conn = k
  <2> SUFFICES ASSUME NEW k \in Conn, k # c, s.conn[k].socket >= 0
               PROVE  s.conn[k].socket # g /\ s.conn[k].socket \in Fd
                      /\ s.sock[s.conn[k].socket].conn = k
    OBVIOUS
  <2>1. s.sock[s.conn[k].socket].conn = k
    BY DEF Links, SockConn
  <2>2. s.conn[k].socket \in Fd
    BY <1>3, SocketAssumption DEF Types, Bounds, Fd
  <2>3. k # NoFd /\ s.conn[k].socket # NoFd
    BY <2>2, NoFdIsNone
  <2> QED BY <2>1, <2>2, <2>3 DEF Gives
<1>7. SockConn(e)
  <2> SUFFICES ASSUME NEW k \in Conn, e.conn[k].socket >= 0
               PROVE  e.sock[e.conn[k].socket].conn = k
    BY DEF SockConn
  <2>1. CASE k = c
    <3>1. e.conn[c].socket \in Int
      BY <1>1, Entries
    <3>2. e.conn[c].socket = g
      BY <2>1, <3>1 DEF Gives
    <3> QED BY <2>1, <3>2 DEF Given
  <2>2. CASE k # c
    BY <1>4, <1>5, <1>6, <2>2
  <2> QED BY <2>1, <2>2
<1>8. ASSUME NEW v \in User, v # t
      PROVE  /\ Holds(e, w[v]) /\ Brings(e, w[v]) /\ Brought(w[v]) # c
             /\ (w[v].fd # NoFd => w[v].fd # g) /\ (w[v].new # NoFd => w[v].new # g)
  <2>1. Holds(s, w[v]) /\ Brings(s, w[v]) /\ Brought(w[v]) # c /\ w[v].fd \in Fd \cup {NoFd}
        /\ w[v].new \in Fd \cup {NoFd} /\ Brought(w[v]) \in Conn \cup {NoFd}
    BY <1>1, <1>8, UserFields DEF Links, Gives, Private
  <2>2. w[v].fd # NoFd => w[v].fd # g
    BY <1>8 DEF Gives
  <2>3. w[v].new # NoFd => w[v].new # g
    <3> SUFFICES ASSUME w[v].new # NoFd, w[v].new = g PROVE FALSE
      OBVIOUS
    <3>1. s.sock[g].conn = Brought(w[v]) /\ Brought(w[v]) # NoFd /\ g # NoFd
      BY <2>1 DEF Brings
    <3> QED BY <2>1, <3>1 DEF Gives
  <2>4. Holds(e, w[v])
    <3> SUFFICES ASSUME w[v].fd # NoFd PROVE Holds(e, w[v])
      BY DEF Holds
    <3> DEFINE f == w[v].fd
    <3>1. f \in Fd /\ f # g /\ e.sock[f].conn = s.sock[f].conn /\ s.sock[f].conn # NoFd
      BY <1>5, <2>1, <2>2 DEF Holds
    <3>2. w[v].pc # "free" => e.conn[e.sock[f].conn].socket = f
      <4> SUFFICES ASSUME w[v].pc # "free" PROVE e.conn[e.sock[f].conn].socket = f
        OBVIOUS
      <4>1. s.conn[s.sock[f].conn].socket = f /\ s.sock[f].conn # c /\ s.sock[f].conn \in Conn
        BY <1>5, <1>8, <2>1, <3>1 DEF Holds, Gives, Private
      <4> QED BY <1>4, <3>1, <4>1
    <3>3. w[v].pc = "free" => \A k \in Conn : e.conn[k].socket # f
      <4> SUFFICES ASSUME w[v].pc = "free", NEW k \in Conn PROVE e.conn[k].socket # f
        OBVIOUS
      <4>1. s.conn[k].socket # f
        BY <2>1 DEF Holds
      <4>2. ~(f < 0)
        BY <3>1, FdFacts
      <4> HIDE DEF f
      <4>3. CASE k = c
        BY <3>1, <4>2, <4>3 DEF Gives
      <4>4. CASE k # c
        BY <1>4, <4>1, <4>4
      <4> QED BY <4>3, <4>4
    <3> QED BY <3>1, <3>2, <3>3 DEF Holds
  <2>5. Brings(e, w[v])
    <3>1. Brought(w[v]) # NoFd => e.conn[Brought(w[v])].used /\ e.conn[Brought(w[v])].socket < 0
      BY <1>4, <2>1 DEF Brings
    <3>2. w[v].new # NoFd => Brought(w[v]) # NoFd /\ e.sock[w[v].new].conn = Brought(w[v])
      BY <1>5, <2>1, <2>3 DEF Brings
    <3> QED BY <3>1, <3>2 DEF Brings
  <2> QED BY <2>1, <2>2, <2>3, <2>4, <2>5
<1>9. \A v \in User : Holds(e, x[v]) /\ Brings(e, x[v])
  BY <1>2, <1>8 DEF Given
<1>10. Boxes(e, x)
  <2> SUFFICES ASSUME NEW k \in Conn, NEW i \in 1 .. Len(e.conn[k].acceptmbox)
               PROVE  Boxed(e, x, k, i)
    BY Zenon DEF Boxes
  <2> DEFINE b == s.conn[k].acceptmbox[i]
  <2>1. e.conn[k].acceptmbox = s.conn[k].acceptmbox /\ i \in 1 .. Len(s.conn[k].acceptmbox)
    BY <1>3
  <2>2. Boxed(s, w, k, i) /\ b \in Conn
    BY <1>3, <2>1 DEF Links, Boxes
  <2>3. s.conn[b].used /\ s.conn[b].socket < 0 /\ \A v \in User : Brought(w[v]) # b
    BY <2>2 DEF Boxed
  <2>4. b # c
    BY <2>1 DEF Gives, InBox
  <2>5. e.conn[b].used /\ e.conn[b].socket < 0
    BY <1>4, <2>2, <2>3, <2>4, Zenon
  <2>6. \A v \in User : Brought(x[v]) # b
    <3>1. b # NoFd
      BY <2>2, NoFdIsNone
    <3>2. Brought(u) # b
      BY <2>4, <3>1 DEF Gives
    <3> QED BY <1>2, <2>3, <3>2
  <2>7. \A z \in Conn : \A j \in 1 .. Len(e.conn[z].acceptmbox) :
          e.conn[z].acceptmbox[j] = b => z = k /\ j = i
    BY <1>3, <2>2 DEF Boxed
  <2> QED BY <2>1, <2>5, <2>6, <2>7 DEF Boxed
<1>11. OwnersExist(e, x)
  <2> SUFFICES ASSUME NEW k \in Conn, e.conn[k].used
               PROVE  HasOwner(e, x, k)
    BY Zenon DEF OwnersExist
  <2>1. CASE k = c
    BY <2>1 DEF Given
  <2>2. CASE k # c
    <3>1. HasOwner(s, w, k)
      BY <1>4, <2>2 DEF Links, OwnersExist
    <3>2. CASE InBox(s, k)
      <4>1. InBox(e, k)
        BY <1>3, <3>2 DEF InBox
      <4> QED BY <4>1 DEF HasOwner
    <3>3. CASE \E v \in User : Brought(w[v]) = k
      <4>1. PICK v \in User : Brought(w[v]) = k
        BY <3>3
      <4>2. v # t
        BY <2>2, <4>1, NoFdIsNone DEF Gives
      <4>3. Brought(x[v]) = k
        BY <1>2, <4>1, <4>2
      <4> QED BY <4>3 DEF HasOwner
    <3> QED BY <1>4, <2>2, <3>1, <3>2, <3>3 DEF HasOwner
  <2> QED BY <2>1, <2>2
<1>12. SocksTaken(e, x)
  <2> SUFFICES ASSUME NEW f \in Fd, e.sock[f].conn # NoFd
               PROVE  SockTaken(e, x, f)
    BY Zenon DEF SocksTaken
  <2>0. f # NoFd /\ ~(f < 0)
    BY FdFacts
  <2>1. CASE f = g
    BY <2>0, <2>1 DEF Given
  <2>2. CASE f # g
    <3>1. s.sock[f].conn = e.sock[f].conn /\ s.sock[f].conn \in Conn
      BY <1>5, <2>2
    <3>2. SockTaken(s, w, f)
      BY <3>1 DEF Links, SocksTaken
    <3>3. CASE s.conn[s.sock[f].conn].socket = f
      <4>1. s.sock[f].conn # c
        BY <2>0, <2>2, <3>3 DEF Gives
      <4> QED BY <1>4, <3>1, <3>3, <4>1 DEF SockTaken
    <3>4. CASE \E v \in User : w[v].new = f \/ (w[v].pc = "free" /\ w[v].fd = f)
      <4>1. PICK v \in User : w[v].new = f \/ (w[v].pc = "free" /\ w[v].fd = f)
        BY <3>4
      <4>2. v # t
        BY <2>0, <2>2, <4>1 DEF Gives
      <4>3. x[v].new = f \/ (x[v].pc = "free" /\ x[v].fd = f)
        BY <1>2, <4>1, <4>2
      <4> QED BY <4>3 DEF SockTaken
    <3> QED BY <3>2, <3>3, <3>4 DEF SockTaken
  <2> QED BY <2>1, <2>2
<1>13. AllApart(x)
  <2> SUFFICES ASSUME NEW y \in User, NEW z \in User, y # z
               PROVE  Apart(x[y], x[z])
    BY DEF AllApart
  <2>1. Apart(w[y], w[z])
    BY DEF AllApart
  <2>2. CASE y = t
    <3>1. x[y] = u /\ x[z] = w[z] /\ z # t
      BY <1>2, <2>2
    <3>2. u.fd = w[z].fd => u.fd = NoFd
      BY <2>1, <2>2 DEF Apart, Gives
    <3>3. Brought(u) = Brought(w[z]) => Brought(u) = NoFd
      BY <1>8, <3>1 DEF Gives
    <3>4. u.new # NoFd => w[z].fd # u.new
      BY <1>8, <3>1 DEF Gives
    <3> QED BY <3>1, <3>2, <3>3, <3>4 DEF Apart
  <2>3. CASE z = t
    <3>1. x[y] = w[y] /\ x[z] = u /\ y # t
      BY <1>2, <2>3
    <3>2. w[y].fd = u.fd => w[y].fd = NoFd
      BY <2>1, <2>3 DEF Apart, Gives
    <3>3. Brought(w[y]) = Brought(u) => Brought(w[y]) = NoFd
      BY <1>8, <3>1 DEF Gives
    <3>4. w[y].new # NoFd => u.fd # w[y].new
      <4>1. w[y].new # NoFd => w[t].fd # w[y].new
        BY <2>1, <2>3 DEF Apart
      <4> QED BY <4>1 DEF Gives
    <3> QED BY <3>1, <3>2, <3>3, <3>4 DEF Apart
  <2>4. CASE y # t /\ z # t
    BY <1>2, <2>1, <2>4
  <2> QED BY <2>2, <2>3, <2>4
<1> QED BY <1>7, <1>9, <1>10, <1>11, <1>12, <1>13 DEF Links

(* Nobody selects on descriptor g, so it counts no select().               *)
Unwanted(s, e, g) ==
  g # NoFd => /\ \A z \in User : g \notin WantsOf(s, z)
              /\ e.sock[g].waiting \in {0, s.sock[g].waiting}

(* A descriptor that nobody selects on has a counter of 0.                 *)
LEMMA NoWaiters ==
  ASSUME NEW s, NEW w, SockInv(s, w), NEW g \in Fd, \A z \in User : g \notin WantsOf(s, z)
  PROVE  s.sock[g].waiting = 0
<1>1. Waiters(s, w, g) = {}
  BY DEF Waiters, CountedFor
<1>2. s.sock[g].waiting = Cardinality(Waiters(s, w, g))
  BY DEF SockInv, Selects
<1> QED BY <1>1, <1>2, FS_EmptySet

(* A task that gives a netconn its descriptor or gives one back, and is in *)
(* no call to the stack then.                                              *)
LEMMA GiveStep ==
  ASSUME NEW s, NEW w, SockInv(s, w), NEW c \in Conn, NEW g \in Fd \cup {NoFd}, NEW t \in User,
         NEW u \in UserRec, NEW e, NEW x, x = [w EXCEPT ![t] = u],
         Gives(s, e, w, t, u, c, g), Given(e, x, u, c, g), Unwanted(s, e, g), OthersAns(s, e, t),
         e.list = s.list, e.want = s.want, e.sig = s.sig, e.moved = s.moved,
         ConnSane(e.conn[c]), Bounds(e.conn[c]), e.conn[c].msg = NoUser, e.conn[c].done = 0,
         MyCount(e, u, c), Writable(e, c), TaskOK(e, t, u), OnIt(s, w[t], {c}),
         ~Engaged(u), ~Fetched(u), w[t].op # "select", u.op # "select", u.pc # "look",
         u.op = "close" => w[t].op = "close" /\ u.fd = w[t].fd
  PROVE  SockInv(e, x)
<1>1. Types(s, w) /\ Links(s, w) /\ AllApart(w) /\ s \in NetRec /\ w \in [User -> UserRec]
  BY DEF SockInv, Types
<1>2. x[t] = u /\ \A v \in User : v # t => x[v] = w[v]
  BY <1>1
<1>3. Links(e, x) /\ AllApart(x)
  BY <1>1, GiveLinks, Zenon
<1>4. Private(s, w, t, c) /\ c # NoFd
  BY NoFdIsNone DEF Gives
<1>5. \A v \in User : v # t /\ w[v].fd # NoFd => e.sock[w[v].fd] = s.sock[w[v].fd]
  <2> SUFFICES ASSUME NEW v \in User, v # t, w[v].fd # NoFd PROVE e.sock[w[v].fd] = s.sock[w[v].fd]
    OBVIOUS
  <2>1. w[v].fd \in Fd
    BY <1>1, UserFields
  <2> QED BY <2>1 DEF Gives
<1>6. Private(e, x, t, c)
  BY <1>2, <1>4, <1>5 DEF Private
<1>7. SockConn(e)
  BY <1>3 DEF Links
<1>8. CountOf(e, x, c)
  BY <1>2, <1>6, <1>7, CountMine, Zenon
<1>9. HeardOf(e, x, c)
  <2>1. e.conn[c].state # "CLOSE"
    BY DEF ConnSane, Busy
  <2> QED BY <2>1 DEF HeardOf
<1>10. ConnOK(e, x, c)
  BY <1>8, <1>9 DEF ConnOK
<1>11. OnlyOn(s, e, {c}, {g})
  <2>1. \A f \in Fd : f \in {g} => s.sock[f].conn \in {c} \cup {NoFd}
    BY NoFdIsNone DEF Gives
  <2> QED BY <2>1 DEF OnlyOn, Gives
<1>12. OnIt(s, u, {c})
  BY DEF OnIt
<1>13. SelKept(s, e)
  <2> SUFFICES ASSUME NEW f \in Fd PROVE Steady(s, e, f)
    BY SelStays
  <2>1. CASE f # g
    BY <2>1 DEF Steady, Gives
  <2>2. CASE f = g
    <3>1. s.sock[f].waiting = 0
      BY <2>2, NoWaiters, NoFdIsNone DEF Unwanted
    <3>2. e.sock[f].waiting = 0
      BY <2>2, <3>1, NoFdIsNone DEF Unwanted
    <3> QED BY <3>1, <3>2 DEF Steady
  <2> QED BY <2>1, <2>2
<1>14. WantKept(s, e)
  <2> SUFFICES ASSUME NEW z \in User, NEW fd \in WantsOf(s, z)
               PROVE  e.sock[fd].conn # NoFd /\ e.conn[e.sock[fd].conn].socket = fd
    BY DEF WantKept
  <2>1. fd \in Fd /\ s.sock[fd].conn # NoFd /\ s.conn[s.sock[fd].conn].socket = fd
    BY <1>1, WantsAreFds DEF SockInv, Selects, Wanted
  <2>2. fd # NoFd /\ ~(fd < 0)
    BY <2>1, FdFacts
  <2>3. fd # g
    BY <2>2 DEF Unwanted
  <2>4. s.sock[fd].conn # c /\ s.sock[fd].conn \in Conn
    BY <1>1, <2>1, <2>2, <2>3, Entries DEF Gives
  <2>5. e.sock[fd].conn = s.sock[fd].conn /\ e.conn[s.sock[fd].conn] = s.conn[s.sock[fd].conn]
    BY <2>1, <2>3, <2>4 DEF Gives
  <2> QED BY <2>1, <2>5
<1>15. SelOK(s, e, w, t, u)
  BY <1>13, <1>14 DEF SelOK
<1> QED BY <1>3, <1>4, <1>10, <1>11, <1>12, <1>15, OneStep, Zenon

(* netconn_free of a netconn whose pcb and mailboxes are gone.             *)
LEMMA FreeIs ==
  ASSUME NEW s \in NetRec, NEW c \in Conn, s.conn[c].pcb = "none", s.conn[c].recvOk = FALSE,
         s.conn[c].acceptOk = FALSE
  PROVE  netconn_free(s, c) = PutConn(s, c, FreeConn)
<1>1. FreeConn \in ConnRec /\ FreeConn.pcb = "none" /\ FreeConn.recvOk = FALSE /\ FreeConn.acceptOk = FALSE
  BY FreeFields
<1> DEFINE m == FreeConn
           h == [m EXCEPT !.pcb = "none", !.recvOk = FALSE, !.acceptOk = FALSE]
<1>2. netconn_free(s, c) = [s EXCEPT !.conn[c] = h]
  BY Zenon DEF netconn_free
<1>3. m \in ConnRec /\ m.pcb = "none" /\ m.recvOk = FALSE /\ m.acceptOk = FALSE
  BY <1>1
<1> HIDE DEF m
<1>4. h = m
  BY <1>3, Zenon DEF ConnRec
<1> HIDE DEF h
<1>5. [s EXCEPT !.conn[c] = h] = PutConn(s, c, m)
  BY <1>4 DEF PutConn
<1> QED BY <1>2, <1>5 DEF m
(* A netconn that has a descriptor or that a task brings is in no queue.   *)
LEMMA NotBoxed ==
  ASSUME NEW s, NEW w, SockInv(s, w), NEW c \in Conn,
         s.conn[c].socket \in Fd \/ \E t \in User : Brought(w[t]) = c
  PROVE  ~InBox(s, c)
<1> SUFFICES ASSUME InBox(s, c) PROVE FALSE
  OBVIOUS
<1>1. PICK k \in Conn : \E i \in 1 .. Len(s.conn[k].acceptmbox) : s.conn[k].acceptmbox[i] = c
  BY DEF InBox
<1>2. PICK i \in 1 .. Len(s.conn[k].acceptmbox) : s.conn[k].acceptmbox[i] = c
  BY <1>1
<1>3. Boxed(s, w, k, i)
  BY <1>2 DEF SockInv, Links, Boxes
<1>4. s.conn[c].socket < 0 /\ \A t \in User : Brought(w[t]) # c
  BY <1>2, <1>3 DEF Boxed
<1> QED BY <1>4, FdFacts

(* An idle task keeps its part of the invariant.                           *)
LEMMA IdleOK ==
  ASSUME NEW e, NEW t
  PROVE  TaskOK(e, t, IdleUser) /\ Holds(e, IdleUser) /\ Brings(e, IdleUser)
<1> DEFINE u == IdleUser
<1>1. /\ Shape(u) /\ Brought(u) = NoFd /\ ~Engaged(u) /\ u.fd = NoFd /\ u.new = NoFd /\ u.pc = "idle"
      /\ u.op = "none"
  BY IdleFacts
<1> HIDE DEF u
<1>2. Hears(e, t, u)
  BY <1>1 DEF Hears
<1>3. Stage(e, t, u)
  BY <1>1 DEF Stage, Closing, Making
<1>4. SlotFresh(e, u) /\ Holds(e, u) /\ Brings(e, u)
  BY <1>1 DEF SlotFresh, Holds, Brings
<1> QED BY <1>1, <1>2, <1>3, <1>4 DEF TaskOK, u

(* netconn_free of the netconn that a socket() or an accept() brought, at  *)
(* its end.                                                                *)
LEMMA FreedStep ==
  ASSUME NEW s, NEW w, SockInv(s, w), NEW t \in User, w[t].pc = "back", NEW c, c = w[t].conn,
         Brought(w[t]) = c, ~s.conn[c].acceptOk
  PROVE  SockInv(PutAns(PutConn(s, c, FreeConn), t, "ok"), [w EXCEPT ![t] = IdleUser])
<1> DEFINE b == PutConn(s, c, FreeConn)
           e == PutAns(b, t, "ok")
           u == IdleUser
           x == [w EXCEPT ![t] = u]
<1>1. s \in NetRec /\ w \in [User -> UserRec] /\ Shape(w[t]) /\ w[t] \in UserRec
  BY DEF SockInv, Types, Shapes
<1>2. Engaged(w[t])
  BY DEF Engaged
<1>3. /\ c # NoFd /\ c \in Conn /\ s.conn[c].socket < 0 /\ Private(s, w, t, c)
  <2>1. c # NoFd
    BY <1>1, <1>2 DEF Shape
  <2> QED BY <2>1, PrivateBrought
<1>4. OnIt(s, w[t], {c}) /\ w[t].op # "select"
  BY <1>2, EngagedFacts
<1>5. s.conn[c].acceptmbox = <<>>
  BY <1>3, ConnFacts DEF ConnSane
<1>6. /\ FreeConn \in ConnRec /\ ConnSane(FreeConn) /\ Bounds(FreeConn) /\ FreeConn.used = FALSE
      /\ FreeConn.socket = -1 /\ FreeConn.acceptmbox = <<>> /\ FreeConn.msg = NoUser
      /\ FreeConn.done = 0
  BY FreeFields
<1>7. OnlyConn(s, b, c, FreeConn)
  BY <1>1, <1>3, <1>6, PutConnFields
<1> HIDE DEF b
<1>8. OnlyAns(b, e, [b.ans EXCEPT ![t] = "ok"])
  BY <1>7, PutAnsFields, Zenon DEF OnlyConn
<1> HIDE DEF e
<1>9. /\ e \in NetRec /\ e.conn[c] = FreeConn /\ (\A k \in Conn : k # c => e.conn[k] = s.conn[k])
      /\ e.sock = s.sock /\ e.list = s.list /\ e.want = s.want /\ e.sig = s.sig /\ e.moved = s.moved
  BY <1>7, <1>8 DEF OnlyConn, OnlyAns
<1>10. OthersAns(s, e, t)
  BY <1>1, <1>7, <1>8 DEF OnlyConn, OnlyAns, OthersAns, NetRec
<1>11. /\ u \in UserRec /\ Brought(u) = NoFd /\ ~Engaged(u) /\ ~Fetched(u) /\ u.fd = NoFd
       /\ u.new = NoFd /\ u.pc = "idle" /\ u.op = "none"
  BY IdleFacts
<1>12. TaskOK(e, t, u) /\ Holds(e, u) /\ Brings(e, u)
  BY IdleOK
<1> HIDE DEF u
<1>13. ~InBox(s, c)
  BY <1>3, NotBoxed
<1>14. w[t].new = NoFd
  BY <1>1 DEF Shape
<1>15. Gives(s, e, w, t, u, c, NoFd)
  <2>1. e.conn[c].socket < 0 /\ e.conn[c].acceptmbox = s.conn[c].acceptmbox
    BY <1>5, <1>6, <1>9
  <2> QED BY <1>3, <1>9, <1>11, <1>13, <1>14, <2>1 DEF Gives
<1>16. Given(e, x, u, c, NoFd)
  <2>1. ~(e.conn[c].socket >= 0) /\ ~e.conn[c].used
    BY <1>6, <1>9
  <2> QED BY <1>12, <2>1 DEF Given
<1>17. MyCount(e, u, c) /\ Writable(e, c)
  <2>1. ~(e.conn[c].socket >= 0) /\ ~e.conn[c].used
    BY <1>6, <1>9
  <2>2. MyCount(e, u, c)
    BY <2>1 DEF MyCount
  <2>3. Writable(e, c)
    BY <2>1 DEF Writable
  <2> QED BY <2>2, <2>3
<1>18. Unwanted(s, e, NoFd)
  BY DEF Unwanted
<1>19. ConnSane(e.conn[c]) /\ Bounds(e.conn[c]) /\ e.conn[c].msg = NoUser /\ e.conn[c].done = 0
  BY <1>6, <1>9
<1>20. u.op # "select" /\ u.pc # "look" /\ u.op # "close"
  BY <1>11
<1>21. x = [w EXCEPT ![t] = u] /\ NoFd \in Fd \cup {NoFd}
  OBVIOUS
<1> HIDE DEF x
<1>22. SockInv(e, x)
  BY <1>3, <1>4, <1>9, <1>10, <1>11, <1>12, <1>15, <1>16, <1>17, <1>18, <1>19, <1>20, <1>21, GiveStep, Zenon
<1> QED BY <1>22 DEF e, b, x, u
(* Nobody selects on a descriptor without its netconn.                     *)
LEMMA NotWanted ==
  ASSUME NEW s, NEW w, SockInv(s, w), NEW g \in Fd,
         s.sock[g].conn = NoFd \/ s.conn[s.sock[g].conn].socket # g
  PROVE  \A z \in User : g \notin WantsOf(s, z)
BY DEF SockInv, Selects, Wanted

(* Entry f of sockets[] becomes k.                                         *)
PutSlot(s, f, k) == [s EXCEPT !.sock[f] = k]

(* From s to e only that changes.                                          *)
OnlySlot(s, e, f, k) ==
  /\ e \in NetRec /\ e.sock[f] = k /\ (\A h \in Fd : h # f => e.sock[h] = s.sock[h])
  /\ e.conn = s.conn /\ e.list = s.list /\ e.moved = s.moved
  /\ e.want = s.want /\ e.sig = s.sig /\ e.ans = s.ans

(* An entry of sockets[] is filled.                                        *)
LEMMA PutSlotFields ==
  ASSUME NEW s \in NetRec, NEW f \in Fd, NEW k \in SockRec
  PROVE  OnlySlot(s, PutSlot(s, f, k), f, k)
BY Zenon DEF PutSlot, NetRec, OnlySlot

(* Netconn c with descriptor f.                                            *)
PutFd(s, c, f) == PutConn(s, c, [s.conn[c] EXCEPT !.socket = f])

(* What stays of the netconn.                                              *)
SocketOnly(n, m, f) ==
  /\ m \in ConnRec /\ m.socket = f /\ m.used = n.used /\ m.type = n.type /\ m.pcb = n.pcb
  /\ m.state = n.state /\ m.recvOk = n.recvOk /\ m.recvmbox = n.recvmbox
  /\ m.acceptOk = n.acceptOk /\ m.acceptmbox = n.acceptmbox /\ m.fatal = n.fatal
  /\ m.snd = n.snd /\ m.msg = n.msg /\ m.done = n.done

(* alloc_socket gives a netconn its descriptor.                            *)
LEMMA SocketFields ==
  ASSUME NEW n \in ConnRec, NEW f \in Fd
  PROVE  SocketOnly(n, [n EXCEPT !.socket = f], f)
<1>1. f \in Int
  BY FdFacts
<1>2. [n EXCEPT !.socket = f] \in ConnRec
  BY <1>1, Zenon DEF ConnRec
<1>3. [n EXCEPT !.socket = f].socket = f
  BY DEF ConnRec
<1> QED BY <1>2, <1>3, Zenon DEF SocketOnly, ConnRec

(* An entry of sockets[] for netconn c.                                    *)
Opened(k, c) ==
  k \in SockRec /\ k.conn = c /\ k.rcvevent = 0 /\ k.waiting = 0

(* NewSock *)
LEMMA NewSockFields ==
  ASSUME NEW c \in Conn, NEW ok \in BOOLEAN
  PROVE  Opened(NewSock(c, ok), c) /\ (ok => NewSock(c, ok).sendevent = 1)
<1> DEFINE v == IF net.conn[c].type = "udp" \/ ok THEN 1 ELSE 0
           k == FreeSock
           h == [k EXCEPT !.conn = c, !.sendevent = v]
<1>1. v \in {0, 1} /\ (ok => v = 1)
  OBVIOUS
<1>2. k \in SockRec /\ k.rcvevent = 0 /\ k.waiting = 0
  BY DEF FreeSock, SockRec
<1>3. NewSock(c, ok) = h
  BY DEF NewSock
<1> HIDE DEF v, k
<1>4. h \in SockRec /\ h.conn = c /\ h.rcvevent = k.rcvevent /\ h.waiting = k.waiting /\ h.sendevent = v
  BY <1>1, <1>2, Zenon DEF SockRec
<1> HIDE DEF h
<1> QED BY <1>1, <1>2, <1>3, <1>4 DEF Opened

(* The netconn of task t has its descriptor f, whose counter is what came  *)
(* in before, and the call returns.                                        *)
LEMMA OpenStep ==
  ASSUME NEW s, NEW w, SockInv(s, w), NEW t \in User, NEW c \in Conn, Brought(w[t]) = c,
         w[t].op # "select", OnIt(s, w[t], {c}), w[t].pc \notin {"await", "free"},
         ~Closing(w[t]), ~s.conn[c].acceptOk, NEW f \in Fd, w[t].new \in {f, NoFd},
         s.sock[f].conn \in {c, NoFd}, \A v \in User : v # t => w[v].fd # f,
         NEW k \in SockRec, k.conn = c, k.waiting = 0, k.rcvevent = Raw(s, c),
         s.conn[c].pcb \in Live => k.sendevent = 1,
         NEW e, e = PutAns(PutFd(PutSlot(s, f, k), c, f), t, "ok")
  PROVE  SockInv(e, [w EXCEPT ![t] = IdleUser])
<1> DEFINE n == s.conn[c]
           a == PutSlot(s, f, k)
           m == [n EXCEPT !.socket = f]
           b == PutConn(a, c, m)
           u == IdleUser
           x == [w EXCEPT ![t] = u]
<1>1. s \in NetRec /\ w \in [User -> UserRec] /\ f # NoFd /\ f >= 0 /\ ~(f < 0) /\ c # NoFd
      /\ f < NumConn
  <2>1. f < NumConn
    BY SocketAssumption DEF Fd
  <2> QED BY <2>1, FdFacts, NoFdIsNone DEF SockInv, Types
<1>2. n.socket < 0 /\ n.used /\ Private(s, w, t, c)
  BY <1>1, PrivateBrought
<1>3. n \in ConnRec /\ ConnSane(n) /\ Bounds(n)
  BY ConnFacts
<1>4. n.msg = NoUser /\ n.done = 0
  BY <1>2, Quiet
<1>5. OnlySlot(s, a, f, k)
  BY <1>1, PutSlotFields
<1>6. SocketOnly(n, m, f)
  BY <1>3, SocketFields
<1>7. PutFd(a, c, f) = b
  BY <1>5 DEF PutFd, OnlySlot
<1>8. e = PutAns(b, t, "ok")
  BY <1>7
<1> HIDE DEF a, m
<1>9. OnlyConn(a, b, c, m)
  <2>1. a \in NetRec /\ m \in ConnRec
    BY <1>5, <1>6 DEF OnlySlot, SocketOnly
  <2> QED BY <2>1, PutConnFields
<1> HIDE DEF b
<1>10. OnlyAns(b, e, [b.ans EXCEPT ![t] = "ok"])
  BY <1>8, <1>9, PutAnsFields, Zenon DEF OnlyConn
<1>11. /\ e \in NetRec /\ e.conn[c] = m /\ (\A d \in Conn : d # c => e.conn[d] = s.conn[d])
       /\ e.sock[f] = k /\ (\A h \in Fd : h # f => e.sock[h] = s.sock[h])
       /\ e.list = s.list /\ e.want = s.want /\ e.sig = s.sig /\ e.moved = s.moved
  <2>1. /\ a.conn = s.conn /\ a.sock[f] = k /\ (\A h \in Fd : h # f => a.sock[h] = s.sock[h])
        /\ a.list = s.list /\ a.want = s.want /\ a.sig = s.sig /\ a.moved = s.moved
    BY ONLY <1>5 DEF OnlySlot
  <2>2. /\ b.conn[c] = m /\ (\A d \in Conn : d # c => b.conn[d] = a.conn[d]) /\ b.sock = a.sock
        /\ b.list = a.list /\ b.want = a.want /\ b.sig = a.sig /\ b.moved = a.moved
    BY ONLY <1>9 DEF OnlyConn
  <2>3. /\ e \in NetRec /\ e.conn = b.conn /\ e.sock = b.sock
        /\ e.list = b.list /\ e.want = b.want /\ e.sig = b.sig /\ e.moved = b.moved
    BY ONLY <1>10 DEF OnlyAns
  <2> QED BY ONLY <2>1, <2>2, <2>3
<1>12. OthersAns(s, e, t)
  BY <1>1, <1>5, <1>9, <1>10 DEF OnlyConn, OnlyAns, OnlySlot, OthersAns, NetRec
<1>13. /\ u \in UserRec /\ Brought(u) = NoFd /\ ~Engaged(u) /\ ~Fetched(u) /\ u.fd = NoFd
       /\ u.new = NoFd /\ u.pc = "idle" /\ u.op = "none"
  BY IdleFacts
<1>14. TaskOK(e, t, u) /\ Holds(e, u) /\ Brings(e, u)
  BY IdleOK
<1> HIDE DEF u
<1>15. ~InBox(s, c)
  BY NotBoxed
<1>16. m.socket = f /\ m.acceptmbox = n.acceptmbox /\ m.used
  BY <1>2, <1>6 DEF SocketOnly
<1>17. Gives(s, e, w, t, u, c, f)
  BY <1>1, <1>2, <1>11, <1>13, <1>15, <1>16 DEF Gives
<1>18. HasOwner(e, x, c) /\ SockTaken(e, x, f)
  <2>1. e.conn[c].socket = f /\ e.sock[f].conn = c
    BY <1>11, <1>16
  <2>2. HasOwner(e, x, c)
    BY <1>1, <2>1 DEF HasOwner
  <2>3. SockTaken(e, x, f)
    BY <2>1 DEF SockTaken
  <2> QED BY <2>2, <2>3
<1>19. Given(e, x, u, c, f)
  BY <1>11, <1>14, <1>18 DEF Given
<1>20. Unwanted(s, e, f)
  <2>1. s.sock[f].conn = NoFd \/ s.conn[s.sock[f].conn].socket # f
    BY <1>1, <1>2
  <2> QED BY <1>11, <2>1, NotWanted DEF Unwanted
<1>21. ConnSane(m) /\ Bounds(m)
  <2>1. /\ m.used = n.used /\ m.pcb = n.pcb /\ m.state = n.state /\ m.recvOk = n.recvOk
        /\ m.acceptOk = n.acceptOk /\ m.acceptmbox = n.acceptmbox /\ m.recvmbox = n.recvmbox
        /\ m.msg = n.msg /\ m.done = n.done /\ m.socket = f /\ m.type = n.type
    BY <1>6 DEF SocketOnly
  <2>2. ConnSane(n) /\ n.used /\ ~n.acceptOk /\ Bounds(n)
    BY <1>2, <1>3
  <2> HIDE DEF n
  <2>3. ConnSane(m)
    BY <2>1, <2>2 DEF ConnSane
  <2>4. Bounds(m)
    BY <1>1, <2>1, <2>2 DEF Bounds
  <2> QED BY <2>3, <2>4
<1>22. MyCount(e, u, c)
  <2>1. MyCount(s, w[t], c)
    BY <1>2, CountMine DEF SockInv, Counts, Links
  <2>2. Due(w[t], n.socket) = 0 /\ Due(u, f) = 0
    <3>1. ~(n.socket >= 0) /\ u.fd # f
      BY <1>1, <1>2, <1>13, Entries
    <3> QED BY <3>1 DEF Due
  <2>3. Raw(e, c) = Raw(s, c)
    BY <1>1, <1>11, <1>16 DEF Raw
  <2>4. n.used /\ ~n.fatal => Raw(s, c) - 0 = Len(n.recvmbox) + Len(n.acceptmbox)
    BY <2>1, <2>2, Zenon DEF MyCount
  <2>5. m.used = n.used /\ m.fatal = n.fatal /\ m.recvmbox = n.recvmbox
    BY <1>6 DEF SocketOnly
  <2>6. /\ e.conn[c].used = n.used /\ e.conn[c].fatal = n.fatal /\ e.conn[c].recvmbox = n.recvmbox
        /\ e.conn[c].acceptmbox = n.acceptmbox /\ e.conn[c].socket = f
    BY <1>11, <1>16, <2>5
  <2> QED BY ONLY <2>2, <2>3, <2>4, <2>6, Zenon DEF MyCount
<1>23. Writable(e, c)
  <2>1. m.pcb = n.pcb
    BY <1>6 DEF SocketOnly
  <2> QED BY <1>11, <1>16, <2>1 DEF Writable
<1>24. e.conn[c].msg = NoUser /\ e.conn[c].done = 0 /\ ConnSane(e.conn[c]) /\ Bounds(e.conn[c])
  BY <1>4, <1>6, <1>11, <1>21 DEF SocketOnly
<1>25. u.op # "select" /\ u.pc # "look" /\ u.op # "close"
  BY <1>13
<1>26. x = [w EXCEPT ![t] = u] /\ f \in Fd \cup {NoFd}
  OBVIOUS
<1> HIDE DEF x
<1>27. SockInv(e, x)
  BY <1>11, <1>12, <1>13, <1>14, <1>17, <1>19, <1>20, <1>22, <1>23, <1>24, <1>25, <1>26, GiveStep, Zenon
<1> QED BY <1>27 DEF x, u
(* A netconn without a descriptor does not listen.                         *)
LEMMA NoFdNoListen ==
  ASSUME NEW s, NEW w, SockInv(s, w), NEW c \in Conn, s.conn[c].socket < 0
  PROVE  ~s.conn[c].acceptOk
<1>1. ConnSane(s.conn[c]) /\ s \in NetRec
  BY ConnFacts
<1>2. s.conn[c].socket \in Int
  BY <1>1, Entries
<1> QED BY <1>1, <1>2 DEF ConnSane

(* SocketMade *)
LEMMA SocketMadeKeeps ==
  ASSUME SockInv(net, user), NEW t \in User, SocketMade(t)
  PROVE  SockInv(net', user')
<1> DEFINE u == user[t]
           c == user[t].conn
           n == net.conn[c]
<1>1. u.pc = "back" /\ u.fn = "new" /\ net \in NetRec
  BY Zenon DEF SocketMade, Back, SockInv, Types
<1>2. /\ u \in UserRec /\ u.op \in {"socket", "accept"} /\ u.new = NoFd
      /\ Brought(u) = c /\ c \in Conn /\ c # NoFd
      /\ n.used /\ n.socket < 0 /\ OnIt(net, u, {c}) /\ ~Closing(u)
  BY <1>1, MadeFacts
<1>3. Fresh(n, net.ans[t])
  <2>1. Stage(net, t, u) /\ Making(u)
    BY <1>1 DEF SockInv, Stages, Making, Engaged
  <2> QED BY <2>1 DEF Stage
<1>4. n \in ConnRec /\ ~n.acceptOk
  BY <1>2, <1>3, ConnFacts DEF Fresh
<1>5. CASE net.ans[t] # "ok"
  <2> DEFINE m == [n EXCEPT !.recvOk = FALSE]
             b == PutConn(net, c, m)
  <2>1. m \in ConnRec /\ m.pcb = n.pcb /\ m.recvOk = FALSE /\ m.acceptOk = n.acceptOk
    BY <1>4, Zenon DEF ConnRec
  <2>2. [net EXCEPT !.conn[c].recvOk = FALSE] = b
    BY <1>1, <1>2, Zenon DEF PutConn, NetRec
  <2> HIDE DEF m
  <2>3. OnlyConn(net, b, c, m)
    BY <1>1, <1>2, <2>1, PutConnFields
  <2>4. PutConn(b, c, FreeConn) = PutConn(net, c, FreeConn)
    BY <1>1, <1>2, PutAgain
  <2> HIDE DEF b
  <2>5. n.pcb = "none"
    BY <1>3, <1>5 DEF Fresh
  <2>6. b \in NetRec /\ b.conn[c].pcb = "none" /\ b.conn[c].recvOk = FALSE /\ b.conn[c].acceptOk = FALSE
    BY <1>4, <2>1, <2>3, <2>5 DEF OnlyConn
  <2>7. netconn_free(b, c) = PutConn(b, c, FreeConn)
    BY <1>2, <2>6, FreeIs, Zenon
  <2>8. net' = PutAns(PutConn(net, c, FreeConn), t, "ok") /\ user' = [user EXCEPT ![t] = IdleUser]
    BY <1>5, <2>2, <2>4, <2>7 DEF SocketMade, Return, Set, PutAns
  <2>9. SockInv(PutAns(PutConn(net, c, FreeConn), t, "ok"), [user EXCEPT ![t] = IdleUser])
    BY <1>1, <1>2, <1>4, FreedStep
  <2> QED BY <2>8, <2>9
<1>6. CASE net.ans[t] = "ok" /\ \E fd \in Fd : /\ alloc_socket(fd)
        /\ Return(t, [net EXCEPT !.sock[fd] = NewSock(c, FALSE), !.conn[c].socket = fd])
  <2>1. PICK fd \in Fd : /\ alloc_socket(fd)
           /\ Return(t, [net EXCEPT !.sock[fd] = NewSock(c, FALSE), !.conn[c].socket = fd])
    BY <1>6, Zenon
  <2> DEFINE k == NewSock(c, FALSE)
             e == PutAns(PutFd(PutSlot(net, fd, k), c, fd), t, "ok")
  <2>2. Opened(k, c)
    BY <1>2, NewSockFields, Zenon
  <2> HIDE DEF k
  <2>3. [net EXCEPT !.sock[fd] = k, !.conn[c].socket = fd] = PutFd(PutSlot(net, fd, k), c, fd)
    BY <1>1, <1>2 DEF PutFd, PutSlot, PutConn, NetRec
  <2>4. net' = e /\ user' = [user EXCEPT ![t] = IdleUser]
    BY <2>1, <2>3, Zenon DEF Return, Set, PutAns, k
  <2>5. net.sock[fd].conn = NoFd
    BY <2>1 DEF alloc_socket
  <2>6. \A v \in User : v # t => user[v].fd # fd
    <3>1. \A v \in User : Holds(net, user[v])
      BY DEF SockInv, Links
    <3>2. fd # NoFd
      BY FdFacts
    <3> QED BY <2>5, <3>1, <3>2 DEF Holds
  <2>7. Raw(net, c) = 0
    BY <1>3 DEF Fresh, Raw
  <2>8. k \in SockRec /\ k.conn = c /\ k.waiting = 0 /\ k.rcvevent = Raw(net, c)
    BY <2>2, <2>7 DEF Opened
  <2>9. n.pcb \notin Live
    BY <1>3 DEF Fresh, Live
  <2>10. u.op # "select" /\ u.pc \notin {"await", "free"} /\ u.new \in {fd, NoFd}
         /\ net.sock[fd].conn \in {c, NoFd}
    BY <1>1, <1>2, <2>5
  <2>11. e = PutAns(PutFd(PutSlot(net, fd, k), c, fd), t, "ok")
    OBVIOUS
  <2> HIDE DEF e
  <2>12. SockInv(e, [user EXCEPT ![t] = IdleUser])
    BY <1>2, <1>4, <2>6, <2>8, <2>9, <2>10, <2>11, OpenStep, Zenon
  <2> QED BY <2>4, <2>12
<1>7. CASE Dropped(t, u)
  BY <1>1, <1>7, DroppedKeeps
<1> QED BY <1>5, <1>6, <1>7, Zenon DEF SocketMade

(* ConnDeleted of a netconn that got no descriptor: socket() or accept()   *)
(* has failed.                                                             *)
LEMMA DroppedEnds ==
  ASSUME SockInv(net, user), NEW t \in User, ConnDeleted(t), user[t].op # "close"
  PROVE  SockInv(net', user')
<1> DEFINE u == user[t]
           c == user[t].conn
           n == net.conn[c]
<1>1. u.pc = "back" /\ u.fn = "delconn" /\ net \in NetRec /\ Engaged(u)
  BY DEF ConnDeleted, Back, SockInv, Types, Engaged
<1>2. u.op \in {"socket", "accept"}
  <2>1. u.fn \in FnOf(u.op) /\ u \in UserRec
    BY <1>1, EngagedFacts, Zenon
  <2>2. u.op \in {"none", "socket", "bind", "connect", "listen", "send", "close", "accept", "recv", "select"}
    BY <2>1 DEF UserRec
  <2>3. u.op # "close"
    OBVIOUS
  <2> HIDE DEF u
  <2> QED BY <1>1, <2>1, <2>2, <2>3 DEF FnOf
<1>3. c \in Conn /\ Brought(u) = c /\ Private(net, user, t, c) /\ c # NoFd
  BY <1>1, <1>2, PrivateEngaged, NoFdIsNone DEF Brought
<1>4. n.msg = NoUser
  BY <1>1, <1>3, Quiet
<1>5. Deleting(n)
  BY <1>1 DEF SockInv, Stages, Stage, Closing
<1>6. n \in ConnRec /\ n.pcb = "none" /\ n.recvOk = FALSE /\ n.acceptOk = FALSE
  <2>1. n \in ConnRec
    BY <1>3, ConnFacts
  <2>2. n.recvOk \in BOOLEAN /\ n.acceptOk \in BOOLEAN
    BY <2>1 DEF ConnRec
  <2> QED BY <1>4, <1>5, <2>1, <2>2 DEF Deleting
<1>7. netconn_free(net, c) = PutConn(net, c, FreeConn)
  BY <1>1, <1>3, <1>6, FreeIs, Zenon
<1>8. net' = PutAns(PutConn(net, c, FreeConn), t, "ok") /\ user' = [user EXCEPT ![t] = IdleUser]
  BY <1>7 DEF ConnDeleted, Return, Set, PutAns
<1>9. SockInv(PutAns(PutConn(net, c, FreeConn), t, "ok"), [user EXCEPT ![t] = IdleUser])
  BY <1>1, <1>3, <1>6, FreedStep
<1> QED BY <1>8, <1>9
(* alloc_socket: a free descriptor is of no call.                          *)
LEMMA FreeFd ==
  ASSUME NEW s, NEW w, SockInv(s, w), NEW f \in Fd, s.sock[f].conn = NoFd
  PROVE  \A v \in User : w[v].fd # f
<1>1. \A v \in User : Holds(s, w[v])
  BY DEF SockInv, Links
<1>2. f # NoFd
  BY FdFacts
<1> QED BY <1>1, <1>2 DEF Holds

(* accept() has reserved a descriptor and settles.                         *)
LEMMA ReserveStep ==
  ASSUME SockInv(net, user), NEW t \in User, user[t].pc = "back", user[t].fn = "peer",
         NEW fd \in Fd, net.sock[fd].conn = NoFd,
         net' = PutSlot(net, fd, NewSock(user[t].conn, TRUE)),
         user' = [user EXCEPT ![t] = [user[t] EXCEPT !.pc = "settle", !.new = fd]]
  PROVE  SockInv(net', user')
<1> DEFINE u == user[t]
           c == user[t].conn
           n == net.conn[c]
           k == NewSock(c, TRUE)
           e == PutSlot(net, fd, k)
           v == [u EXCEPT !.pc = "settle", !.new = fd]
           x == [user EXCEPT ![t] = v]
<1>1. net \in NetRec /\ user \in [User -> UserRec] /\ fd # NoFd /\ fd >= 0
  BY FdFacts DEF SockInv, Types
<1>2. /\ u \in UserRec /\ u.op \in {"socket", "accept"} /\ u.new = NoFd
      /\ (u.op = "socket" <=> u.fn = "new")
      /\ Brought(u) = c /\ c \in Conn /\ c # NoFd
      /\ n.used /\ n.socket < 0 /\ OnIt(net, u, {c}) /\ Private(net, user, t, c)
      /\ n.msg = NoUser /\ n.done = 0 /\ Shape(u)
  BY MadeFacts
<1>3. u.op = "accept" /\ u.fd # NoFd /\ u.fd \in Fd
  <2>1. u.op = "accept"
    BY <1>2
  <2>2. u.fd # NoFd
    BY <1>2, <2>1 DEF Shape, OnFd
  <2> QED BY <1>2, <2>1, <2>2, UserFields
<1>4. Opened(k, c) /\ k.sendevent = 1
  BY <1>2, NewSockFields, Zenon
<1> HIDE DEF k
<1>5. OnlySlot(net, e, fd, k)
  BY <1>1, <1>4, PutSlotFields DEF Opened
<1> HIDE DEF e
<1>6. /\ e \in NetRec /\ e.conn = net.conn /\ e.sock[fd] = k
      /\ (\A f \in Fd : f # fd => e.sock[f] = net.sock[f])
      /\ e.list = net.list /\ e.want = net.want /\ e.sig = net.sig /\ e.moved = net.moved
      /\ e.ans = net.ans
  BY <1>5 DEF OnlySlot
<1>7. /\ v \in UserRec /\ v.pc = "settle" /\ v.new = fd /\ v.op = "accept" /\ v.fd = u.fd /\ v.conn = c
      /\ v.fn = "peer"
  BY <1>2, <1>3, Zenon DEF UserRec
<1> HIDE DEF v
<1>8. Brought(v) = c /\ ~Engaged(v) /\ ~Fetched(v) /\ ~Closing(v) /\ ~Making(v)
  BY <1>7 DEF Brought, Engaged, Fetched, Closing, Making
<1>9. \A z \in User : user[z].fd # fd
  BY FreeFd
<1>10. ~InBox(net, c)
  BY <1>2, NotBoxed
<1>11. Gives(net, e, user, t, v, c, fd)
  BY <1>1, <1>2, <1>6, <1>7, <1>8, <1>9, <1>10 DEF Gives
<1>12. x[t] = v /\ x = [user EXCEPT ![t] = v]
  BY <1>1
<1> HIDE DEF x
<1>13. Given(e, x, v, c, fd)
  <2>1. ~(e.conn[c].socket >= 0)
    BY <1>1, <1>2, <1>6, Entries
  <2>2. Holds(e, v)
    <3>1. Holds(net, u)
      BY DEF SockInv, Links
    <3>2. u.fd # fd
      BY <1>9
    <3>3. e.sock[u.fd] = net.sock[u.fd]
      BY <1>3, <1>6, <3>2
    <3>4. u.pc # "free" /\ v.pc # "free"
      BY <1>7
    <3> QED BY <1>3, <1>6, <1>7, <3>1, <3>3, <3>4 DEF Holds
  <2>3. e.sock[fd].conn = c
    BY <1>4, <1>6 DEF Opened
  <2>4. Brings(e, v)
    BY <1>2, <1>6, <1>7, <1>8, <2>3 DEF Brings
  <2>5. HasOwner(e, x, c)
    BY <1>8, <1>12 DEF HasOwner
  <2>6. SockTaken(e, x, fd)
    BY <1>7, <1>12 DEF SockTaken
  <2> QED BY <2>1, <2>2, <2>4, <2>5, <2>6 DEF Given
<1>14. Unwanted(net, e, fd)
  <2>1. \A z \in User : fd \notin WantsOf(net, z)
    BY NotWanted
  <2>2. e.sock[fd].waiting = 0
    BY <1>4, <1>6 DEF Opened
  <2> QED BY <2>1, <2>2 DEF Unwanted
<1>15. ConnSane(e.conn[c]) /\ Bounds(e.conn[c]) /\ e.conn[c].msg = NoUser /\ e.conn[c].done = 0
  BY <1>2, <1>6, ConnFacts
<1>16. MyCount(e, v, c)
  <2>1. MyCount(net, u, c)
    BY <1>2, CountMine DEF SockInv, Counts, Links
  <2>2. ~(n.socket >= 0)
    BY <1>1, <1>2, Entries
  <2>3. Due(u, n.socket) = 0 /\ Due(v, n.socket) = 0
    BY <2>2 DEF Due
  <2>4. Raw(e, c) = Raw(net, c)
    BY <1>2, <1>6 DEF Raw
  <2>5. ~Closing(u)
    BY DEF Closing
  <2> QED BY <1>6, <2>1, <2>3, <2>4, <2>5, Zenon DEF MyCount
<1>17. Writable(e, c)
  BY <1>1, <1>2, <1>6, Entries DEF Writable
<1>18. TaskOK(e, t, v)
  <2>1. Shape(v)
    BY <1>1, <1>2, <1>3, <1>7, <1>8 DEF Shape, OnFd
  <2>2. Hears(e, t, v) /\ Stage(e, t, v)
    BY <1>7, <1>8 DEF Hears, Stage
  <2>3. SlotFresh(e, v)
    BY <1>4, <1>6, <1>7 DEF SlotFresh, Opened
  <2> QED BY <2>1, <2>2, <2>3 DEF TaskOK
<1>19. OthersAns(net, e, t)
  BY <1>6 DEF OthersAns
<1>20. u.op # "select" /\ v.op # "select" /\ v.pc # "look" /\ v.op # "close" /\ fd \in Fd \cup {NoFd}
  BY <1>3, <1>7
<1>21. OnIt(net, user[t], {c}) /\ user[t].op # "select" /\ c \in Conn
  BY <1>2, <1>20
<1>22. net' = e /\ user' = x
  BY <1>12 DEF e, k, v
<1> HIDE DEF u, c
<1>23. SockInv(e, x)
  BY <1>6, <1>7, <1>8, <1>11, <1>12, <1>13, <1>14, <1>15, <1>16, <1>17, <1>18, <1>19, <1>20, <1>21, GiveStep, Zenon
<1> QED BY <1>22, <1>23, Zenon

(* Accepted *)
LEMMA AcceptedKeeps ==
  ASSUME SockInv(net, user), NEW t \in User, Accepted(t)
  PROVE  SockInv(net', user')
<1>1. user[t].pc = "back" /\ user[t].fn = "peer"
  BY Zenon DEF Accepted, Back
<1>2. CASE Dropped(t, user[t])
  BY <1>1, <1>2, DroppedKeeps
<1>3. CASE \E fd \in Fd : /\ alloc_socket(fd)
                          /\ net' = [net EXCEPT !.sock[fd] = NewSock(user[t].conn, TRUE)]
                          /\ Set(t, [user[t] EXCEPT !.pc = "settle", !.new = fd])
  <2>1. PICK fd \in Fd : /\ alloc_socket(fd)
                         /\ net' = [net EXCEPT !.sock[fd] = NewSock(user[t].conn, TRUE)]
                         /\ Set(t, [user[t] EXCEPT !.pc = "settle", !.new = fd])
    BY <1>3, Zenon
  <2>2. net' = PutSlot(net, fd, NewSock(user[t].conn, TRUE))
    BY <2>1 DEF PutSlot
  <2>3. net.sock[fd].conn = NoFd /\ user' = [user EXCEPT ![t] = [user[t] EXCEPT !.pc = "settle", !.new = fd]]
    BY <2>1 DEF alloc_socket, Set
  <2> QED BY <1>1, <2>2, <2>3, ReserveStep, Zenon
<1> QED BY <1>2, <1>3, Zenon DEF Accepted
(* Settle: what came in before the descriptor was known is counted.        *)
LEMMA SettleKeeps ==
  ASSUME SockInv(net, user), NEW t \in User, Settle(t)
  PROVE  SockInv(net', user')
<1> DEFINE u == user[t]
           c == user[t].conn
           n == net.conn[c]
           f == user[t].new
           h == net.sock[f]
           k == [h EXCEPT !.rcvevent = @ + (-1 - n.socket)]
           e == PutAns(PutFd(PutSlot(net, f, k), c, f), t, "ok")
<1>1. u.pc = "settle" /\ net \in NetRec /\ u \in UserRec /\ Shape(u) /\ Brings(net, u) /\ SlotFresh(net, u)
  BY DEF Settle, SockInv, Types, Shapes, Links, Counts
<1>2. u.op = "accept" /\ f # NoFd /\ f \in Fd /\ c # NoFd /\ c \in Conn
  <2>1. u.op = "accept" /\ f # NoFd
    BY <1>1 DEF Shape
  <2>2. c # NoFd
    BY <1>1, <2>1 DEF Shape
  <2> QED BY <1>1, <2>1, <2>2, UserFields
<1>3. Brought(u) = c /\ ~Engaged(u) /\ ~Fetched(u) /\ ~Closing(u)
  BY <1>1, <1>2 DEF Brought, Engaged, Fetched, Closing
<1>4. h.conn = c /\ n.socket < 0 /\ n.used
  BY <1>1, <1>2, <1>3 DEF Brings
<1>5. h.rcvevent = 0 /\ h.sendevent = 1
  BY <1>1, <1>2 DEF SlotFresh
<1>6. h \in SockRec /\ n.socket \in Int
  BY <1>1, <1>2, Entries
<1>7. h.waiting = 0
  <2>1. net.conn[net.sock[f].conn].socket # f
    BY <1>2, <1>4, FdFacts
  <2>2. \A z \in User : f \notin WantsOf(net, z)
    BY <1>2, <2>1, NotWanted
  <2> QED BY <1>2, <2>2, NoWaiters
<1>8. k \in SockRec /\ k.conn = c /\ k.waiting = 0 /\ k.rcvevent = 0 + (-1 - n.socket) /\ k.sendevent = 1
  <2> HIDE DEF n
  <2>1. h.rcvevent + (-1 - n.socket) \in Int
    BY <1>5, <1>6
  <2> HIDE DEF h
  <2> QED BY <1>4, <1>5, <1>6, <1>7, <2>1 DEF SockRec
<1>9. k.rcvevent = Raw(net, c)
  BY <1>4, <1>6, <1>8 DEF Raw
<1>10. net' = e /\ user' = [user EXCEPT ![t] = IdleUser]
  <2>1. [net EXCEPT !.sock[f].rcvevent = @ + (-1 - n.socket), !.conn[c].socket = f]
          = PutFd(PutSlot(net, f, k), c, f)
    BY <1>1, <1>2 DEF PutFd, PutSlot, PutConn, NetRec
  <2> QED BY <2>1, Zenon DEF Settle, Return, Set, PutAns
<1>11. \A v \in User : v # t => user[v].fd # f
  BY <1>2 DEF SockInv, AllApart, Apart
<1>12. ~n.acceptOk
  BY <1>2, <1>4, NoFdNoListen
<1>13. /\ Brought(user[t]) = c /\ user[t].op # "select" /\ user[t].pc \notin {"await", "free"}
       /\ ~Closing(user[t]) /\ user[t].new \in {f, NoFd} /\ net.sock[f].conn \in {c, NoFd}
       /\ OnIt(net, user[t], {c})
  BY <1>1, <1>2, <1>3, <1>4 DEF OnIt
<1>14. e = PutAns(PutFd(PutSlot(net, f, k), c, f), t, "ok")
  OBVIOUS
<1> HIDE DEF e, k, c, f
<1>15. SockInv(e, [user EXCEPT ![t] = IdleUser])
  BY <1>2, <1>8, <1>9, <1>11, <1>12, <1>13, <1>14, OpenStep, Zenon
<1> QED BY <1>10, <1>15

(* ConnDeleted of close(): the netconn is freed, its descriptor not yet.   *)
LEMMA ClosedFrees ==
  ASSUME SockInv(net, user), NEW t \in User, ConnDeleted(t), user[t].op = "close"
  PROVE  SockInv(net', user')
<1> DEFINE u == user[t]
           c == user[t].conn
           n == net.conn[c]
           g == user[t].fd
           e == PutConn(net, c, FreeConn)
           v == [u EXCEPT !.pc = "free"]
           x == [user EXCEPT ![t] = v]
<1>1. /\ u.pc = "back" /\ u.fn = "delconn" /\ net \in NetRec /\ Engaged(u) /\ Closing(u)
      /\ user \in [User -> UserRec]
  BY DEF ConnDeleted, Back, SockInv, Types, Engaged, Closing
<1>2. u \in UserRec /\ Shape(u) /\ OnIt(net, u, {c}) /\ Hears(net, t, u) /\ Deleting(n)
  BY <1>1, EngagedFacts DEF Stage
<1>3. /\ g \in Fd /\ c = net.sock[g].conn /\ c \in Conn /\ n.socket = g /\ Private(net, user, t, c)
      /\ c # NoFd /\ g # NoFd /\ u.new = NoFd /\ Brought(u) = NoFd
  <2>1. g # NoFd /\ u.new = NoFd /\ Brought(u) = NoFd
    BY <1>1, <1>2 DEF Shape, OnFd, Brought
  <2>2. c = net.sock[g].conn
    BY <1>1, <1>2 DEF Hears
  <2>3. u.pc # "free"
    BY <1>1
  <2>4. /\ u.fd \in Fd /\ net.sock[u.fd].conn \in Conn
        /\ net.conn[net.sock[u.fd].conn].socket = u.fd
        /\ Private(net, user, t, net.sock[u.fd].conn)
    BY <2>1, <2>3, PrivateCall
  <2>5. c \in Conn /\ n.socket = g /\ Private(net, user, t, c)
    BY <2>2, <2>4
  <2> QED BY <2>1, <2>2, <2>4, <2>5, NoFdIsNone
<1>4. n.msg = NoUser
  BY <1>1, <1>3, Quiet
<1>5. n.pcb = "none" /\ n.recvOk = FALSE /\ n.acceptOk = FALSE /\ n.acceptmbox = <<>>
  <2>1. n \in ConnRec /\ ConnSane(n)
    BY <1>3, ConnFacts
  <2>2. n.recvOk \in BOOLEAN /\ n.acceptOk \in BOOLEAN
    BY <2>1 DEF ConnRec
  <2> QED BY <1>2, <1>4, <2>1, <2>2 DEF Deleting, ConnSane
<1>6. netconn_free(net, c) = e
  BY <1>1, <1>3, <1>5, FreeIs, Zenon
<1>7. net' = e /\ user' = x
  BY <1>6 DEF ConnDeleted, Set
<1>8. /\ FreeConn \in ConnRec /\ ConnSane(FreeConn) /\ Bounds(FreeConn) /\ FreeConn.used = FALSE
      /\ FreeConn.socket = -1 /\ FreeConn.acceptmbox = <<>> /\ FreeConn.msg = NoUser
      /\ FreeConn.done = 0
  BY FreeFields
<1>9. OnlyConn(net, e, c, FreeConn)
  BY <1>1, <1>3, <1>8, PutConnFields
<1> HIDE DEF e
<1>10. /\ e \in NetRec /\ e.conn[c] = FreeConn /\ (\A k \in Conn : k # c => e.conn[k] = net.conn[k])
       /\ e.sock = net.sock /\ e.list = net.list /\ e.want = net.want /\ e.sig = net.sig
       /\ e.moved = net.moved /\ e.ans = net.ans
  BY <1>9 DEF OnlyConn
<1>11. Moved(u, v, "free")
  <2>1. "free" \in Pcs
    BY DEF Pcs
  <2> QED BY <1>2, <2>1, MoveFields
<1> HIDE DEF v
<1>12. v \in UserRec /\ v.pc = "free" /\ v.op = "close" /\ v.fd = g /\ v.new = NoFd /\ v.conn = c
       /\ v.fn = "delconn"
  BY <1>1, <1>3, <1>11 DEF Moved
<1>13. Brought(v) = NoFd /\ ~Engaged(v) /\ ~Fetched(v) /\ ~Closing(v) /\ ~Making(v)
  BY <1>12 DEF Brought, Engaged, Fetched, Closing, Making
<1>14. x[t] = v /\ x = [user EXCEPT ![t] = v]
  BY <1>1
<1> HIDE DEF x
<1>15. ~InBox(net, c)
  BY <1>3, NotBoxed
<1>16. Gives(net, e, user, t, v, c, g)
  <2>1. e.conn[c].socket < 0 /\ e.conn[c].acceptmbox = n.acceptmbox
    BY <1>5, <1>8, <1>10
  <2>2. \A z \in User : z # t => user[z].fd # g
    BY <1>3 DEF SockInv, AllApart, Apart
  <2>3. net.sock[g].conn \in {c, NoFd} /\ user[t].pc # "free"
    BY <1>1, <1>3
  <2>4. \A f \in Fd : f # g => e.sock[f] = net.sock[f]
    BY <1>10
  <2> QED BY <1>3, <1>10, <1>12, <1>13, <1>15, <2>1, <2>2, <2>3, <2>4, Zenon DEF Gives
<1>17. \A k \in Conn : e.conn[k].socket # g
  <2> SUFFICES ASSUME NEW k \in Conn PROVE e.conn[k].socket # g
    OBVIOUS
  <2>1. CASE k = c
    BY <1>3, <1>8, <1>10, <2>1 DEF NoFd
  <2>2. CASE k # c
    <3>1. SockConn(net) /\ g >= 0
      BY <1>3, FdFacts DEF SockInv, Links
    <3> QED BY <1>3, <1>10, <2>2, <3>1 DEF SockConn
  <2> QED BY <2>1, <2>2
<1>18. Given(e, x, v, c, g)
  <2>1. ~(e.conn[c].socket >= 0) /\ ~e.conn[c].used
    BY <1>8, <1>10
  <2>2. Holds(e, v)
    BY <1>3, <1>10, <1>12, <1>17 DEF Holds
  <2>3. Brings(e, v)
    BY <1>12, <1>13 DEF Brings
  <2>4. SockTaken(e, x, g)
    BY <1>12, <1>14 DEF SockTaken
  <2> QED BY <2>1, <2>2, <2>3, <2>4 DEF Given
<1>19. Unwanted(net, e, g)
  <2>1. \A z \in User : g \notin WantsOf(net, z)
    BY <1>3 DEF SockInv, Selects, Wanted
  <2> QED BY <1>10, <2>1 DEF Unwanted
<1>20. ConnSane(e.conn[c]) /\ Bounds(e.conn[c]) /\ e.conn[c].msg = NoUser /\ e.conn[c].done = 0
  BY <1>8, <1>10
<1>21. MyCount(e, v, c) /\ Writable(e, c)
  <2>1. ~(e.conn[c].socket >= 0) /\ ~e.conn[c].used
    BY <1>8, <1>10
  <2>2. MyCount(e, v, c)
    BY <2>1 DEF MyCount
  <2>3. Writable(e, c)
    BY <2>1 DEF Writable
  <2> QED BY <2>2, <2>3
<1>22. TaskOK(e, t, v)
  <2>1. Shape(v)
    BY <1>3, <1>12, <1>13 DEF Shape, OnFd
  <2>2. Hears(e, t, v) /\ Stage(e, t, v)
    BY <1>12, <1>13 DEF Hears, Stage
  <2>3. SlotFresh(e, v)
    BY <1>12 DEF SlotFresh
  <2> QED BY <2>1, <2>2, <2>3 DEF TaskOK
<1>23. OthersAns(net, e, t)
  BY <1>10 DEF OthersAns
<1>24. /\ OnIt(net, user[t], {c}) /\ user[t].op # "select" /\ c \in Conn /\ g \in Fd \cup {NoFd}
       /\ v.op # "select" /\ v.pc # "look" /\ (v.op = "close" => user[t].op = "close" /\ v.fd = user[t].fd)
  BY <1>2, <1>3, <1>12, Zenon
<1> HIDE DEF c, g
<1>25. SockInv(e, x)
  BY <1>10, <1>12, <1>13, <1>14, <1>16, <1>18, <1>19, <1>20, <1>21, <1>22, <1>23, <1>24, GiveStep, Zenon
<1> QED BY <1>7, <1>25

(* ConnDeleted *)
LEMMA ConnDeletedKeeps ==
  ASSUME SockInv(net, user), NEW t \in User, ConnDeleted(t)
  PROVE  SockInv(net', user')
BY ClosedFrees, DroppedEnds
-----------------------------------------------------------------------------
(* Steps of a task that has to do with no netconn: select(), and the end   *)
(* of close().                                                             *)

(* All of the invariant but select().                                      *)
CallInv(s, w) ==
  /\ Types(s, w) /\ Conns(s) /\ Shapes(w) /\ AllApart(w) /\ Links(s, w)
  /\ Talks(s, w) /\ Stages(s, w) /\ Counts(s, w)

(* A task that waits for nothing of the stack and brings nothing.          *)
Aside(u) ==
  ~Engaged(u) /\ Brought(u) = NoFd /\ u.new = NoFd /\ ~Fetched(u) /\ u.pc # "fetch"

(* From s to e only descriptor g, which task t then has freed, and the     *)
(* fields of select() change.                                              *)
Beside(s, e, w, t, u, g) ==
  /\ e \in NetRec /\ e.conn = s.conn /\ OthersAns(s, e, t)
  /\ \A f \in Fd : f # g => /\ e.sock[f].conn = s.sock[f].conn
                            /\ e.sock[f].rcvevent = s.sock[f].rcvevent
                            /\ e.sock[f].sendevent = s.sock[f].sendevent
  /\ Aside(w[t]) /\ Aside(u) /\ Shape(u) /\ w[t].fd = g /\ u.fd = NoFd /\ u.pc # "free"
  /\ g # NoFd => w[t].pc = "free" /\ e.sock[g].conn = NoFd

(* Nobody else has the descriptor.                                         *)
Elsewhere(s, e, w, x, t, u, g) ==
  /\ x[t] = u
  /\ \A z \in User : z # t => x[z] = w[z]
  /\ \A z \in User : z # t /\ w[z].fd # NoFd =>
       /\ w[z].fd \in Fd /\ w[z].fd # g /\ e.sock[w[z].fd].conn = s.sock[w[z].fd].conn
  /\ \A z \in User : z # t /\ w[z].new # NoFd =>
       /\ w[z].new \in Fd /\ w[z].new # g /\ e.sock[w[z].new].conn = s.sock[w[z].new].conn
       /\ SlotFresh(s, w[z]) => SlotFresh(e, w[z])
  /\ \A c \in Conn : s.conn[c].socket >= 0 =>
       s.conn[c].socket \in Fd /\ s.conn[c].socket # g

(* free_socket: a descriptor is freed by the task that closes it.          *)
LEMMA BesideOthers ==
  ASSUME NEW s, NEW w, SockInv(s, w), NEW t \in User, NEW e, NEW u \in UserRec, NEW g \in Fd \cup {NoFd},
         Beside(s, e, w, t, u, g), NEW x, x = [w EXCEPT ![t] = u]
  PROVE  Elsewhere(s, e, w, x, t, u, g)
<1>1. s \in NetRec /\ w \in [User -> UserRec] /\ AllApart(w) /\ Holds(s, w[t])
  BY DEF SockInv, Types, Links
<1>2. \A z \in User : z # t => x[z] = w[z]
  OBVIOUS
<1>3. x[t] = u
  BY <1>1
<1>4. ASSUME NEW z \in User, z # t, w[z].fd # NoFd
      PROVE  w[z].fd \in Fd /\ w[z].fd # g /\ e.sock[w[z].fd].conn = s.sock[w[z].fd].conn
  <2>1. w[z].fd \in Fd
    BY <1>1, <1>4, UserFields
  <2>2. Apart(w[z], w[t])
    BY <1>1, <1>4 DEF AllApart
  <2>3. w[z].fd # g
    BY <1>4, <2>2 DEF Apart, Beside
  <2> QED BY <2>1, <2>3 DEF Beside
<1>5. ASSUME NEW z \in User, z # t, w[z].new # NoFd
      PROVE  /\ w[z].new \in Fd /\ w[z].new # g /\ e.sock[w[z].new].conn = s.sock[w[z].new].conn
             /\ SlotFresh(s, w[z]) => SlotFresh(e, w[z])
  <2>1. w[z].new \in Fd
    BY <1>1, <1>5, UserFields
  <2>2. Apart(w[z], w[t])
    BY <1>1, <1>5 DEF AllApart
  <2>3. w[z].new # g
    BY <1>5, <2>2 DEF Apart, Beside
  <2> QED BY <2>1, <2>3 DEF Beside, SlotFresh
<1>6. ASSUME NEW c \in Conn, s.conn[c].socket >= 0
      PROVE  s.conn[c].socket \in Fd /\ s.conn[c].socket # g
  <2>1. s.conn[c].socket \in Int /\ s.conn[c].socket < NumConn
    BY <1>1, Entries DEF SockInv, Types, Bounds
  <2>2. s.conn[c].socket \in Fd
    BY <1>6, <2>1, SocketAssumption DEF Fd
  <2>3. CASE g = NoFd
    BY <2>2, <2>3, NoFdIsNone
  <2>4. CASE g # NoFd
    <3>1. w[t].fd = g /\ w[t].pc = "free"
      BY <2>4 DEF Beside
    <3> QED BY <1>1, <2>2, <2>4, <3>1 DEF Holds
  <2> QED BY <2>2, <2>3, <2>4
<1> QED BY <1>2, <1>3, <1>4, <1>5, <1>6 DEF Elsewhere

(* Everything keeps its owner.                                             *)
LEMMA BesideLinks ==
  ASSUME NEW s, NEW w, SockInv(s, w), NEW t \in User, NEW e, NEW u \in UserRec, NEW g \in Fd \cup {NoFd},
         Beside(s, e, w, t, u, g), NEW x, x = [w EXCEPT ![t] = u]
  PROVE  Links(e, x) /\ AllApart(x)
<1>1. s \in NetRec /\ w \in [User -> UserRec] /\ AllApart(w) /\ Links(s, w) /\ e.conn = s.conn
  BY DEF SockInv, Types, Beside
<1>0. Elsewhere(s, e, w, x, t, u, g)
  BY BesideOthers, Zenon
<1>2. /\ \A z \in User : z # t => x[z] = w[z]
      /\ x[t] = u
  BY <1>0 DEF Elsewhere
<1>3. \A z \in User : Brought(x[z]) = Brought(w[z])
  BY <1>2 DEF Beside, Aside
<1>4. SockConn(e)
  <2> SUFFICES ASSUME NEW c \in Conn, s.conn[c].socket >= 0 PROVE e.sock[s.conn[c].socket].conn = c
    BY <1>1 DEF SockConn
  <2>1. s.conn[c].socket \in Fd /\ s.conn[c].socket # g
    BY <1>0 DEF Elsewhere
  <2>2. s.sock[s.conn[c].socket].conn = c
    BY <1>1 DEF Links, SockConn
  <2> QED BY <2>1, <2>2 DEF Beside
<1>5. ASSUME NEW z \in User PROVE Holds(e, x[z]) /\ Brings(e, x[z])
  <2>1. CASE z = t
    BY <1>2, <2>1 DEF Holds, Brings, Beside, Aside
  <2>2. CASE z # t
    <3>1. x[z] = w[z] /\ Holds(s, w[z]) /\ Brings(s, w[z])
      BY <1>1, <1>2, <2>2 DEF Links
    <3>2. w[z].fd # NoFd => e.sock[w[z].fd].conn = s.sock[w[z].fd].conn
      BY <1>0, <2>2 DEF Elsewhere
    <3>3. w[z].new # NoFd => e.sock[w[z].new].conn = s.sock[w[z].new].conn
      BY <1>0, <2>2 DEF Elsewhere
    <3>4. Holds(e, w[z])
      BY <1>1, <3>1, <3>2 DEF Holds
    <3>5. Brings(e, w[z])
      BY <1>1, <3>1, <3>3 DEF Brings
    <3> QED BY <3>1, <3>4, <3>5
  <2> QED BY <2>1, <2>2
<1>6. Boxes(e, x)
  BY <1>1, <1>3 DEF Links, Boxes, Boxed
<1>7. OwnersExist(e, x)
  BY <1>1, <1>3 DEF Links, OwnersExist, HasOwner, InBox
<1>8. SocksTaken(e, x)
  <2> SUFFICES ASSUME NEW f \in Fd, e.sock[f].conn # NoFd PROVE SockTaken(e, x, f)
    BY Zenon DEF SocksTaken
  <2>1. f # g /\ f # NoFd
    BY NoFdIsNone DEF Beside
  <2>2. e.sock[f].conn = s.sock[f].conn
    BY <2>1 DEF Beside
  <2>3. SockTaken(s, w, f)
    BY <1>1, <2>2 DEF Links, SocksTaken
  <2>4. CASE s.conn[s.sock[f].conn].socket = f
    BY <1>1, <2>2, <2>4 DEF SockTaken
  <2>5. CASE s.conn[s.sock[f].conn].socket # f
    <3>1. PICK z \in User : w[z].new = f \/ (w[z].pc = "free" /\ w[z].fd = f)
      BY <2>3, <2>5 DEF SockTaken
    <3>2. z # t
      BY <2>1, <3>1 DEF Beside, Aside
    <3> QED BY <1>2, <3>1, <3>2 DEF SockTaken
  <2> QED BY <2>4, <2>5
<1>9. AllApart(x)
  <2> SUFFICES ASSUME NEW y \in User, NEW z \in User, y # z PROVE Apart(x[y], x[z])
    BY DEF AllApart
  <2>1. Apart(w[y], w[z])
    BY <1>1 DEF AllApart
  <2>2. \A v \in User : (x[v].fd = w[v].fd \/ x[v].fd = NoFd) /\ x[v].new = w[v].new
    BY <1>2 DEF Beside, Aside
  <2> QED BY <1>3, <2>1, <2>2 DEF Apart
<1> QED BY <1>4, <1>5, <1>6, <1>7, <1>8, <1>9 DEF Links

(* Nothing else of the invariant tells the difference.                     *)
LEMMA BesideKeeps ==
  ASSUME NEW s, NEW w, SockInv(s, w), NEW t \in User, NEW e, NEW u \in UserRec, NEW g \in Fd \cup {NoFd},
         Beside(s, e, w, t, u, g), NEW x, x = [w EXCEPT ![t] = u]
  PROVE  CallInv(e, x)
<1>1. /\ s \in NetRec /\ w \in [User -> UserRec] /\ e.conn = s.conn /\ e \in NetRec
      /\ ~Engaged(w[t]) /\ ~Engaged(u) /\ ~Fetched(w[t]) /\ ~Fetched(u) /\ u.new = NoFd
      /\ u.pc # "fetch" /\ Shape(u)
  BY DEF SockInv, Types, Beside, Aside
<1>2. Elsewhere(s, e, w, x, t, u, g)
  BY BesideOthers, Zenon
<1>3. x[t] = u /\ \A z \in User : z # t => x[z] = w[z]
  BY <1>2 DEF Elsewhere
<1>4. Types(e, x)
  <2>1. x \in [User -> UserRec]
    BY <1>1
  <2> QED BY <1>1, <2>1 DEF SockInv, Types
<1>5. Conns(e)
  BY <1>1 DEF SockInv, Conns
<1>6. Shapes(x)
  BY <1>1, <1>3 DEF SockInv, Shapes
<1>7. Links(e, x) /\ AllApart(x)
  BY BesideLinks, Zenon
<1>8. ASSUME NEW z \in User, z # t, w[z].fd # NoFd
      PROVE  e.sock[w[z].fd].conn = s.sock[w[z].fd].conn
  BY <1>2, <1>8 DEF Elsewhere
<1>9. ASSUME NEW z \in User PROVE Hears(e, z, x[z])
  <2>1. CASE z = t
    BY <1>1, <1>3, <2>1 DEF Hears, Engaged
  <2>2. CASE z # t
    <3>1. x[z] = w[z] /\ Hears(s, z, w[z]) /\ Shape(w[z])
      BY <1>3, <2>2 DEF SockInv, Talks, Shapes
    <3>2. e.ans[z] = s.ans[z]
      BY <2>2 DEF Beside, OthersAns
    <3>3. Engaged(w[z]) /\ w[z].op \notin {"socket", "accept"} => w[z].fd # NoFd
      <4>1. Types(s, w) /\ Shapes(w) /\ Links(s, w) /\ Talks(s, w)
        BY DEF SockInv
      <4> QED BY <4>1, EngagedOn DEF Brought
    <3>4. Engaged(w[z]) /\ w[z].op \notin {"socket", "accept"} => w[z].conn = e.sock[w[z].fd].conn
      BY <1>8, <2>2, <3>1, <3>3 DEF Hears
    <3>5. Hears(e, z, w[z])
      BY <1>1, <3>1, <3>2, <3>4 DEF Hears
    <3> QED BY <3>1, <3>5
  <2> QED BY <2>1, <2>2
<1>10. ASSUME NEW c \in Conn PROVE HeardOf(e, x, c)
  <2>1. HeardOf(s, w, c) /\ s.conn[c].msg \in User \cup {NoUser}
    BY <1>1 DEF SockInv, Talks, NetRec, ConnRec
  <2>2. s.conn[c].msg # NoUser => s.conn[c].msg # t /\ x[s.conn[c].msg] = w[s.conn[c].msg]
    BY <1>1, <1>3, <2>1 DEF HeardOf, Engaged
  <2>3. s.conn[c].state = "CLOSE" => s.conn[c].msg # NoUser
    BY DEF SockInv, Conns, ConnSane, Busy
  <2>4. s.conn[c].done # 0 => \E z \in User : x[z].pc = "await" /\ x[z].conn = c
    <3> SUFFICES ASSUME s.conn[c].done # 0 PROVE \E z \in User : x[z].pc = "await" /\ x[z].conn = c
      OBVIOUS
    <3>1. PICK z \in User : w[z].pc = "await" /\ w[z].conn = c
      BY <2>1 DEF HeardOf
    <3>2. z # t
      BY <1>1, <3>1 DEF Engaged
    <3> QED BY <1>3, <3>1, <3>2
  <2> QED BY <1>1, <2>1, <2>2, <2>3, <2>4 DEF HeardOf
<1>11. Talks(e, x)
  BY <1>9, <1>10, Zenon DEF Talks
<1>12. ASSUME NEW z \in User PROVE Stage(e, z, x[z])
  <2>1. CASE z = t
    BY <1>1, <1>3, <2>1 DEF Stage, Closing, Making
  <2>2. CASE z # t
    <3>1. x[z] = w[z] /\ Stage(s, z, w[z]) /\ Shape(w[z])
      BY <1>3, <2>2 DEF SockInv, Stages, Shapes
    <3>2. e.ans[z] = s.ans[z]
      BY <2>2 DEF Beside, OthersAns
    <3>3. w[z].op = "recv" => e.sock[w[z].fd].conn = s.sock[w[z].fd].conn
      <4>1. w[z].op = "recv" => w[z].fd # NoFd
        BY <3>1 DEF Shape, OnFd
      <4> QED BY <1>8, <2>2, <4>1
    <3>4. Stage(e, z, w[z])
      BY <1>1, <3>1, <3>2, <3>3 DEF Stage
    <3> QED BY <3>1, <3>4
  <2> QED BY <2>1, <2>2
<1>13. Stages(e, x)
  BY <1>12 DEF Stages
<1>14. ASSUME NEW c \in Conn PROVE CountOf(e, x, c) /\ Writable(e, c)
  <2>1. CountOf(s, w, c) /\ Writable(s, c)
    BY DEF SockInv, Counts
  <2>2. s.conn[c].socket >= 0 => s.conn[c].socket \in Fd /\ s.conn[c].socket # g
    BY <1>2 DEF Elsewhere
  <2>3. s.conn[c].socket >= 0 =>
          /\ e.sock[s.conn[c].socket].rcvevent = s.sock[s.conn[c].socket].rcvevent
          /\ e.sock[s.conn[c].socket].sendevent = s.sock[s.conn[c].socket].sendevent
    BY <2>2 DEF Beside
  <2>4. Raw(e, c) = Raw(s, c)
    <3>1. s.conn[c].socket \in Int
      BY <1>1, Entries
    <3>2. CASE s.conn[c].socket < 0
      BY <1>1, <3>2 DEF Raw
    <3>3. CASE s.conn[c].socket >= 0
      BY <1>1, <2>3, <3>1, <3>3 DEF Raw
    <3> QED BY <3>1, <3>2, <3>3
  <2>5. Unclosed(x, c) => Unclosed(w, c)
    BY <1>1, <1>3 DEF Unclosed, Closing
  <2>6. Pending(x, s.conn[c].socket) = Pending(w, s.conn[c].socket)
    <3> DEFINE f == s.conn[c].socket
    <3>1. (\E z \in User : x[z].fd = f /\ Fetched(x[z])) <=> (\E z \in User : w[z].fd = f /\ Fetched(w[z]))
      BY <1>1, <1>3
    <3> QED BY <3>1 DEF Pending
  <2>7. CountOf(e, x, c)
    BY <1>1, <2>1, <2>4, <2>5, <2>6, Zenon DEF CountOf
  <2>8. Writable(e, c)
    BY <1>1, <2>1, <2>3 DEF Writable
  <2> QED BY <2>7, <2>8
<1>15. ASSUME NEW z \in User PROVE SlotFresh(e, x[z])
  <2>1. CASE z = t
    BY <1>1, <1>3, <2>1 DEF SlotFresh
  <2>2. CASE z # t
    <3>1. x[z] = w[z] /\ SlotFresh(s, w[z])
      BY <1>3, <2>2 DEF SockInv, Counts
    <3>2. w[z].new # NoFd => SlotFresh(e, w[z])
      BY <1>2, <2>2, <3>1 DEF Elsewhere
    <3> QED BY <3>1, <3>2 DEF SlotFresh
  <2> QED BY <2>1, <2>2
<1>16. Counts(e, x)
  BY <1>14, <1>15, Zenon DEF Counts
<1> QED BY <1>4, <1>5, <1>6, <1>7, <1>11, <1>13, <1>16 DEF CallInv

(* free_socket: the end of close().                                        *)
LEMMA FreeSocketKeeps ==
  ASSUME SockInv(net, user), NEW t \in User, free_socket(t)
  PROVE  SockInv(net', user')
<1> DEFINE g == user[t].fd
           a == PutSlot(net, g, FreeSock)
           e == PutAns(a, t, "ok")
           u == IdleUser
           x == [user EXCEPT ![t] = u]
<1>1. /\ net \in NetRec /\ user \in [User -> UserRec] /\ user[t] \in UserRec /\ Shape(user[t])
      /\ user[t].pc = "free" /\ Holds(net, user[t]) /\ Types(net, user) /\ Shapes(user) /\ Selects(net, user)
  BY DEF SockInv, Types, Shapes, Links, free_socket
<1>2. user[t].op = "close" /\ g # NoFd /\ user[t].new = NoFd
  BY <1>1 DEF Shape, OnFd
<1>3. g \in Fd /\ (\A c \in Conn : net.conn[c].socket # g) /\ net.sock[g].conn \in Conn
  <2>1. g \in Fd
    BY <1>1, <1>2, UserFields
  <2>2. net.sock[g].conn \in Conn
    BY <1>1, <1>2, <2>1, Entries DEF Holds
  <2> QED BY <1>1, <1>2, <2>1, <2>2 DEF Holds
<1>4. net' = e /\ user' = x
  BY DEF free_socket, Return, Set, PutSlot, PutAns
<1>5. FreeSock \in SockRec /\ FreeSock.conn = NoFd /\ FreeSock.waiting = 0
  BY DEF FreeSock, SockRec
<1>6. OnlySlot(net, a, g, FreeSock)
  BY <1>1, <1>3, <1>5, PutSlotFields
<1> HIDE DEF a
<1>7. OnlyAns(a, e, [a.ans EXCEPT ![t] = "ok"])
  BY <1>6, PutAnsFields, Zenon DEF OnlySlot
<1> HIDE DEF e
<1>8. /\ e \in NetRec /\ e.conn = net.conn /\ e.sock[g] = FreeSock
      /\ (\A h \in Fd : h # g => e.sock[h] = net.sock[h])
      /\ e.list = net.list /\ e.want = net.want /\ e.sig = net.sig /\ e.moved = net.moved
  BY <1>6, <1>7 DEF OnlySlot, OnlyAns
<1>9. OthersAns(net, e, t)
  BY <1>1, <1>6, <1>7 DEF OnlySlot, OnlyAns, OthersAns, NetRec
<1>10. /\ u \in UserRec /\ Brought(u) = NoFd /\ ~Engaged(u) /\ ~Fetched(u) /\ u.fd = NoFd
       /\ u.new = NoFd /\ u.pc = "idle" /\ u.op = "none" /\ Shape(u)
  BY IdleFacts
<1> HIDE DEF u
<1>11. Beside(net, e, user, t, u, g)
  <2>1. Aside(user[t])
    BY <1>1, <1>2 DEF Aside, Engaged, Brought, Fetched
  <2>2. Aside(u)
    BY <1>10 DEF Aside
  <2>3. e.sock[g].conn = NoFd
    BY <1>5, <1>8
  <2>4. \A f \in Fd : f # g => /\ e.sock[f].conn = net.sock[f].conn
                            /\ e.sock[f].rcvevent = net.sock[f].rcvevent
                            /\ e.sock[f].sendevent = net.sock[f].sendevent
    BY <1>8
  <2> QED BY <1>1, <1>8, <1>9, <1>10, <2>1, <2>2, <2>3, <2>4 DEF Beside
<1>12. x = [user EXCEPT ![t] = u] /\ g \in Fd \cup {NoFd} /\ x[t] = u /\ \A z \in User : z # t => x[z] = user[z]
  BY <1>1, <1>3
<1> HIDE DEF x
<1>13. CallInv(e, x)
  BY <1>10, <1>11, <1>12, BesideKeeps, Zenon
<1>14. SelKept(net, e)
  <2>1. net.sock[g].waiting = 0
    <3>1. net.conn[net.sock[g].conn].socket # g
      BY <1>3
    <3>2. \A z \in User : g \notin WantsOf(net, z)
      BY <1>3, <3>1, NotWanted
    <3> QED BY <1>3, <3>2, NoWaiters
  <2>2. \A f \in Fd : Steady(net, e, f)
    BY <1>5, <1>8, <2>1 DEF Steady
  <2> QED BY <1>8, <2>2, SelStays
<1>15. WantKept(net, e)
  <2>1. \A f \in Fd : net.sock[f].conn # NoFd /\ net.conn[net.sock[f].conn].socket = f
            => e.sock[f].conn = net.sock[f].conn /\ e.conn[net.sock[f].conn].socket = f
    BY <1>3, <1>8
  <2> QED BY <2>1, WantStays
<1>16. SelUsers(net, e, user, x)
  <2>1. \A v \in User : user[v].op = "select" \/ x[v].op = "select" => x[v] = user[v]
    BY <1>2, <1>10, <1>12
  <2>2. \A v \in User : x[v].op = "close" => user[v].op = "close" /\ x[v].fd = user[v].fd
    BY <1>10, <1>12
  <2>3. \A v \in User : x[v].pc = "look" => v \in e.moved \/ x[v].scb \in Listed(e)
    <3>1. \A v \in User : Selecting(net, v, user[v])
      BY <1>1 DEF Selects
    <3>2. Listed(e) = Listed(net)
      BY <1>8 DEF Listed
    <3> QED BY <1>8, <1>10, <1>12, <3>1, <3>2 DEF Selecting
  <2> QED BY <2>1, <2>2, <2>3 DEF SelUsers
<1>17. Selects(e, x)
  BY <1>1, <1>13, <1>14, <1>15, <1>16, SelectFrame DEF CallInv
<1> QED BY <1>4, <1>13, <1>17 DEF CallInv, SockInv
-----------------------------------------------------------------------------
(* The steps of select().                                                  *)

(* How much a task adds to a counter.                                      *)
One(s, t, u, fd) == IF CountedFor(s, t, u, fd) THEN 1 ELSE 0

(* A set that may have got or lost one element.                            *)
LEMMA OneMore ==
  ASSUME NEW S, NEW T, NEW t, IsFiniteSet(S), \A v : v # t => (v \in S <=> v \in T)
  PROVE  /\ Cardinality(S) \in Int
         /\ (t \in T <=> t \in S) => Cardinality(T) = Cardinality(S)
         /\ t \in T /\ t \notin S => Cardinality(T) = Cardinality(S) + 1
         /\ t \notin T /\ t \in S => Cardinality(T) = Cardinality(S) - 1
<1>0. Cardinality(S) \in Int
  BY FS_CardinalityType
<1>1. CASE t \in T <=> t \in S
  <2>1. T = S
    BY <1>1
  <2> QED BY <1>0, <1>1, <2>1
<1>2. CASE t \in T /\ t \notin S
  <2>1. T = S \cup {t}
    BY <1>2
  <2>2. Cardinality(S \cup {t}) = Cardinality(S) + 1
    BY <1>2, FS_AddElement
  <2> QED BY <1>0, <1>2, <2>1, <2>2
<1>3. CASE t \notin T /\ t \in S
  <2>1. T = S \ {t}
    BY <1>3
  <2>2. Cardinality(S \ {t}) = Cardinality(S) - 1
    BY <1>3, FS_RemoveElement
  <2> QED BY <1>0, <1>3, <2>1, <2>2
<1> QED BY <1>1, <1>2, <1>3

(* From s to e what select() of the other tasks goes by is the same.       *)
OthersSel(s, e, w, t) ==
  \A v \in User : v # t =>
    /\ e.want[v] = s.want[v] /\ (v \in e.sig <=> v \in s.sig) /\ (v \in Listed(s) => v \in Listed(e))
    /\ w[v].pc = "look" => v \in e.moved \/ w[v].scb \in Listed(e)

(* From s to e the netconns and the events of the descriptors are the      *)
(* same.                                                                   *)
SameEvents(s, e) ==
  /\ e \in NetRec /\ e.conn = s.conn
  /\ \A f \in Fd : /\ e.sock[f].conn = s.sock[f].conn
                   /\ e.sock[f].rcvevent = s.sock[f].rcvevent
                   /\ e.sock[f].sendevent = s.sock[f].sendevent

(* Task t has changed the counters by its part of them.                    *)
Recounted(s, e, t, v, u) ==
  \A fd \in Fd : e.sock[fd].waiting = s.sock[fd].waiting + One(e, t, u, fd) - One(s, t, v, fd)

(* A task that is idle or in select().                                     *)
InSelect(u) == u \in UserRec /\ Shape(u) /\ u.op \in {"none", "select"}

(* Such a task has to do with no netconn.                                  *)
LEMMA InSelectAside ==
  ASSUME NEW u, InSelect(u)
  PROVE  Aside(u) /\ u.fd = NoFd /\ u.pc # "free" /\ u.pc # "look"
<1>1. u.fd = NoFd /\ u.pc # "free" /\ u.pc # "look" /\ u.pc # "fetch" /\ u.new = NoFd
  BY DEF InSelect, Shape, OnFd
<1>2. Brought(u) = NoFd /\ ~Fetched(u)
  BY DEF InSelect, Brought, Fetched
<1>3. ~Engaged(u)
  BY DEF InSelect, Shape, Engaged
<1> QED BY <1>1, <1>2, <1>3 DEF Aside

(* Only what task t wants, where it is, and its part of the counters       *)
(* change.                                                                 *)
LEMMA SelectStep ==
  ASSUME NEW s, NEW w, SockInv(s, w), NEW t \in User, NEW e, NEW u, InSelect(w[t]), InSelect(u),
         NEW x, x = [w EXCEPT ![t] = u], SameEvents(s, e), OthersAns(s, e, t), OthersSel(s, e, w, t),
         Wanted(e, x, t), Selecting(e, t, u), Recounted(s, e, t, w[t], u)
  PROVE  SockInv(e, x)
<1>1. /\ s \in NetRec /\ w \in [User -> UserRec] /\ u \in UserRec /\ Selects(s, w)
      /\ x[t] = u /\ \A z \in User : z # t => x[z] = w[z]
  BY DEF SockInv, Types, InSelect
<1>2. CallInv(e, x)
  <2>1. Aside(w[t]) /\ w[t].fd = NoFd /\ w[t].pc # "free"
    BY InSelectAside
  <2>2. Aside(u) /\ u.fd = NoFd /\ u.pc # "free" /\ Shape(u)
    BY InSelectAside DEF InSelect
  <2>3. Beside(s, e, w, t, u, NoFd)
    BY <2>1, <2>2 DEF Beside, SameEvents
  <2> QED BY <1>1, <2>3, BesideKeeps, Zenon
<1>3. ASSUME NEW v \in User, v # t, NEW fd \in Fd PROVE Asks(e, v, fd) <=> Asks(s, v, fd)
  BY <1>3 DEF Asks, SameEvents, OthersSel
<1>4. ASSUME NEW v \in User, v # t
      PROVE  WantsOf(e, v) = WantsOf(s, v) /\ e.want[v] = s.want[v] /\ x[v] = w[v]
  BY <1>1, <1>4 DEF OthersSel, WantsOf
<1>5. ASSUME NEW v \in User PROVE Wanted(e, x, v)
  <2>1. CASE v = t
    BY <2>1
  <2>2. CASE v # t
    <3>1. Wanted(s, w, v)
      BY <1>1 DEF Selects
    <3>2. \A z \in User : x[z].op = "close" => w[z].op = "close" /\ x[z].fd = w[z].fd
      BY <1>1 DEF InSelect
    <3>3. \A fd \in WantsOf(s, v) : fd \in Fd
      BY <1>1, WantsAreFds
    <3> QED BY <1>4, <2>2, <3>1, <3>2, <3>3 DEF Wanted, SameEvents
  <2> QED BY <2>1, <2>2
<1>6. ASSUME NEW v \in User PROVE Selecting(e, v, x[v])
  <2>1. CASE v = t
    BY <1>1, <2>1
  <2>2. CASE v # t
    <3>1. Selecting(s, v, w[v]) /\ x[v] = w[v] /\ WantsOf(e, v) = WantsOf(s, v)
      BY <1>1, <1>4, <2>2 DEF Selects
    <3>2. \A fd \in WantsOf(s, v) : Asks(e, v, fd) <=> Asks(s, v, fd)
      BY <1>1, <1>3, <2>2, WantsAreFds
    <3>3. /\ (v \in e.sig <=> v \in s.sig) /\ (v \in Listed(s) => v \in Listed(e))
          /\ w[v].pc = "look" => v \in e.moved \/ w[v].scb \in Listed(e)
      BY <2>2 DEF OthersSel
    <3> QED BY <3>1, <3>2, <3>3 DEF Selecting
  <2> QED BY <2>1, <2>2
<1>7. ASSUME NEW fd \in Fd PROVE e.sock[fd].waiting = Cardinality(Waiters(e, x, fd))
  <2> DEFINE S == Waiters(s, w, fd)
             T == Waiters(e, x, fd)
  <2>1. IsFiniteSet(S)
    <3>1. S \in SUBSET User /\ IsFiniteSet(User)
      BY SocketAssumption DEF Waiters
    <3> QED BY <3>1, FS_Subset
  <2>2. \A v : v # t => (v \in S <=> v \in T)
    BY <1>4 DEF Waiters, CountedFor
  <2>3. (t \in S <=> CountedFor(s, t, w[t], fd)) /\ (t \in T <=> CountedFor(e, t, u, fd))
    BY <1>1 DEF Waiters
  <2>4. s.sock[fd].waiting = Cardinality(S)
    BY <1>1, <1>7 DEF Selects
  <2>5. e.sock[fd].waiting = s.sock[fd].waiting + One(e, t, u, fd) - One(s, t, w[t], fd)
    BY <1>7 DEF Recounted
  <2> HIDE DEF S, T
  <2>6. /\ Cardinality(S) \in Int
        /\ (t \in T <=> t \in S) => Cardinality(T) = Cardinality(S)
        /\ t \in T /\ t \notin S => Cardinality(T) = Cardinality(S) + 1
        /\ t \notin T /\ t \in S => Cardinality(T) = Cardinality(S) - 1
    BY <2>1, <2>2, OneMore
  <2>7. e.sock[fd].waiting = Cardinality(T)
    BY ONLY <2>3, <2>4, <2>5, <2>6 DEF One
  <2> QED BY <2>7 DEF T
<1>8. Selects(e, x)
  BY <1>5, <1>6, <1>7, Zenon DEF Selects
<1> QED BY <1>2, <1>8 DEF CallInv, SockInv

(* A task in select() goes on at pc, with todo and ready.                  *)
SelPcs == {"add", "count", "scan", "wait", "uncount", "remove"}

SelTo(v, u, pc, todo, ready) ==
  /\ u \in UserRec /\ u.op = v.op /\ u.fd = v.fd /\ u.new = v.new /\ u.pc = pc
  /\ u.todo = todo /\ u.ready = ready

(* NextFd and the other moves of lwip_select change pc, todo and ready     *)
(* only.                                                                   *)
LEMMA SelToFields ==
  ASSUME NEW v \in UserRec, NEW pc \in SelPcs, NEW todo \in SUBSET Fd, NEW ready, ready \in BOOLEAN
  PROVE  /\ SelTo(v, [v EXCEPT !.pc = pc, !.todo = todo], pc, todo, v.ready)
         /\ SelTo(v, [v EXCEPT !.todo = todo, !.ready = ready], v.pc, todo, ready)
         /\ SelTo(v, [v EXCEPT !.pc = pc, !.todo = todo, !.ready = ready], pc, todo, ready)
<1>1. /\ [v EXCEPT !.pc = pc, !.todo = todo] \in UserRec
      /\ [v EXCEPT !.todo = todo, !.ready = ready] \in UserRec
      /\ [v EXCEPT !.pc = pc, !.todo = todo, !.ready = ready] \in UserRec
  <2>1. pc \in Pcs
    BY DEF SelPcs, Pcs
  <2>2. [v EXCEPT !.pc = pc, !.todo = todo] \in UserRec
    BY <2>1, Zenon DEF UserRec, Pcs
  <2>3. [v EXCEPT !.todo = todo, !.ready = ready] \in UserRec
    BY Zenon DEF UserRec
  <2>4. [v EXCEPT !.pc = pc, !.todo = todo, !.ready = ready] \in UserRec
    BY <2>1, Zenon DEF UserRec, Pcs
  <2> QED BY <2>2, <2>3, <2>4
<1>2. SelTo(v, [v EXCEPT !.pc = pc, !.todo = todo], pc, todo, v.ready)
  BY <1>1, Zenon DEF SelTo, UserRec
<1>3. SelTo(v, [v EXCEPT !.todo = todo, !.ready = ready], v.pc, todo, ready)
  BY <1>1, Zenon DEF SelTo, UserRec
<1>4. SelTo(v, [v EXCEPT !.pc = pc, !.todo = todo, !.ready = ready], pc, todo, ready)
  BY <1>1, Zenon DEF SelTo, UserRec
<1> QED BY <1>2, <1>3, <1>4

(* It is still in select().                                                *)
LEMMA SelToShape ==
  ASSUME NEW v, NEW u, NEW pc \in SelPcs, NEW todo, NEW ready, InSelect(v), v.op = "select",
         SelTo(v, u, pc, todo, ready)
  PROVE  InSelect(u)
<1>1. /\ u \in UserRec /\ u.op = "select" /\ u.fd = v.fd /\ u.new = v.new /\ u.pc = pc
  BY DEF SelTo
<1>2. v.fd = NoFd /\ v.new = NoFd
  BY InSelectAside DEF Aside
<1>3. pc # "idle" /\ pc # "free" /\ pc # "fetch" /\ pc # "settle" /\ pc \notin {"await", "back", "event", "look", "copy"}
  BY DEF SelPcs
<1>4. Shape(u)
  BY <1>1, <1>2, <1>3 DEF Shape, OnFd, SelPcs, Engaged
<1> QED BY <1>1, <1>4 DEF InSelect

(* NextFd goes through the descriptors from the lowest on.                 *)
LEMMA LeastFd ==
  ASSUME NEW T, T \subseteq Fd, T # {}
  PROVE  Min(T) \in T
<1>1. T \subseteq Nat
  BY NoFdIsNone
<1>2. \E y \in T : \A z \in T : y <= z
  BY <1>1, LeastElement, Zenon
<1> QED BY <1>2 DEF Min

(* From s to e only the counter of descriptor f changes, to n.             *)
OnlyWaiting(s, e, f, n) ==
  /\ SameEvents(s, e) /\ e.sock[f].waiting = n
  /\ \A h \in Fd : h # f => e.sock[h].waiting = s.sock[h].waiting
  /\ e.list = s.list /\ e.want = s.want /\ e.sig = s.sig /\ e.moved = s.moved /\ e.ans = s.ans

(* SelectCount and SelectUncount change select_waiting of one descriptor   *)
(* only.                                                                   *)
LEMMA WaiterFields ==
  ASSUME NEW s \in NetRec, NEW f \in Fd, NEW n \in Int
  PROVE  OnlyWaiting(s, [s EXCEPT !.sock[f].waiting = n], f, n)
<1> DEFINE k == [s.sock[f] EXCEPT !.waiting = n]
           e == [s EXCEPT !.sock[f].waiting = n]
<1>1. s.sock[f] \in SockRec
  BY DEF NetRec
<1>2. /\ k \in SockRec /\ k.waiting = n /\ k.conn = s.sock[f].conn
      /\ k.rcvevent = s.sock[f].rcvevent /\ k.sendevent = s.sock[f].sendevent
  BY <1>1 DEF SockRec
<1>3. e = PutSlot(s, f, k)
  BY DEF PutSlot, NetRec
<1> HIDE DEF k, e
<1>4. OnlySlot(s, e, f, k)
  BY <1>2, <1>3, PutSlotFields
<1>5. SameEvents(s, e)
  BY <1>2, <1>4 DEF OnlySlot, SameEvents
<1>6. OnlyWaiting(s, e, f, n)
  BY <1>2, <1>4, <1>5 DEF OnlySlot, OnlyWaiting
<1> QED BY <1>6 DEF e

(* What a task that is in select() has.                                    *)
LEMMA SelFacts ==
  ASSUME NEW s, NEW w, SockInv(s, w), NEW t \in User, w[t].pc \in SelPcs
  PROVE  /\ s \in NetRec /\ w \in [User -> UserRec] /\ w[t] \in UserRec /\ InSelect(w[t])
         /\ w[t].op = "select" /\ Wanted(s, w, t) /\ Selecting(s, t, w[t])
         /\ WantsOf(s, t) # {} /\ WantsOf(s, t) \in SUBSET Fd
         /\ \A f \in Fd : s.sock[f].waiting \in Int
<1>1. /\ s \in NetRec /\ w \in [User -> UserRec] /\ w[t] \in UserRec /\ Shape(w[t])
      /\ Wanted(s, w, t) /\ Selecting(s, t, w[t])
  BY DEF SockInv, Types, Shapes, Selects
<1>2. w[t].op = "select"
  BY <1>1 DEF Shape, SelPcs
<1>3. InSelect(w[t])
  BY <1>1, <1>2 DEF InSelect
<1>4. WantsOf(s, t) # {}
  BY <1>1, <1>2, SocketAssumption DEF Wanted, WantsOf
<1>5. WantsOf(s, t) \in SUBSET Fd
  BY <1>1, WantsAreFds
<1>6. \A f \in Fd : s.sock[f].waiting \in Int
  BY <1>1 DEF NetRec, SockRec
<1> QED BY <1>1, <1>2, <1>3, <1>4, <1>5, <1>6

(* The other tasks go on with the same list, sets and signals.             *)
LEMMA SameSel ==
  ASSUME NEW s, NEW w, SockInv(s, w), NEW t \in User, NEW e, e.list = s.list, e.want = s.want,
         e.sig = s.sig, e.moved = s.moved
  PROVE  OthersSel(s, e, w, t)
<1>1. \A v \in User : Selecting(s, v, w[v])
  BY DEF SockInv, Selects
<1>2. Listed(e) = Listed(s)
  BY DEF Listed
<1> QED BY <1>1, <1>2 DEF OthersSel, Selecting

(* From s to e and w to x, task t goes on with its select().               *)
StillSelects(s, e, w, x, t, u) ==
  /\ t \in User /\ SameEvents(s, e) /\ e.want = s.want
  /\ u.op = "select" /\ w[t].op = "select" /\ x = [w EXCEPT ![t] = u]

(* The task wants what it wanted.                                          *)
LEMMA SameWanted ==
  ASSUME NEW s, NEW w, SockInv(s, w), NEW t, NEW e, NEW u, NEW x, StillSelects(s, e, w, x, t, u)
  PROVE  Wanted(e, x, t) /\ WantsOf(e, t) = WantsOf(s, t)
<1> SUFFICES ASSUME t \in User, SameEvents(s, e), e.want = s.want, u.op = "select",
                    w[t].op = "select", x = [w EXCEPT ![t] = u]
             PROVE  Wanted(e, x, t) /\ WantsOf(e, t) = WantsOf(s, t)
  BY Zenon DEF StillSelects
<1>1. s \in NetRec /\ w \in [User -> UserRec] /\ Wanted(s, w, t)
  BY DEF SockInv, Types, Selects
<1>2. WantsOf(e, t) = WantsOf(s, t)
  BY DEF WantsOf
<1>3. \A v \in User : x[v].op = "close" => w[v].op = "close" /\ x[v].fd = w[v].fd
  BY <1>1
<1>4. x[t].op = "select"
  BY <1>1
<1>5. \A fd \in WantsOf(s, t) : fd \in Fd
  BY <1>1, WantsAreFds
<1> QED BY <1>1, <1>2, <1>3, <1>4, <1>5 DEF Wanted, SameEvents

(* Where a listed task may go: with what is left, and to sleep only when   *)
(* nothing is ready that was not signalled.                                *)
GoesOK(s, t, pc, todo, ready) ==
  /\ pc \in {"count", "scan", "uncount"} => todo # {} /\ todo \subseteq WantsOf(s, t)
  /\ pc = "wait" /\ t \notin s.sig => \A fd \in WantsOf(s, t) : ~Asks(s, t, fd)
  /\ pc = "scan" /\ ~ready /\ t \notin s.sig => \A fd \in WantsOf(s, t) \ todo : ~Asks(s, t, fd)

(* A listed task goes on in lwip_select and changes the counters by its    *)
(* part of them.                                                           *)
LEMMA SelGoes ==
  ASSUME NEW s, NEW w, SockInv(s, w), NEW t \in User, w[t].pc \in SelPcs, w[t].pc # "add",
         NEW e, SameEvents(s, e), e.list = s.list, e.want = s.want, e.sig = s.sig, e.moved = s.moved,
         e.ans = s.ans, NEW pc \in SelPcs, NEW todo, NEW ready, NEW u, SelTo(w[t], u, pc, todo, ready),
         GoesOK(s, t, pc, todo, ready),
         \A fd \in Fd : e.sock[fd].waiting = s.sock[fd].waiting + One(s, t, u, fd) - One(s, t, w[t], fd),
         NEW x, x = [w EXCEPT ![t] = u]
  PROVE  SockInv(e, x)
<1>1. InSelect(w[t]) /\ w[t].op = "select" /\ s \in NetRec /\ Selecting(s, t, w[t])
  BY SelFacts
<1>2. InSelect(u)
  BY <1>1, SelToShape
<1>3. u.op = "select" /\ u.pc = pc /\ u.todo = todo /\ u.ready = ready
  BY <1>1 DEF SelTo
<1>4. OthersSel(s, e, w, t)
  BY SameSel
<1>5. Wanted(e, x, t) /\ WantsOf(e, t) = WantsOf(s, t)
  <2>1. u.op = "select" /\ w[t].op = "select"
    BY <1>1, <1>3
  <2>2. StillSelects(s, e, w, x, t, u)
    BY <2>1, Zenon DEF StillSelects
  <2> QED BY ONLY SockInv(s, w), <2>2, SameWanted
<1>6. Selecting(e, t, u)
  <2>1. Listed(e) = Listed(s) /\ t \in Listed(s)
    <3>1. Listed(e) = Listed(s)
      BY DEF Listed
    <3>2. t \in Listed(s)
      BY <1>1 DEF Selecting, SelPcs
    <3> QED BY <3>1, <3>2
  <2>2. \A fd \in WantsOf(s, t) : Asks(e, t, fd) <=> Asks(s, t, fd)
    <3>1. WantsOf(s, t) \subseteq Fd
      BY <1>1, WantsAreFds
    <3> QED BY <3>1 DEF Asks, SameEvents
  <2>3. pc # "look"
    BY DEF SelPcs
  <2> QED BY <1>3, <1>5, <2>1, <2>2, <2>3 DEF Selecting, GoesOK
<1>7. Recounted(s, e, t, w[t], u)
  <2>1. \A fd \in Fd : One(e, t, u, fd) = One(s, t, u, fd)
    BY <1>5 DEF One, CountedFor
  <2> QED BY <2>1 DEF Recounted
<1>8. OthersAns(s, e, t)
  BY DEF OthersAns
<1> QED BY <1>1, <1>2, <1>4, <1>5, <1>6, <1>7, <1>8, SelectStep, Zenon

(* Nothing is counted.                                                     *)
LEMMA SelWalks ==
  ASSUME SockInv(net, user), NEW t \in User, user[t].pc \in SelPcs, user[t].pc # "add",
         NEW pc \in SelPcs, NEW todo, NEW ready, NEW u, SelTo(user[t], u, pc, todo, ready),
         GoesOK(net, t, pc, todo, ready),
         \A fd \in Fd : CountedFor(net, t, u, fd) <=> CountedFor(net, t, user[t], fd),
         net' = net, user' = [user EXCEPT ![t] = u]
  PROVE  SockInv(net', user')
<1>1. net \in NetRec /\ \A fd \in Fd : net.sock[fd].waiting \in Int
  BY SelFacts
<1>2. SameEvents(net, net)
  BY <1>1 DEF SameEvents
<1>3. \A fd \in Fd : net.sock[fd].waiting = net.sock[fd].waiting + One(net, t, u, fd) - One(net, t, user[t], fd)
  <2> SUFFICES ASSUME NEW fd \in Fd
               PROVE  net.sock[fd].waiting = net.sock[fd].waiting + One(net, t, u, fd) - One(net, t, user[t], fd)
    OBVIOUS
  <2>1. One(net, t, u, fd) = One(net, t, user[t], fd)
    BY DEF One
  <2>2. One(net, t, user[t], fd) \in Int
    BY DEF One
  <2> QED BY <1>1, <2>1, <2>2
<1>4. SockInv(net, [user EXCEPT ![t] = u])
  BY <1>2, <1>3, SelGoes, Zenon
<1> QED BY <1>4

(* SelectWaked and SelectTimeout: the counters are lowered next.           *)
LEMMA WokenKeeps ==
  ASSUME SockInv(net, user), NEW t \in User, SelectWaked(t) \/ SelectTimeout(t)
  PROVE  SockInv(net', user')
<1> DEFINE W == WantsOf(net, t)
           v == user[t]
           u == [v EXCEPT !.pc = "uncount", !.todo = W]
<1>1. v.pc = "wait" /\ net' = net /\ user' = [user EXCEPT ![t] = u]
  BY DEF SelectWaked, SelectTimeout, Set, Interest, WantsOf
<1>2. v.pc \in SelPcs /\ v.pc # "add" /\ "uncount" \in SelPcs
  BY <1>1 DEF SelPcs
<1>3. v \in UserRec /\ W # {} /\ W \in SUBSET Fd /\ v.ready \in BOOLEAN
  <2>1. v \in UserRec /\ W # {} /\ W \in SUBSET Fd
    BY <1>2, SelFacts
  <2> QED BY <2>1 DEF UserRec
<1>4. SelTo(v, u, "uncount", W, v.ready)
  BY <1>2, <1>3, SelToFields, Zenon
<1>5. GoesOK(net, t, "uncount", W, v.ready)
  BY <1>3 DEF GoesOK
<1> HIDE DEF u
<1>6. u.pc = "uncount" /\ u.todo = W
  BY <1>4 DEF SelTo
<1>7. \A fd \in Fd : CountedFor(net, t, u, fd) <=> CountedFor(net, t, v, fd)
  BY <1>1, <1>6 DEF CountedFor
<1> HIDE DEF W
<1> QED BY <1>1, <1>2, <1>4, <1>5, <1>7, SelWalks, Zenon

(* SelectScan: the second look at the descriptors.                         *)
LEMMA ScanKeeps ==
  ASSUME SockInv(net, user), NEW t \in User, SelectScan(t)
  PROVE  SockInv(net', user')
<1> DEFINE W == WantsOf(net, t)
           v == user[t]
           f == Min(v.todo)
           rest == v.todo \ {f}
           found == v.ready \/ Ready(f, net.want[t])
           pc == IF found THEN "uncount" ELSE "wait"
           todo == IF found THEN W ELSE {}
           a == [v EXCEPT !.todo = rest, !.ready = found]
           b == [v EXCEPT !.pc = pc, !.todo = todo, !.ready = found]
<1>1. v.pc = "scan" /\ net' = net /\ user' = [user EXCEPT ![t] = IF rest # {} THEN a ELSE b]
  BY DEF SelectScan, NextFd, Set, Interest, WantsOf
<1>2. v.pc \in SelPcs /\ v.pc # "add" /\ "uncount" \in SelPcs /\ "wait" \in SelPcs
  BY <1>1 DEF SelPcs
<1>3. /\ v \in UserRec /\ W # {} /\ W \in SUBSET Fd /\ Selecting(net, t, v) /\ net \in NetRec
  BY <1>2, SelFacts
<1>4. v.ready \in BOOLEAN /\ v.todo # {} /\ v.todo \subseteq W /\ v.todo \subseteq Fd
  BY <1>1, <1>3 DEF UserRec, Selecting
<1>5. f \in v.todo /\ rest \in SUBSET Fd /\ rest \subseteq W
  BY <1>4, LeastFd
<1>6. found \in BOOLEAN
  BY <1>4 DEF Ready
<1>7. ~found /\ t \notin net.sig => \A fd \in W \ rest : ~Asks(net, t, fd)
  <2> SUFFICES ASSUME ~found, t \notin net.sig, NEW fd \in W \ rest PROVE ~Asks(net, t, fd)
    OBVIOUS
  <2>1. CASE fd = f
    BY <2>1 DEF Ready, Asks
  <2>2. CASE fd # f
    <3>1. fd \in W \ v.todo
      BY <2>2
    <3> QED BY <1>1, <1>3, <1>4, <3>1 DEF Selecting
  <2> QED BY <2>1, <2>2
<1> HIDE DEF f, found
<1>8. CASE rest # {}
  <2>1. SelTo(v, a, v.pc, rest, found)
    BY <1>2, <1>3, <1>5, <1>6, SelToFields, Zenon
  <2> HIDE DEF a
  <2>2. a.pc = "scan" /\ a.todo = rest
    BY <1>1, <2>1 DEF SelTo
  <2>3. GoesOK(net, t, v.pc, rest, found)
    BY <1>1, <1>5, <1>7, <1>8 DEF GoesOK
  <2>4. \A fd \in Fd : CountedFor(net, t, a, fd) <=> CountedFor(net, t, v, fd)
    BY <1>1, <2>2 DEF CountedFor
  <2>5. user' = [user EXCEPT ![t] = a]
    BY <1>1, <1>8
  <2> HIDE DEF W, rest
  <2> QED BY <1>1, <1>2, <2>1, <2>3, <2>4, <2>5, SelWalks, Zenon
<1>9. CASE rest = {}
  <2>1. pc \in SelPcs /\ todo \in SUBSET Fd
    BY <1>2, <1>3
  <2>2. SelTo(v, b, pc, todo, found)
    BY <1>3, <1>6, <2>1, SelToFields, Zenon
  <2> HIDE DEF b
  <2>3. b.pc = pc /\ b.todo = todo
    BY <2>2 DEF SelTo
  <2>4. GoesOK(net, t, pc, todo, found)
    <3>1. CASE found
      BY <1>3, <3>1 DEF GoesOK
    <3>2. CASE ~found
      <4>1. t \notin net.sig => \A fd \in W : ~Asks(net, t, fd)
        BY <1>7, <1>9, <3>2
      <4>2. pc = "wait"
        BY <3>2
      <4> QED BY <4>1, <4>2 DEF GoesOK
    <3> QED BY <3>1, <3>2
  <2>5. \A fd \in Fd : CountedFor(net, t, b, fd) <=> CountedFor(net, t, v, fd)
    <3>1. CASE found
      BY <1>1, <2>3, <3>1 DEF CountedFor
    <3>2. CASE ~found
      BY <1>1, <2>3, <3>2 DEF CountedFor
    <3> QED BY <3>1, <3>2
  <2>6. user' = [user EXCEPT ![t] = b]
    BY <1>1, <1>9, Zenon
  <2> HIDE DEF W, rest, pc, todo
  <2> QED BY <1>1, <1>2, <2>1, <2>2, <2>4, <2>5, <2>6, SelWalks, Zenon
<1> QED BY <1>8, <1>9

(* The counter of descriptor f goes from n to n + d, d what task t changes *)
(* of it.                                                                  *)
LEMMA SelCounts ==
  ASSUME SockInv(net, user), NEW t \in User, user[t].pc \in SelPcs, user[t].pc # "add",
         NEW f \in Fd, NEW d \in Int, NEW pc \in SelPcs, NEW todo, NEW ready, NEW u,
         SelTo(user[t], u, pc, todo, ready), GoesOK(net, t, pc, todo, ready),
         One(net, t, u, f) - One(net, t, user[t], f) = d,
         \A fd \in Fd : fd # f => (CountedFor(net, t, u, fd) <=> CountedFor(net, t, user[t], fd)),
         net' = [net EXCEPT !.sock[f].waiting = net.sock[f].waiting + d], user' = [user EXCEPT ![t] = u]
  PROVE  SockInv(net', user')
<1> DEFINE n == net.sock[f].waiting + d
           e == [net EXCEPT !.sock[f].waiting = n]
<1>1. net \in NetRec /\ \A fd \in Fd : net.sock[fd].waiting \in Int
  BY SelFacts
<1>2. n \in Int
  BY <1>1
<1> HIDE DEF n
<1>3. OnlyWaiting(net, e, f, n)
  BY <1>1, <1>2, WaiterFields
<1>4. net' = e
  BY DEF n
<1> HIDE DEF e
<1>5. \A fd \in Fd : e.sock[fd].waiting = net.sock[fd].waiting + One(net, t, u, fd) - One(net, t, user[t], fd)
  <2> SUFFICES ASSUME NEW fd \in Fd
               PROVE  e.sock[fd].waiting = net.sock[fd].waiting + One(net, t, u, fd) - One(net, t, user[t], fd)
    OBVIOUS
  <2>1. One(net, t, user[t], fd) \in Int /\ One(net, t, u, fd) \in Int /\ net.sock[fd].waiting \in Int
    BY <1>1 DEF One
  <2>2. CASE fd = f
    <3>1. e.sock[fd].waiting = net.sock[fd].waiting + d
      BY <1>3, <2>2 DEF OnlyWaiting, n
    <3>2. One(net, t, u, fd) - One(net, t, user[t], fd) = d
      BY <2>2
    <3> QED BY ONLY <2>1, <3>1, <3>2
  <2>3. CASE fd # f
    <3>1. One(net, t, u, fd) = One(net, t, user[t], fd)
      BY <2>3 DEF One
    <3>2. e.sock[fd].waiting = net.sock[fd].waiting
      BY <1>3, <2>3 DEF OnlyWaiting
    <3> QED BY ONLY <2>1, <3>1, <3>2
  <2> QED BY <2>2, <2>3
<1>6. /\ SameEvents(net, e) /\ e.list = net.list /\ e.want = net.want /\ e.sig = net.sig
      /\ e.moved = net.moved /\ e.ans = net.ans
  BY <1>3 DEF OnlyWaiting
<1>7. SockInv(e, [user EXCEPT ![t] = u])
  BY <1>5, <1>6, SelGoes, Zenon
<1> QED BY <1>4, <1>7

(* SelectCount: the counters go up, one by one.                            *)
LEMMA CountKeeps ==
  ASSUME SockInv(net, user), NEW t \in User, SelectCount(t)
  PROVE  SockInv(net', user')
<1> DEFINE W == WantsOf(net, t)
           v == user[t]
           f == Min(v.todo)
           rest == v.todo \ {f}
           no == FALSE
           a == [v EXCEPT !.todo = rest, !.ready = no]
           b == [v EXCEPT !.pc = "scan", !.todo = W, !.ready = no]
<1>1. /\ v.pc = "count" /\ user' = [user EXCEPT ![t] = IF rest # {} THEN a ELSE b]
      /\ net' = [net EXCEPT !.sock[f].waiting = @ + 1]
  BY DEF SelectCount, NextFd, Set, Interest, WantsOf
<1>2. v.pc \in SelPcs /\ v.pc # "add" /\ "scan" \in SelPcs
  BY <1>1 DEF SelPcs
<1>3. v \in UserRec /\ W # {} /\ W \in SUBSET Fd /\ Selecting(net, t, v) /\ net \in NetRec
  BY <1>2, SelFacts
<1>4. v.todo # {} /\ v.todo \subseteq W /\ v.todo \subseteq Fd
  BY <1>1, <1>3 DEF Selecting
<1>5. f \in v.todo /\ rest \in SUBSET Fd /\ rest \subseteq W /\ f \in Fd /\ f \in W
  BY <1>4, LeastFd
<1>6. net' = [net EXCEPT !.sock[f].waiting = net.sock[f].waiting + 1]
  BY <1>1, <1>3, <1>5 DEF NetRec
<1>7. no \in BOOLEAN /\ 1 \in Int
  OBVIOUS
<1>8. ~CountedFor(net, t, v, f)
  BY <1>1, <1>5 DEF CountedFor
<1> HIDE DEF f, no
<1>9. CASE rest # {}
  <2>1. SelTo(v, a, v.pc, rest, no)
    BY <1>2, <1>3, <1>5, <1>7, SelToFields, Zenon
  <2> HIDE DEF a
  <2>2. a.pc = "count" /\ a.todo = rest
    BY <1>1, <2>1 DEF SelTo
  <2>3. GoesOK(net, t, v.pc, rest, no)
    BY <1>1, <1>5, <1>9 DEF GoesOK
  <2>4. \A fd \in Fd : fd # f => (CountedFor(net, t, a, fd) <=> CountedFor(net, t, v, fd))
    BY <1>1, <2>2 DEF CountedFor
  <2>5. CountedFor(net, t, a, f)
    BY <1>5, <2>2 DEF CountedFor
  <2>6. One(net, t, a, f) - One(net, t, v, f) = 1
    BY <1>8, <2>5 DEF One
  <2>7. user' = [user EXCEPT ![t] = a]
    BY <1>1, <1>9
  <2> HIDE DEF W, rest
  <2> QED BY <1>2, <1>5, <1>6, <1>7, <2>1, <2>3, <2>4, <2>6, <2>7, SelCounts, Zenon
<1>10. CASE rest = {}
  <2>1. SelTo(v, b, "scan", W, no)
    BY <1>2, <1>3, <1>7, SelToFields, Zenon
  <2> HIDE DEF b
  <2>2. b.pc = "scan" /\ b.todo = W
    BY <2>1 DEF SelTo
  <2>3. GoesOK(net, t, "scan", W, no)
    BY <1>3 DEF GoesOK
  <2>4. \A fd \in Fd : fd # f => (CountedFor(net, t, b, fd) <=> CountedFor(net, t, v, fd))
    BY <1>1, <1>10, <2>2 DEF CountedFor
  <2>5. CountedFor(net, t, b, f)
    BY <1>5, <2>2 DEF CountedFor
  <2>6. One(net, t, b, f) - One(net, t, v, f) = 1
    BY <1>8, <2>5 DEF One
  <2>7. user' = [user EXCEPT ![t] = b]
    BY <1>1, <1>10, Zenon
  <2> HIDE DEF W
  <2> QED BY <1>2, <1>5, <1>6, <1>7, <2>1, <2>3, <2>4, <2>6, <2>7, SelCounts, Zenon
<1> QED BY <1>9, <1>10

(* SelectUncount: and down again.                                          *)
LEMMA UncountKeeps ==
  ASSUME SockInv(net, user), NEW t \in User, SelectUncount(t)
  PROVE  SockInv(net', user')
<1> DEFINE W == WantsOf(net, t)
           v == user[t]
           f == Min(v.todo)
           rest == v.todo \ {f}
           no == FALSE
           less == -1
           nil == {}
           a == [v EXCEPT !.todo = rest, !.ready = no]
           b == [v EXCEPT !.pc = "remove", !.todo = nil, !.ready = no]
<1>1. /\ v.pc = "uncount" /\ user' = [user EXCEPT ![t] = IF rest # {} THEN a ELSE b]
      /\ net' = [net EXCEPT !.sock[f].waiting = @ - 1]
  BY DEF SelectUncount, NextFd, Set
<1>2. v.pc \in SelPcs /\ v.pc # "add" /\ "remove" \in SelPcs
  BY <1>1 DEF SelPcs
<1>3. /\ v \in UserRec /\ W # {} /\ W \in SUBSET Fd /\ Selecting(net, t, v) /\ net \in NetRec
      /\ \A fd \in Fd : net.sock[fd].waiting \in Int
  BY <1>2, SelFacts
<1>4. v.todo # {} /\ v.todo \subseteq W /\ v.todo \subseteq Fd
  BY <1>1, <1>3 DEF Selecting
<1>5. f \in v.todo /\ rest \in SUBSET Fd /\ rest \subseteq W /\ f \in Fd /\ f \in W
  BY <1>4, LeastFd
<1>6. net' = [net EXCEPT !.sock[f].waiting = net.sock[f].waiting + less]
  <2>1. net.sock[f].waiting + less = net.sock[f].waiting - 1
    BY <1>3, <1>5
  <2> QED BY <1>1, <1>3, <1>5, <2>1, Zenon DEF NetRec
<1>7. no \in BOOLEAN /\ less \in Int /\ nil \in SUBSET Fd /\ 0 - 1 = less
  OBVIOUS
<1>8. CountedFor(net, t, v, f)
  BY <1>1, <1>5 DEF CountedFor
<1> HIDE DEF f, no, less
<1>9. CASE rest # {}
  <2>1. SelTo(v, a, v.pc, rest, no)
    BY <1>2, <1>3, <1>5, <1>7, SelToFields, Zenon
  <2> HIDE DEF a
  <2>2. a.pc = "uncount" /\ a.todo = rest
    BY <1>1, <2>1 DEF SelTo
  <2>3. GoesOK(net, t, v.pc, rest, no)
    BY <1>1, <1>5, <1>9 DEF GoesOK
  <2>4. \A fd \in Fd : fd # f => (CountedFor(net, t, a, fd) <=> CountedFor(net, t, v, fd))
    BY <1>1, <2>2 DEF CountedFor
  <2>5. ~CountedFor(net, t, a, f)
    BY <1>5, <2>2 DEF CountedFor
  <2>6. One(net, t, a, f) - One(net, t, v, f) = less
    BY <1>7, <1>8, <2>5 DEF One
  <2>7. user' = [user EXCEPT ![t] = a]
    BY <1>1, <1>9
  <2> HIDE DEF W, rest
  <2> QED BY <1>2, <1>5, <1>6, <1>7, <2>1, <2>3, <2>4, <2>6, <2>7, SelCounts, Zenon
<1>10. CASE rest = {}
  <2>1. SelTo(v, b, "remove", nil, no)
    BY <1>2, <1>3, <1>7, SelToFields, Zenon
  <2> HIDE DEF b
  <2>2. b.pc = "remove"
    BY <2>1 DEF SelTo
  <2>3. GoesOK(net, t, "remove", nil, no)
    BY DEF GoesOK
  <2>4. \A fd \in Fd : fd # f => (CountedFor(net, t, b, fd) <=> CountedFor(net, t, v, fd))
    BY <1>1, <1>10, <2>2 DEF CountedFor
  <2>5. ~CountedFor(net, t, b, f)
    BY <2>2 DEF CountedFor
  <2>6. One(net, t, b, f) - One(net, t, v, f) = less
    BY <1>7, <1>8, <2>5 DEF One
  <2>7. user' = [user EXCEPT ![t] = b]
    BY <1>1, <1>10, Zenon
  <2> HIDE DEF W, nil
  <2> QED BY <1>2, <1>5, <1>6, <1>7, <2>1, <2>3, <2>4, <2>6, <2>7, SelCounts, Zenon
<1> QED BY <1>9, <1>10

(* From s to e nothing changes but the list, the tasks that must begin it  *)
(* anew, the sets and the signals.                                         *)
OnlySel(s, e, l, m, sets, g) ==
  /\ e \in NetRec /\ e.conn = s.conn /\ e.sock = s.sock
  /\ e.list = l /\ e.moved = m /\ e.want = sets /\ e.sig = g

(* A counter to which task t adds nothing, before or after, stays.         *)
LEMMA NotCounted ==
  ASSUME NEW s \in NetRec, NEW e, e.sock = s.sock, NEW t, NEW v, NEW u,
         v.pc \in {"idle", "add", "remove"},
         u.pc \in {"idle", "add"} \/ (u.pc = "count" /\ WantsOf(e, t) \subseteq u.todo)
  PROVE  Recounted(s, e, t, v, u)
<1> SUFFICES ASSUME NEW fd \in Fd
             PROVE  e.sock[fd].waiting = s.sock[fd].waiting + One(e, t, u, fd) - One(s, t, v, fd)
  BY DEF Recounted
<1>1. One(e, t, u, fd) = 0
  BY DEF One, CountedFor
<1>2. One(s, t, v, fd) = 0
  BY DEF One, CountedFor
<1>3. e.sock[fd].waiting = s.sock[fd].waiting /\ s.sock[fd].waiting \in Int
  BY DEF NetRec, SockRec
<1> QED BY ONLY <1>1, <1>2, <1>3

(* lwip_select: the first look has found nothing.                          *)
LEMMA SelectBegins ==
  ASSUME SockInv(net, user), NEW t \in User, lwip_select(t)
  PROVE  SockInv(net', user')
<1>1. PICK sets \in FdSets :
        /\ user[t].pc = "idle"
        /\ \A fd \in sets[1] \cup sets[2] :
             /\ ConnOf(fd) # NoFd /\ net.conn[ConnOf(fd)].socket = fd
             /\ \A v \in User : ~(user[v].op = "close" /\ user[v].fd = fd)
        /\ net' = [net EXCEPT !.want[t] = sets]
        /\ user' = [user EXCEPT ![t] = [IdleUser EXCEPT !.pc = "add", !.op = "select"]]
  BY Zenon DEF lwip_select, Set
<1> DEFINE e == [net EXCEPT !.want[t] = sets]
           wt == [net.want EXCEPT ![t] = sets]
           u == [IdleUser EXCEPT !.pc = "add", !.op = "select"]
           x == [user EXCEPT ![t] = u]
<1>2. net \in NetRec /\ user \in [User -> UserRec] /\ user[t] \in UserRec /\ Shape(user[t])
  BY DEF SockInv, Types, Shapes
<1>3. InSelect(user[t])
  <2>1. user[t] = IdleUser
    BY <1>1, <1>2 DEF Shape
  <2> QED BY <1>2, <2>1, IdleFacts DEF InSelect
<1>4. u \in UserRec /\ u.pc = "add" /\ u.op = "select" /\ u.fd = NoFd /\ u.new = NoFd
  BY Zenon DEF IdleUser, UserRec
<1> HIDE DEF u
<1>5. InSelect(u)
  BY <1>4 DEF InSelect, Shape, OnFd, Engaged
<1>6. OnlySel(net, e, net.list, net.moved, wt, net.sig) /\ e.ans = net.ans
  <2>1. sets \in Wants
    BY DEF Wants
  <2>2. wt \in [User -> Wants]
    BY <1>2, <2>1 DEF NetRec
  <2> QED BY <1>2, <2>2, Zenon DEF OnlySel, NetRec
<1>7. e.want[t] = sets /\ \A v \in User : v # t => e.want[v] = net.want[v]
  BY <1>2, <1>6 DEF OnlySel, NetRec
<1>8. net' = e /\ user' = x
  BY <1>1 DEF u
<1> HIDE DEF e
<1>9. e \in NetRec /\ e.conn = net.conn /\ e.sock = net.sock /\ e.list = net.list /\ e.moved = net.moved
      /\ e.sig = net.sig
  BY <1>6 DEF OnlySel
<1>10. x[t] = u /\ (\A z \in User : z # t => x[z] = user[z]) /\ x = [user EXCEPT ![t] = u]
  BY <1>2
<1> HIDE DEF x
<1>11. SameEvents(net, e) /\ OthersAns(net, e, t)
  BY <1>6, <1>9 DEF SameEvents, OthersAns
<1>12. OthersSel(net, e, user, t)
  <2>1. \A v \in User : Selecting(net, v, user[v])
    BY DEF SockInv, Selects
  <2>2. Listed(e) = Listed(net)
    BY <1>9 DEF Listed
  <2> QED BY <1>7, <1>9, <2>1, <2>2 DEF OthersSel, Selecting
<1>13. Wanted(e, x, t)
  <2>1. WantsOf(e, t) = sets[1] \cup sets[2]
    BY <1>7 DEF WantsOf
  <2>2. \A v \in User : x[v].op = "close" => user[v].op = "close" /\ x[v].fd = user[v].fd
    BY <1>4, <1>10
  <2>3. \A fd \in WantsOf(e, t) :
          /\ e.sock[fd].conn # NoFd /\ e.conn[e.sock[fd].conn].socket = fd
          /\ \A v \in User : x[v].op = "close" => x[v].fd # fd
    BY <1>1, <1>9, <2>1, <2>2 DEF ConnOf
  <2> QED BY <1>4, <1>7, <1>10, <2>3 DEF Wanted
<1>14. Selecting(e, t, u)
  BY <1>4 DEF Selecting
<1>15. Recounted(net, e, t, user[t], u)
  BY <1>1, <1>2, <1>4, <1>9, NotCounted
<1>16. SockInv(e, x)
  BY <1>3, <1>5, <1>10, <1>11, <1>12, <1>13, <1>14, <1>15, SelectStep, Zenon
<1> QED BY <1>8, <1>16

(* A list of tasks with one in front holds it, and all it held.            *)
LEMMA FrontListed ==
  ASSUME NEW l \in Seq(User), NEW t \in User, NEW q, q = <<t>> \o l
  PROVE  /\ q \in Seq(User)
         /\ {l[i] : i \in 1 .. Len(l)} \cup {t} \subseteq {q[i] : i \in 1 .. Len(q)}
<1>1. <<t>> \in Seq(User) /\ Len(<<t>>) = 1 /\ <<t>>[1] = t
  OBVIOUS
<1>2. q \in Seq(User) /\ Len(q) = 1 + Len(l) /\ Len(l) \in Nat
  BY <1>1, ConcatProperties
<1>3. q[1] = t
  BY <1>1, <1>2, ConcatProperties
<1>4. ASSUME NEW i \in 1 .. Len(l) PROVE q[i + 1] = l[i] /\ i + 1 \in 1 .. Len(q)
  BY <1>1, <1>2, ConcatProperties
<1>5. 1 \in 1 .. Len(q)
  BY <1>2
<1> QED BY <1>2, <1>3, <1>4, <1>5

(* SelectAdd: the task's entry is put in front of the list.                *)
LEMMA AddKeeps ==
  ASSUME SockInv(net, user), NEW t \in User, SelectAdd(t)
  PROVE  SockInv(net', user')
<1> DEFINE W == WantsOf(net, t)
           M == {v \in User : user[v].pc = "look"}
           q == <<t>> \o net.list
           e == ListMoved([net EXCEPT !.list = <<t>> \o @])
           u == [user[t] EXCEPT !.pc = "count", !.todo = W]
           x == [user EXCEPT ![t] = u]
<1>1. user[t].pc = "add" /\ net' = e /\ user' = x
  BY DEF SelectAdd, Set, Interest, WantsOf
<1>2. user[t].pc \in SelPcs /\ "count" \in SelPcs
  BY <1>1 DEF SelPcs
<1>3. /\ net \in NetRec /\ user \in [User -> UserRec] /\ user[t] \in UserRec /\ InSelect(user[t])
      /\ user[t].op = "select" /\ W # {} /\ W \in SUBSET Fd /\ user[t].ready \in BOOLEAN
  <2>1. /\ net \in NetRec /\ user \in [User -> UserRec] /\ user[t] \in UserRec /\ InSelect(user[t])
        /\ user[t].op = "select" /\ W # {} /\ W \in SUBSET Fd
    BY <1>2, SelFacts
  <2> QED BY <2>1 DEF UserRec
<1>4. SelTo(user[t], u, "count", W, user[t].ready)
  BY <1>2, <1>3, SelToFields, Zenon
<1> HIDE DEF u
<1>5. InSelect(u)
  BY <1>2, <1>3, <1>4, SelToShape
<1>6. u.pc = "count" /\ u.todo = W /\ u.op = "select"
  BY <1>3, <1>4 DEF SelTo
<1>7. q \in Seq(User) /\ Listed(net) \cup {t} \subseteq {q[i] : i \in 1 .. Len(q)}
  <2>1. net.list \in Seq(User)
    BY <1>3 DEF NetRec
  <2>2. q = <<t>> \o net.list
    OBVIOUS
  <2> HIDE DEF q
  <2>3. /\ q \in Seq(User)
        /\ {net.list[i] : i \in 1 .. Len(net.list)} \cup {t} \subseteq {q[i] : i \in 1 .. Len(q)}
    BY <2>1, <2>2, FrontListed
  <2> QED BY <2>3, Zenon DEF Listed
<1>8. OnlySel(net, e, q, M, net.want, net.sig) /\ e.ans = net.ans
  <2> HIDE DEF q
  <2>1. e = [[net EXCEPT !.list = q] EXCEPT !.moved = M]
    BY DEF ListMoved, q
  <2>2. M \in SUBSET User
    OBVIOUS
  <2> HIDE DEF M, e
  <2> QED BY <1>3, <1>7, <2>1, <2>2, Zenon DEF OnlySel, NetRec
<1> HIDE DEF e
<1>9. e \in NetRec /\ e.conn = net.conn /\ e.sock = net.sock /\ e.list = q /\ e.moved = M
      /\ e.sig = net.sig /\ e.want = net.want
  BY <1>8 DEF OnlySel
<1>10. Listed(net) \cup {t} \subseteq Listed(e)
  BY <1>7, <1>9 DEF Listed
<1> HIDE DEF q
<1>11. x = [user EXCEPT ![t] = u]
  OBVIOUS
<1> HIDE DEF x
<1>12. SameEvents(net, e) /\ OthersAns(net, e, t)
  BY <1>8, <1>9 DEF SameEvents, OthersAns
<1>13. OthersSel(net, e, user, t)
  BY <1>9, <1>10 DEF OthersSel
<1> HIDE DEF M
<1>14. Wanted(e, x, t) /\ WantsOf(e, t) = WantsOf(net, t)
  <2>1. SameEvents(net, e) /\ e.want = net.want /\ u.op = "select" /\ user[t].op = "select"
    BY <1>3, <1>6, <1>9, <1>12
  <2>2. SockInv(net, user) /\ t \in User
    OBVIOUS
  <2> HIDE DEF W
  <2>3. Wanted(e, x, t)
    <3>1. StillSelects(net, e, user, x, t, u)
      BY ONLY <1>11, <2>1, <2>2, Zenon DEF StillSelects
    <3> QED BY ONLY <2>2, <3>1, SameWanted
  <2>4. WantsOf(e, t) = WantsOf(net, t)
    BY <2>1 DEF WantsOf
  <2> QED BY <2>3, <2>4
<1>15. Selecting(e, t, u)
  BY <1>3, <1>6, <1>10, <1>14 DEF Selecting
<1>16. Recounted(net, e, t, user[t], u)
  BY <1>1, <1>3, <1>6, <1>9, <1>14, NotCounted
<1>17. SockInv(e, x)
  BY <1>3, <1>5, <1>11, <1>12, <1>13, <1>14, <1>15, <1>16, SelectStep, Zenon
<1> QED BY <1>1, <1>17

(* A list without entry i holds all that its other entries held.           *)
LEMMA RestListed ==
  ASSUME NEW l \in Seq(User), NEW i \in 1 .. Len(l), NEW q, q = Unlinked(l, i)
  PROVE  /\ q \in Seq(User)
         /\ \A j \in 1 .. Len(l) : j # i => \E k \in 1 .. Len(q) : q[k] = l[j]
<1> DEFINE n == Len(l)
           a == SubSeq(l, 1, i - 1)
           b == SubSeq(l, i + 1, n)
<1>1. n \in Nat /\ i \in Nat /\ 1 <= i /\ i <= n
  OBVIOUS
<1>2. a \in Seq(User) /\ Len(a) = i - 1 /\ \A k \in 1 .. i - 1 : a[k] = l[k]
  BY <1>1
<1>3. b \in Seq(User) /\ Len(b) = n - i /\ \A k \in 1 .. n - i : b[k] = l[i + k]
  BY <1>1
<1>4. q = a \o b
  BY DEF Unlinked
<1> HIDE DEF a, b
<1>5. q \in Seq(User) /\ Len(q) = n - 1
  BY <1>1, <1>2, <1>3, <1>4, ConcatProperties
<1>6. ASSUME NEW k \in 1 .. i - 1 PROVE q[k] = l[k] /\ k \in 1 .. Len(q)
  BY <1>1, <1>2, <1>3, <1>4, <1>5, ConcatProperties
<1>7. ASSUME NEW j \in 1 .. n, j > i PROVE q[j - 1] = l[j] /\ j - 1 \in 1 .. Len(q)
  <2>1. j - 1 \in 1 .. Len(q) /\ j - 1 > Len(a) /\ j - 1 - Len(a) = j - i /\ j - i \in 1 .. n - i
        /\ i + (j - i) = j
    BY <1>1, <1>2, <1>5, <1>7
  <2>2. q[j - 1] = b[j - 1 - Len(a)]
    BY <1>2, <1>3, <1>4, <1>5, <2>1, ConcatProperties
  <2>3. b[j - i] = l[i + (j - i)]
    BY <1>3, <2>1, Zenon
  <2> QED BY <2>1, <2>2, <2>3
<1>8. ASSUME NEW j \in 1 .. Len(l), j # i PROVE \E k \in 1 .. Len(q) : q[k] = l[j]
  <2>1. CASE j < i
    <3>1. j \in 1 .. i - 1
      BY <1>1, <2>1
    <3> QED BY <1>6, <3>1
  <2>2. CASE j > i
    BY <1>7, <2>2
  <2> QED BY <1>1, <1>8, <2>1, <2>2
<1> QED BY <1>5, <1>8

(* SelectRemove: the end of select().                                      *)
LEMMA RemoveKeeps ==
  ASSUME SockInv(net, user), NEW t \in User, SelectRemove(t)
  PROVE  SockInv(net', user')
<1>1. PICK i \in 1 .. Len(net.list) :
        /\ net.list[i] = t
        /\ net' = PutAns(ListMoved([net EXCEPT !.list = Unlinked(@, i),
                                               !.sig = @ \ {t}, !.want[t] = <<{}, {}>>]), t, "ok")
        /\ user' = [user EXCEPT ![t] = IdleUser]
  BY Zenon DEF SelectRemove, Return, Set, PutAns
<1> DEFINE M == {v \in User : user[v].pc = "look"}
           q == Unlinked(net.list, i)
           g == net.sig \ {t}
           none == <<{}, {}>>
           sets == [net.want EXCEPT ![t] = none]
           b == ListMoved([net EXCEPT !.list = Unlinked(@, i), !.sig = @ \ {t}, !.want[t] = <<{}, {}>>])
           e == PutAns(b, t, "ok")
           u == IdleUser
           x == [user EXCEPT ![t] = u]
<1>2. user[t].pc = "remove" /\ user[t].pc \in SelPcs
  BY DEF SelectRemove, SelPcs
<1>3. /\ net \in NetRec /\ user \in [User -> UserRec] /\ user[t] \in UserRec /\ InSelect(user[t])
      /\ net.list \in Seq(User)
  <2>1. net \in NetRec /\ user \in [User -> UserRec] /\ user[t] \in UserRec /\ InSelect(user[t])
    BY <1>2, SelFacts
  <2> QED BY <2>1 DEF NetRec
<1>4. /\ u \in UserRec /\ u.pc = "idle" /\ u.op = "none" /\ InSelect(u)
  BY IdleFacts DEF InSelect
<1> HIDE DEF u
<1>5. q \in Seq(User) /\ \A j \in 1 .. Len(net.list) : j # i => \E k \in 1 .. Len(q) : q[k] = net.list[j]
  <2>1. q = Unlinked(net.list, i)
    OBVIOUS
  <2>2. net.list \in Seq(User) /\ i \in 1 .. Len(net.list)
    BY <1>3
  <2> HIDE DEF q
  <2> QED BY ONLY <2>1, <2>2, RestListed
<1>6. OnlySel(net, b, q, M, sets, g) /\ b.ans = net.ans
  <2>1. b = [[net EXCEPT !.list = q, !.sig = g, !.want[t] = none] EXCEPT !.moved = M]
    BY DEF ListMoved
  <2>2. M \in SUBSET User /\ g \in SUBSET User
    BY <1>3 DEF NetRec
  <2>3. sets \in [User -> Wants]
    <3>1. none \in Wants
      BY DEF Wants
    <3> QED BY <1>3, <3>1 DEF NetRec
  <2> HIDE DEF M, q, g, none, b
  <2>4. /\ b.conn = net.conn /\ b.sock = net.sock /\ b.list = q /\ b.moved = M /\ b.want = sets
        /\ b.sig = g /\ b.ans = net.ans
    BY <1>3, <2>1 DEF NetRec
  <2>5. b \in NetRec
    <3> HIDE DEF sets
    <3>1. b = [[net EXCEPT !.list = q, !.sig = g, !.want = sets] EXCEPT !.moved = M]
      BY <1>3, <2>1 DEF NetRec, sets
    <3> QED BY <1>3, <1>5, <2>2, <2>3, <3>1, Zenon DEF NetRec
  <2> QED BY <2>4, <2>5 DEF OnlySel
<1> HIDE DEF b
<1>7. OnlyAns(b, e, [b.ans EXCEPT ![t] = "ok"])
  BY <1>6, PutAnsFields, Zenon DEF OnlySel
<1>8. net' = e /\ user' = x
  BY <1>1 DEF b, u
<1> HIDE DEF e
<1>9. e \in NetRec /\ e.conn = net.conn /\ e.sock = net.sock /\ e.list = q /\ e.moved = M
      /\ e.sig = g /\ e.want = sets
  BY <1>6, <1>7 DEF OnlySel, OnlyAns
<1>10. e.want[t] = none /\ \A v \in User : v # t => e.want[v] = net.want[v]
  BY <1>3, <1>9 DEF NetRec
<1>11. x[t] = u /\ x = [user EXCEPT ![t] = u]
  BY <1>3
<1> HIDE DEF x
<1>12. SameEvents(net, e)
  BY <1>9 DEF SameEvents
<1>13. OthersAns(net, e, t)
  BY <1>3, <1>6, <1>7 DEF OthersAns, OnlyAns, NetRec
<1>14. \A v \in User : v # t /\ v \in Listed(net) => v \in Listed(e)
  <2> SUFFICES ASSUME NEW v \in User, v # t, v \in Listed(net) PROVE v \in Listed(e)
    OBVIOUS
  <2>1. PICK j \in 1 .. Len(net.list) : net.list[j] = v
    BY DEF Listed
  <2>2. j # i
    BY <1>1, <2>1
  <2>3. PICK k \in 1 .. Len(q) : q[k] = net.list[j]
    BY <1>5, <2>2
  <2> HIDE DEF q
  <2> QED BY <1>9, <2>1, <2>3 DEF Listed
<1> HIDE DEF q
<1>15. OthersSel(net, e, user, t)
  <2>1. \A v \in User : v # t => (v \in e.sig <=> v \in net.sig)
    BY <1>9
  <2> QED BY <1>9, <1>10, <1>14, <2>1 DEF OthersSel
<1>16. WantsOf(e, t) = {}
  BY <1>10 DEF WantsOf
<1>17. Wanted(e, x, t)
  BY <1>4, <1>10, <1>11, <1>16 DEF Wanted
<1>18. Selecting(e, t, u)
  BY <1>4 DEF Selecting
<1>19. Recounted(net, e, t, user[t], u)
  BY <1>2, <1>3, <1>4, <1>9, NotCounted
<1> HIDE DEF M, g, sets, none
<1>20. SockInv(e, x)
  BY <1>3, <1>4, <1>11, <1>12, <1>13, <1>15, <1>17, <1>18, <1>19, SelectStep, Zenon
<1> QED BY <1>8, <1>20
-----------------------------------------------------------------------------
(* The whole.                                                              *)

(* At the start all netconns and descriptors are free and all tasks idle.  *)
LEMMA SockInvInit == SocketInit => SockInv(net, user)
<1> SUFFICES ASSUME SocketInit PROVE SockInv(net, user)
  OBVIOUS
<1>1. /\ net.conn = [c \in Conn |-> FreeConn] /\ net.sock = [f \in Fd |-> FreeSock] /\ net.list = <<>>
      /\ net.moved = {} /\ net.want = [t \in User |-> <<{}, {}>>] /\ net.sig = {}
      /\ net.ans = [t \in User |-> "ok"] /\ user = [t \in User |-> IdleUser]
  BY DEF SocketInit
<1>2. /\ FreeConn \in ConnRec /\ ConnSane(FreeConn) /\ Bounds(FreeConn) /\ FreeConn.used = FALSE
      /\ FreeConn.socket = -1 /\ FreeConn.acceptmbox = <<>> /\ FreeConn.msg = NoUser
      /\ FreeConn.done = 0
  BY FreeFields
<1>3. FreeConn.state = "NONE"
  BY DEF FreeConn, netconn_alloc
<1>4. FreeSock \in SockRec /\ FreeSock.conn = NoFd /\ FreeSock.waiting = 0
  BY DEF FreeSock, SockRec
<1>5. /\ IdleUser \in UserRec /\ Shape(IdleUser) /\ Brought(IdleUser) = NoFd /\ ~Engaged(IdleUser)
      /\ ~Fetched(IdleUser) /\ IdleUser.fd = NoFd /\ IdleUser.new = NoFd /\ IdleUser.pc = "idle"
      /\ IdleUser.op = "none"
  BY IdleFacts
<1>6. net \in NetRec
  <2>1. net.want \in [User -> Wants]
    BY <1>1 DEF Wants
  <2>2. net = [conn |-> net.conn, sock |-> net.sock, list |-> net.list, moved |-> net.moved,
               want |-> net.want, sig |-> net.sig, ans |-> net.ans]
    BY DEF SocketInit
  <2>3. net.conn \in [Conn -> ConnRec] /\ net.sock \in [Fd -> SockRec] /\ net.list \in Seq(User)
    BY <1>1, <1>2, <1>4
  <2>4. net.moved \in SUBSET User /\ net.sig \in SUBSET User
        /\ net.ans \in [User -> {"unset", "ok", "err", "fatal"}]
    BY <1>1
  <2> QED BY <2>1, <2>2, <2>3, <2>4 DEF NetRec
<1>7. \A c \in Conn : net.conn[c] = FreeConn
  BY <1>1
<1>8. \A f \in Fd : net.sock[f] = FreeSock
  BY <1>1
<1>9. \A t \in User : user[t] = IdleUser /\ net.want[t] = <<{}, {}>>
  BY <1>1
<1>10. \A t \in User : TaskOK(net, t, IdleUser) /\ Holds(net, IdleUser) /\ Brings(net, IdleUser)
  BY IdleOK
<1>11. Types(net, user)
  BY <1>1, <1>2, <1>5, <1>6, <1>7 DEF Types
<1>12. Conns(net)
  BY <1>2, <1>7 DEF Conns
<1>13. Shapes(user) /\ AllApart(user)
  BY <1>5, <1>9 DEF Shapes, AllApart, Apart
<1>14. Links(net, user)
  <2>1. SockConn(net)
    BY <1>2, <1>7 DEF SockConn
  <2>2. Boxes(net, user)
    BY <1>2, <1>7 DEF Boxes
  <2>3. OwnersExist(net, user)
    BY <1>2, <1>7 DEF OwnersExist
  <2>4. SocksTaken(net, user)
    BY <1>4, <1>8 DEF SocksTaken
  <2> QED BY <1>9, <1>10, <2>1, <2>2, <2>3, <2>4 DEF Links
<1>15. Talks(net, user)
  <2>1. \A c \in Conn : HeardOf(net, user, c)
    BY <1>2, <1>3, <1>7 DEF HeardOf
  <2> QED BY <1>9, <1>10, <2>1 DEF Talks, TaskOK
<1>16. Stages(net, user)
  BY <1>9, <1>10 DEF Stages, TaskOK
<1>17. Counts(net, user)
  <2>1. \A c \in Conn : CountOf(net, user, c) /\ Writable(net, c)
    <3> SUFFICES ASSUME NEW c \in Conn PROVE CountOf(net, user, c) /\ Writable(net, c)
      OBVIOUS
    <3>1. ~net.conn[c].used /\ ~(net.conn[c].socket >= 0)
      BY <1>2, <1>7
    <3> QED BY <3>1, Zenon DEF CountOf, Writable
  <2> QED BY <1>9, <1>10, <2>1 DEF Counts, TaskOK
<1>18. Selects(net, user)
  <2>1. \A t \in User : WantsOf(net, t) = {}
    BY <1>9 DEF WantsOf
  <2>2. \A t \in User : Wanted(net, user, t)
    BY <1>5, <1>9, <2>1 DEF Wanted
  <2>3. \A t \in User : Selecting(net, t, user[t])
    BY <1>5, <1>9 DEF Selecting
  <2>4. \A fd \in Fd : Waiters(net, user, fd) = {}
    BY <2>1 DEF Waiters, CountedFor
  <2> QED BY <1>4, <1>8, <2>2, <2>3, <2>4, FS_EmptySet DEF Selects
<1> QED BY <1>11, <1>12, <1>13, <1>14, <1>15, <1>16, <1>17, <1>18 DEF SockInv

(* Every step keeps the invariant, when no descriptor is used by two tasks *)
(* at a time.                                                              *)
LEMMA SockInvStep ==
  ASSUME Shared = FALSE
  PROVE  SockInv(net, user) /\ [SocketNext]_socketVars => SockInv(net, user)'
<1> SUFFICES ASSUME SockInv(net, user), [SocketNext]_socketVars PROVE SockInv(net', user')
  OBVIOUS
<1>1. CASE UNCHANGED socketVars
  BY <1>1 DEF socketVars
<1>2. ASSUME NEW c \in Conn, StackSide(c) PROVE SockInv(net', user')
  BY <1>2, StackKeeps, AcceptFunctionKeeps DEF StackSide
<1>3. ASSUME NEW t \in User, CallSide(t) PROVE SockInv(net', user')
  <2>1. CASE lwip_socket(t) \/ lwip_bind(t) \/ lwip_connect(t) \/ lwip_listen(t) \/ lwip_send(t)
    BY <2>1, SocketKeeps, BindKeeps, ConnectKeeps, ListenKeeps, SendKeeps, Zenon
  <2>2. CASE lwip_close(t) \/ lwip_accept(t) \/ lwip_recvfrom(t) \/ FetchNewconn(t) \/ FetchData(t)
    BY <2>2, CloseKeeps, AcceptKeeps, RecvKeeps, FetchNewconnKeeps, FetchDataKeeps, Zenon
  <2>3. CASE RcvMinus(t) \/ LookOn(t) \/ Copy(t) \/ SemTaken(t) \/ SocketMade(t) \/ Accepted(t)
    BY <2>3, RcvMinusKeeps, LookOnKeeps, CopyKeeps, SemTakenKeeps, SocketMadeKeeps, AcceptedKeeps
  <2>4. CASE Settle(t) \/ CallReturns(t) \/ NullRead(t) \/ ConnDeleted(t) \/ free_socket(t)
    BY <2>4, SettleKeeps, ReturnsKeeps, NullReadKeeps, ConnDeletedKeeps, FreeSocketKeeps
  <2> QED BY <1>3, <2>1, <2>2, <2>3, <2>4 DEF CallSide
<1>4. ASSUME NEW t \in User, SelectSide(t) PROVE SockInv(net', user')
  BY <1>4, SelectBegins, AddKeeps, CountKeeps, ScanKeeps, WokenKeeps, UncountKeeps, RemoveKeeps
     DEF SelectSide
<1> QED BY <1>1, <1>2, <1>3, <1>4 DEF SocketNext

(* The invariant holds in every state.                                     *)
THEOREM SockInvHolds ==
  ASSUME Shared = FALSE
  PROVE  SocketSpec => []SockInv(net, user)
BY SockInvInit, SockInvStep, PTL DEF SocketSpec
-----------------------------------------------------------------------------
(* What the invariant says of the system.                                  *)

(* The tasks that bring a netconn are those whose call has it.             *)
LEMMA BroughtBy ==
  ASSUME SockInv(net, user), NEW c \in Conn, NEW t \in User
  PROVE  /\ Brought(user[t]) = c <=>
              user[t].op \in {"socket", "accept"} /\ user[t].conn = c /\ ~(user[t].pc = "idle")
         /\ Brought(user[t]) = c => net.conn[c].used /\ net.conn[c].socket < 0
<1>1. Shape(user[t]) /\ Brings(net, user[t]) /\ c # NoFd
  BY NoFdIsNone DEF SockInv, Shapes, Links
<1>2. user[t].pc = "idle" => user[t].op = "none"
  BY <1>1, IdleFacts DEF Shape
<1> QED BY <1>1, <1>2 DEF Brought, Brings

(* The owners of a netconn, of each kind.                                  *)
BySock(c) == {f \in Fd : net.sock[f].conn = c /\ net.conn[c].socket = f}
ByMbox(c) == {d \in Conn : \E i \in 1 .. Len(net.conn[d].acceptmbox) : net.conn[d].acceptmbox[i] = c}
ByTask(c) == {t \in User : Brought(user[t]) = c}

(* A netconn in a queue is in use, has no descriptor, and is in no other.  *)
LEMMA InMbox ==
  ASSUME SockInv(net, user), NEW c \in Conn, NEW d \in ByMbox(c)
  PROVE  /\ net.conn[c].used /\ net.conn[c].socket < 0 /\ InBox(net, c) /\ d \in Conn
         /\ \A e \in ByMbox(c) : e = d
         /\ \A t \in User : Brought(user[t]) # c
<1>1. d \in Conn /\ \E i \in 1 .. Len(net.conn[d].acceptmbox) : net.conn[d].acceptmbox[i] = c
  BY DEF ByMbox
<1>2. PICK i \in 1 .. Len(net.conn[d].acceptmbox) : net.conn[d].acceptmbox[i] = c
  BY <1>1
<1>3. Boxed(net, user, d, i)
  BY <1>1 DEF SockInv, Links, Boxes
<1>4. net.conn[c].used /\ net.conn[c].socket < 0 /\ \A t \in User : Brought(user[t]) # c
  BY <1>2, <1>3 DEF Boxed
<1>5. \A e \in Conn : \A j \in 1 .. Len(net.conn[e].acceptmbox) : net.conn[e].acceptmbox[j] = c => e = d
  BY <1>2, <1>3 DEF Boxed
<1>6. \A e \in ByMbox(c) : e = d
  BY <1>5 DEF ByMbox
<1> QED BY <1>1, <1>4, <1>6 DEF InBox

(* The netconn of a descriptor is in use.                                  *)
LEMMA HasSock ==
  ASSUME SockInv(net, user), NEW c \in Conn, NEW f \in BySock(c)
  PROVE  /\ f \in Fd /\ net.conn[c].used /\ net.conn[c].socket = f /\ ~(net.conn[c].socket < 0)
<1>1. f \in Fd /\ net.conn[c].socket = f
  BY DEF BySock
<1> QED BY <1>1, FdUsed, FdFacts

(* A netconn has one owner.                                                *)
LEMMA OneOwner ==
  ASSUME SockInv(net, user), NEW c \in Conn, net.conn[c].used
  PROVE  Cardinality(Owners(c)) = 1
<1> DEFINE A == {<<"sock", f>> : f \in BySock(c)}
           B == {<<"mbox", d>> : d \in ByMbox(c)}
           C == {<<"task", t>> : t \in ByTask(c)}
<1>1. Owners(c) = A \cup B \cup C
  <2>1. ByTask(c) = {t \in User : user[t].op \in {"socket", "accept"} /\ user[t].conn = c
                                  /\ ~(user[t].pc = "idle")}
    BY BroughtBy DEF ByTask
  <2> QED BY <2>1 DEF Owners, BySock, ByMbox
<1>2. \E o : Owners(c) = {o}
  <2>0. HasOwner(net, user, c) /\ net.conn[c].socket \in Int /\ net \in NetRec
    BY Entries DEF SockInv, Types, Links, OwnersExist
  <2>1. CASE net.conn[c].socket >= 0
    <3> DEFINE f == net.conn[c].socket
    <3>1. f \in Fd /\ net.sock[f].conn = c
      <4>1. f < NumConn
        BY DEF SockInv, Types, Bounds
      <4>2. f \in Fd
        BY <2>0, <2>1, <4>1, SocketAssumption DEF Fd
      <4> QED BY <2>1, <4>2 DEF SockInv, Links, SockConn
    <3>2. BySock(c) = {f}
      BY <3>1 DEF BySock
    <3>3. ~(f < 0)
      BY <2>0, <2>1
    <3>4. ByMbox(c) = {}
      BY <3>3, InMbox
    <3>5. ByTask(c) = {}
      BY <3>3, BroughtBy DEF ByTask
    <3> HIDE DEF f
    <3>6. A = {<<"sock", f>>} /\ B = {} /\ C = {}
      BY <3>2, <3>4, <3>5
    <3> QED BY <1>1, <3>6, Zenon
  <2>2. CASE net.conn[c].socket < 0
    <3>1. BySock(c) = {}
      BY <2>2, HasSock
    <3>2. CASE InBox(net, c)
      <4>1. PICK d \in ByMbox(c) : TRUE
        BY <3>2 DEF InBox, ByMbox
      <4>2. ByMbox(c) = {d} /\ ByTask(c) = {}
        BY <4>1, InMbox DEF ByTask
      <4>3. A = {} /\ B = {<<"mbox", d>>} /\ C = {}
        BY <3>1, <4>2
      <4> QED BY <1>1, <4>3, Zenon
    <3>3. CASE ~InBox(net, c)
      <4>1. PICK t \in User : Brought(user[t]) = c
        BY <2>0, <2>2, <3>3 DEF HasOwner
      <4>2. ByMbox(c) = {}
        BY <3>3, InMbox
      <4>3. ByTask(c) = {t}
        <5>1. c # NoFd /\ AllApart(user)
          BY NoFdIsNone DEF SockInv
        <5> QED BY <4>1, <5>1 DEF ByTask, AllApart, Apart
      <4>4. A = {} /\ B = {} /\ C = {<<"task", t>>}
        BY <3>1, <4>2, <4>3
      <4> QED BY <1>1, <4>4, Zenon
    <3> QED BY <3>2, <3>3, Zenon
  <2>3. net.conn[c].socket >= 0 \/ net.conn[c].socket < 0
    BY ONLY <2>0
  <2> QED BY <2>1, <2>2, <2>3, Zenon
<1> QED BY <1>2, FS_Singleton, Zenon

(* Every netconn in use has one owner, a descriptor, a queue or a call,    *)
(* and a free one has none, no pcb and no mailbox; every descriptor in use *)
(* has its netconn or a call that gives it one or frees it (alloc_socket,  *)
(* accept_function, lwip_accept, netconn_free, free_socket): for any       *)
(* number of tasks, netconns and descriptors, any mailboxes and any        *)
(* programs of the tasks that share no descriptor.                         *)
THEOREM ConnsOwnedCorrect ==
  ASSUME Shared = FALSE
  PROVE  SocketSpec => []ConnsOwned
<1>1. ASSUME SockInv(net, user) PROVE ConnsOwned
  <2>1. ASSUME NEW c \in Conn, net.conn[c].used PROVE Cardinality(Owners(c)) = 1
    BY <1>1, <2>1, OneOwner
  <2>2. ASSUME NEW c \in Conn, ~net.conn[c].used
        PROVE  /\ Owners(c) = {} /\ net.conn[c].pcb = "none" /\ ~net.conn[c].recvOk
               /\ ~net.conn[c].acceptOk
    <3>1. net.conn[c] = FreeConn
      BY <1>1, <2>2 DEF SockInv, Conns, ConnSane
    <3>2. FreeConn.pcb = "none" /\ ~FreeConn.recvOk /\ ~FreeConn.acceptOk
      BY DEF FreeConn, netconn_alloc
    <3>3. BySock(c) = {} /\ ByMbox(c) = {}
      BY <1>1, <2>2, HasSock, InMbox
    <3>4. \A t \in User : ~(user[t].op \in {"socket", "accept"} /\ user[t].conn = c /\ ~(user[t].pc = "idle"))
      BY <1>1, <2>2, BroughtBy
    <3>5. Owners(c) = {}
      BY <3>3, <3>4 DEF Owners, BySock, ByMbox
    <3> QED BY <3>1, <3>2, <3>5
  <2>3. ASSUME NEW fd \in Fd, net.sock[fd].conn # NoFd
        PROVE  \/ net.conn[net.sock[fd].conn].used /\ net.conn[net.sock[fd].conn].socket = fd
               \/ \E t \in User : user[t].new = fd \/ (user[t].pc = "free" /\ user[t].fd = fd)
    <3>1. SockTaken(net, user, fd) /\ net \in NetRec
      BY <1>1, <2>3 DEF SockInv, Types, Links, SocksTaken
    <3>2. net.sock[fd].conn \in Conn
      BY <2>3, <3>1, Entries
    <3>3. net.conn[net.sock[fd].conn].socket = fd => net.conn[net.sock[fd].conn].used
      BY <1>1, <3>2, FdUsed
    <3> QED BY <3>1, <3>3 DEF SockTaken
  <2> QED BY <2>1, <2>2, <2>3 DEF ConnsOwned
<1> QED BY <1>1, SockInvHolds, PTL

(* A call goes on with the answer to its own message, one that waits for   *)
(* the stack has its answer or a pcb that will give it, and a recv() never *)
(* waits for a mailbox that stays empty (tcpip_apimsg, do_writemore,       *)
(* do_close_internal, err_tcp, netconn_recv_data): for any number of       *)
(* tasks, netconns and descriptors and any sizes of the buffers.           *)
THEOREM CallsAnsweredCorrect ==
  ASSUME Shared = FALSE
  PROVE  SocketSpec => []CallsAnswered
<1>1. ASSUME SockInv(net, user) PROVE CallsAnswered
  <2>1. \A t \in User : Hears(net, t, user[t]) /\ Stage(net, t, user[t])
    BY <1>1 DEF SockInv, Talks, Stages
  <2>2. OwnAnswer
    BY <2>1 DEF Hears, OwnAnswer
  <2>3. AnswerComes
    <3> SUFFICES ASSUME NEW t \in User, user[t].pc = "await"
                 PROVE  LET c == net.conn[user[t].conn]
                        IN  \/ c.done > 0 /\ net.ans[t] # "unset"
                            \/ c.msg = t /\ c.state \in {"WRITE", "CLOSE", "CONNECT"}
                               /\ c.pcb \in {"syn"} \cup Live
      BY DEF AnswerComes
    <3>1. user[t].conn \in Conn
      <4>1. Engaged(user[t])
        BY DEF Engaged
      <4> QED BY <1>1, <4>1, EngagedOn DEF SockInv
    <3>2. ConnSane(net.conn[user[t].conn]) /\ t # NoUser
      BY <1>1, <3>1, SocketAssumption DEF SockInv, Conns
    <3>3. \/ net.conn[user[t].conn].done = 1 /\ net.ans[t] # "unset"
          \/ net.conn[user[t].conn].msg = t
      BY <2>1 DEF Hears
    <3>4. CASE net.conn[user[t].conn].msg = t
      BY <3>2, <3>4 DEF ConnSane, Busy
    <3> QED BY <3>3, <3>4
  <2>4. FetchReturns
    BY <2>1, Zenon DEF Stage, Fetching, FetchReturns, ConnOf
  <2> QED BY <2>2, <2>3, <2>4 DEF CallsAnswered
<1> QED BY <1>1, SockInvHolds, PTL

(* A netconn that is being deleted has no pcb, or is in state CLOSE.       *)
LEMMA OpenUnclosed ==
  ASSUME SockInv(net, user), NEW c \in Conn, net.conn[c].pcb # "none", net.conn[c].state # "CLOSE"
  PROVE  Unclosed(user, c)
BY DEF SockInv, Stages, Stage, Deleting, Unclosed

(* One task at most has fetched from the mailbox of a descriptor and not   *)
(* counted it yet.                                                         *)
LEMMA UncountedOne ==
  ASSUME SockInv(net, user), NEW fd \in Fd
  PROVE  Uncounted(fd) = Pending(user, fd)
<1> DEFINE S == {t \in User : user[t].fd = fd /\ Fetched(user[t])}
<1>1. Uncounted(fd) = Cardinality(S)
  <2>1. S = {t \in User : user[t].fd = fd /\ user[t].op \in {"recv", "accept"} /\
               (user[t].pc = "event" \/ (user[t].fn = "recv" /\ user[t].pc \in {"await", "back"}))}
    BY DEF Fetched
  <2> QED BY <2>1, Zenon DEF Uncounted
<1>2. fd >= 0 /\ fd # NoFd
  BY FdFacts
<1>3. CASE S = {}
  <2>1. Pending(user, fd) = 0
    BY <1>3 DEF Pending
  <2> QED BY <1>1, <1>3, <2>1, FS_EmptySet
<1>4. CASE S # {}
  <2>1. PICK t \in User : user[t].fd = fd /\ Fetched(user[t])
    BY <1>4
  <2>2. S = {t}
    BY <1>2, <2>1 DEF SockInv, AllApart, Apart
  <2>3. Pending(user, fd) = 1
    BY <1>2, <2>1 DEF Pending
  <2> QED BY <1>1, <2>2, <2>3, FS_Singleton, Zenon
<1> QED BY <1>3, <1>4

(* rcvevent of a descriptor, or what stands for it before accept() gives   *)
(* one, is what the mailboxes of the netconn hold and what is fetched and  *)
(* not yet counted, and a connection with room to send is shown writable   *)
(* (event_callback, recv_tcp, sent_tcp, lwip_accept, netconn_recv_data):   *)
(* for any number of tasks, netconns and descriptors and any sizes of the  *)
(* mailboxes and buffers.                                                  *)
THEOREM EventsMatchCorrect ==
  ASSUME Shared = FALSE
  PROVE  SocketSpec => []EventsMatch
<1>1. ASSUME SockInv(net, user) PROVE EventsMatch
  <2> SUFFICES ASSUME NEW c \in Conn, net.conn[c].used, ~net.conn[c].fatal,
                      net.conn[c].pcb \in {"est", "wait", "listen", "bound"}, net.conn[c].state # "CLOSE"
               PROVE  LET n == net.conn[c]  fd == n.socket
                      IN  /\ (IF fd < 0 THEN -1 - fd ELSE net.sock[fd].rcvevent - Uncounted(fd))
                               = Len(n.recvmbox) + Len(n.acceptmbox)
                          /\ fd >= 0 /\ n.pcb \in Live /\ n.snd > SndLowat => net.sock[fd].sendevent = 1
    BY Zenon DEF EventsMatch
  <2> DEFINE n == net.conn[c]
             fd == n.socket
             k == Len(n.recvmbox) + Len(n.acceptmbox)
  <2>1. CountOf(net, user, c) /\ Writable(net, c)
    BY <1>1 DEF SockInv, Counts
  <2>2. Unclosed(user, c)
    BY <1>1, OpenUnclosed
  <2>3. Raw(net, c) - Pending(user, fd) = k
    BY <2>1, <2>2, Zenon DEF CountOf
  <2>4. fd \in Int /\ fd < NumConn
    BY <1>1, Entries DEF SockInv, Types, Bounds
  <2>5. (IF fd < 0 THEN -1 - fd ELSE net.sock[fd].rcvevent - Uncounted(fd)) = k
    <3>1. CASE fd < 0
      <4>1. Pending(user, fd) = 0 /\ Raw(net, c) = -1 - fd
        BY <2>4, <3>1 DEF Pending, Raw
      <4> HIDE DEF fd, k
      <4> QED BY <2>3, <2>4, <3>1, <4>1
    <3>2. CASE ~(fd < 0)
      <4>1. fd \in Fd
        BY <2>4, <3>2, SocketAssumption DEF Fd
      <4>2. Uncounted(fd) = Pending(user, fd)
        BY <1>1, <4>1, UncountedOne
      <4>3. Raw(net, c) = net.sock[fd].rcvevent
        BY <3>2 DEF Raw
      <4> HIDE DEF fd, k
      <4> QED BY <2>3, <3>2, <4>2, <4>3
    <3> QED BY <3>1, <3>2, Zenon
  <2> QED BY <2>1, <2>5, Zenon DEF Writable
<1> QED BY <1>1, SockInvHolds, PTL

(* A select() that sleeps has nothing ready that was not signalled to it,  *)
(* select_waiting of each descriptor is the number of select() calls that  *)
(* count on it, and a task that goes through select_cb_list stands on an   *)
(* entry of it or knows that it has changed (lwip_select, event_callback): *)
(* for any number of tasks and descriptors and any sets of them.           *)
THEOREM SelectSoundCorrect ==
  ASSUME Shared = FALSE
  PROVE  SocketSpec => []SelectSound
<1>1. ASSUME SockInv(net, user) PROVE SelectSound
  <2>1. /\ \A t \in User : Selecting(net, t, user[t])
        /\ \A fd \in Fd : net.sock[fd].waiting = Cardinality(Waiters(net, user, fd))
    BY <1>1 DEF SockInv, Selects
  <2>2. NoMissedWake
    BY <2>1 DEF Selecting, NoMissedWake, Interest, WantsOf
  <2>3. \A fd \in Fd : Waiters(net, user, fd) =
          {t \in User : fd \in Interest(t) /\
             \/ user[t].pc = "count" /\ fd \notin user[t].todo
             \/ user[t].pc \in {"scan", "wait"}
             \/ user[t].pc = "uncount" /\ fd \in user[t].todo}
    BY DEF Waiters, CountedFor, Interest, WantsOf
  <2>4. ListWalked
    BY <2>1, <2>3, Zenon DEF ListWalked, Selecting
  <2> QED BY <2>2, <2>4 DEF SelectSound
<1> QED BY <1>1, SockInvHolds, PTL

(* The tables of sockets.c and api_msg.c keep their types: no mailbox      *)
(* overflows and no buffer goes below empty, for any sizes.                *)
THEOREM SocketTypeCorrect ==
  ASSUME Shared = FALSE
  PROVE  SocketSpec => []SocketTypeOK
<1>1. ASSUME SockInv(net, user) PROVE SocketTypeOK
  <2>1. net \in NetRec /\ \A c \in Conn : Bounds(net.conn[c])
    BY <1>1 DEF SockInv, Types
  <2>2. ASSUME NEW c \in Conn
        PROVE  LET n == net.conn[c]
               IN  /\ n.pcb \in {"none", "new", "syn", "est", "wait", "listen", "udp", "bound"}
                   /\ n.state \in {"NONE", "WRITE", "LISTEN", "CONNECT", "CLOSE"}
                   /\ n.type \in {"tcp", "udp"} /\ {n.used, n.recvOk, n.acceptOk, n.fatal} \subseteq BOOLEAN
                   /\ n.recvmbox \in Seq({"data", "null"}) /\ Len(n.recvmbox) <= RecvMbox
                   /\ n.acceptmbox \in Seq(Conn) /\ Len(n.acceptmbox) <= AcceptMbox
                   /\ n.socket \in Int /\ n.socket < NumConn
                   /\ n.snd \in 0 .. SndBuf /\ n.left \in Nat /\ n.done \in Nat
                   /\ n.msg \in User \cup {NoUser}
    <3>1. net.conn[c] \in ConnRec /\ Bounds(net.conn[c])
      BY <2>1, Entries
    <3> QED BY <3>1, Zenon DEF ConnRec, Bounds, Pcbs, Busy
  <2>3. ASSUME NEW f \in Fd
        PROVE  LET k0 == net.sock[f]
               IN  k0.conn \in Conn \cup {NoFd} /\ k0.rcvevent \in Int /\ k0.waiting \in Int
                   /\ k0.sendevent \in {0, 1} /\ k0.last \in BOOLEAN
    <3>1. net.sock[f] \in SockRec
      BY <2>1, Entries
    <3> QED BY <3>1 DEF SockRec
  <2>4. /\ net.list \in Seq(User) /\ net.moved \subseteq User /\ net.sig \subseteq User
        /\ \A t \in User : net.ans[t] \in {"unset", "ok", "err", "fatal"} /\ net.want[t] \in {<<{}, {}>>} \cup FdSets
    BY <2>1 DEF NetRec, Wants
  <2> QED BY <2>2, <2>3, <2>4 DEF SocketTypeOK
<1> QED BY <1>1, SockInvHolds, PTL
=============================================================================
