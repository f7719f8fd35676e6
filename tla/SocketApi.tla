------------------------------ MODULE SocketApi ------------------------------
(***************************************************************************)
(* The sockets of the application tasks (LwIP api/sockets.c, api_lib.c and *)
(* api_msg.c): the table of descriptors, the netconns behind them, and     *)
(* select().                                                               *)
(*                                                                         *)
(* The thread of the stack has the most urgent priority, so what it does   *)
(* for a message or a segment is one step, also when a task posts the      *)
(* message; the task then waits for op_completed of the netconn.  In the   *)
(* tasks each protected section is a step.  Sockets block (no caller sets  *)
(* O_NONBLOCK, SO_RCVTIMEO and SO_SNDTIMEO are not built).  Segments are   *)
(* "data" or "null" (the peer closed), buffers are counted in units, the   *)
(* state of the pcb is what the netconn layer can tell apart.              *)
(***************************************************************************)
EXTENDS Integers, Sequences, FiniteSetsExt

CONSTANTS
  User, NoUser,  \* the tasks that call, and the null message
  NumConn,       \* MEMP_NUM_NETCONN, also NUM_SOCKETS
  RecvMbox,      \* MAX_QUEUE_ENTRIES: DEFAULT_TCP_RECVMBOX_SIZE
  AcceptMbox,    \* MAX_QUEUE_ENTRIES: DEFAULT_ACCEPTMBOX_SIZE
  SndBuf,        \* TCP_SND_BUF
  SndLowat,      \* TCP_SNDLOWAT
  WriteSizes,    \* sizes of a send()
  FdSets,        \* pairs <<readset, writeset>> of a select()
  Programs,      \* which calls each task makes: functions on User
  Shared         \* one task receives while another sends on the same descriptor

ASSUME SocketAssumption ==
  /\ NoUser \notin User /\ IsFiniteSet(User)
  /\ {NumConn, RecvMbox, AcceptMbox, SndBuf} \subseteq Nat \ {0}
  /\ SndLowat \in 0 .. SndBuf - 1
  /\ WriteSizes \subseteq Nat \ {0}
  /\ FdSets \subseteq (SUBSET (0 .. NumConn - 1)) \X (SUBSET (0 .. NumConn - 1))
  /\ \A sets \in FdSets : sets[1] \cup sets[2] # {}
  /\ Shared \in BOOLEAN

Fd == 0 .. NumConn - 1
NoFd == -1
Conn == Fd

VARIABLES
  net,           \* what the stack and the tasks share: see SocketInit
  user,          \* where each task is
  program        \* the calls the tasks make in this behaviour

socketVars == <<net, user, program>>

(* netconn_alloc: a netconn that has no pcb and no descriptor yet.         *)
netconn_alloc(type) ==
  [used |-> TRUE, type |-> type, pcb |-> "none", state |-> "NONE", socket |-> -1,
   recvOk |-> TRUE, recvmbox |-> <<>>, acceptOk |-> FALSE, acceptmbox |-> <<>>,
   fatal |-> FALSE, snd |-> 0, left |-> 0, msg |-> NoUser, done |-> 0]

FreeConn == [netconn_alloc("tcp") EXCEPT !.used = FALSE, !.recvOk = FALSE]

(* netconn_free gives the memory back; pcb and mailboxes must be gone.     *)
netconn_free(s, c) ==
  [s EXCEPT !.conn[c] = [FreeConn EXCEPT !.pcb = s.conn[c].pcb,
                         !.recvOk = s.conn[c].recvOk, !.acceptOk = s.conn[c].acceptOk]]

FreeSock == [conn |-> NoFd, rcvevent |-> 0, sendevent |-> 0, waiting |-> 0, last |-> FALSE]

IdleUser == [pc |-> "idle", op |-> "none", fn |-> "none", fd |-> NoFd, conn |-> NoFd,
             new |-> NoFd, off |-> FALSE, got |-> "none", scb |-> NoUser,
             todo |-> {}, ready |-> FALSE]

SocketInit ==
  /\ net = [conn |-> [c \in Conn |-> FreeConn],      \* memp pool of netconns
            sock |-> [f \in Fd |-> FreeSock],        \* sockets[]
            list |-> <<>>,                           \* select_cb_list
            moved |-> {},                            \* whose select_cb_ctr is out of date
            want |-> [t \in User |-> <<{}, {}>>],    \* readset and writeset
            sig |-> {},                              \* sem_signalled
            ans |-> [t \in User |-> "ok"]]           \* err of the task's api_msg
  /\ user = [t \in User |-> IdleUser]
  /\ program \in Programs
-----------------------------------------------------------------------------
(* event_callback, sockets.c.                                              *)

Listed(s) == {s.list[i] : i \in 1 .. Len(s.list)}

(* Does the select() of task t ask for what descriptor fd has now?         *)
Asks(s, t, fd) ==
  \/ fd \in s.want[t][1] /\ s.sock[fd].rcvevent > 0
  \/ fd \in s.want[t][2] /\ s.sock[fd].sendevent # 0

Signalled(s, ts, fd) == [s EXCEPT !.sig = @ \cup {t \in ts : Asks(s, t, fd)}]

Counted(s, fd, evt) ==
  [s EXCEPT !.sock[fd].rcvevent = CASE evt = "RCVPLUS" -> @ + 1
                                    [] evt = "RCVMINUS" -> @ - 1
                                    [] OTHER -> @,
            !.sock[fd].sendevent = CASE evt = "SENDPLUS" -> 1
                                     [] evt = "SENDMINUS" -> 0
                                     [] OTHER -> @]

(* In the thread of the stack: no task runs while it goes through the      *)
(* list.  Before lwip_accept has given the netconn a descriptor only       *)
(* RCVPLUS is counted, downwards from -1.                                  *)
EventUncounted(s, c, evt) ==          \* variant: nothing is kept for a later descriptor
  LET fd == s.conn[c].socket
  IN  IF fd < 0 \/ s.sock[fd].conn = NoFd THEN s
      ELSE IF s.sock[fd].waiting = 0 THEN Counted(s, fd, evt)
      ELSE Signalled(Counted(s, fd, evt), Listed(s), fd)

event_callback(s, c, evt) ==
  LET fd == s.conn[c].socket
      e == IF fd < 0 THEN s ELSE Counted(s, fd, evt)
  IN  IF fd < 0
      THEN IF evt = "RCVPLUS" THEN [s EXCEPT !.conn[c].socket = @ - 1] ELSE s
      ELSE IF s.sock[fd].conn = NoFd THEN s
      ELSE IF e.sock[fd].waiting = 0 THEN e
      ELSE Signalled(e, Listed(e), fd)
-----------------------------------------------------------------------------
(* What the thread of the stack does, api_msg.c.                           *)

Live == {"est", "wait"}           \* pcb states in which data can be written

(* TCPIP_APIMSG_ACK: the answer r to the message of task t.                *)
Ack(s, c, t, r) == [s EXCEPT !.ans[t] = r, !.conn[c].done = @ + 1]

(* The call behind current_msg is over.                                    *)
Completed(s, c, r) ==
  Ack([s EXCEPT !.conn[c].msg = NoUser, !.conn[c].state = "NONE", !.conn[c].left = 0],
      c, s.conn[c].msg, r)

(* What tcp_write can return.                                              *)
tcp_write(s, c) == IF s.conn[c].pcb \in Live THEN {"ok", "err"} ELSE {"fatal"}

do_writemore(s, c, r) ==
  LET n == IF r = "ok" THEN Min({s.conn[c].left, s.conn[c].snd}) ELSE 0
      w == [s EXCEPT !.conn[c].snd = @ - n, !.conn[c].left = @ - n]
      e == IF r # "fatal" /\ w.conn[c].snd <= SndLowat
           THEN event_callback(w, c, "SENDMINUS") ELSE w
  IN  IF r = "fatal" \/ (r = "ok" /\ e.conn[c].left = 0) THEN Completed(e, c, r) ELSE e

(* Closing fails when there is no memory for the FIN (ok is FALSE).        *)
do_close_internal(s, c, ok) ==
  IF ~ok /\ s.conn[c].pcb \in Live THEN s
  ELSE Completed(event_callback(event_callback([s EXCEPT !.conn[c].pcb = "none"],
                                               c, "RCVPLUS"), c, "SENDPLUS"), c, "ok")

(* Go on with the write or the close that waits.                           *)
Continued(s, c) ==
  CASE s.conn[c].state = "WRITE" -> {do_writemore(s, c, r) : r \in tcp_write(s, c)}
    [] s.conn[c].state = "CLOSE" -> {do_close_internal(s, c, ok) : ok \in BOOLEAN}
    [] OTHER -> {s}

(* Variant: the queued connections are forgotten.                          *)
NetconnDrainForgets(s, c) ==
  [s EXCEPT !.conn[c].recvOk = FALSE, !.conn[c].recvmbox = <<>>,
            !.conn[c].acceptOk = FALSE, !.conn[c].acceptmbox = <<>>]

netconn_drain(s, c) ==
  LET queued == {s.conn[c].acceptmbox[i] : i \in 1 .. Len(s.conn[c].acceptmbox)}
  IN  [s EXCEPT !.conn = [d \in Conn |-> IF d \in queued THEN FreeConn ELSE @[d]],
                !.conn[c].recvOk = FALSE, !.conn[c].recvmbox = <<>>,
                !.conn[c].acceptOk = FALSE, !.conn[c].acceptmbox = <<>>]

do_delconn(s, c, t, ok) ==
  LET d == netconn_drain(s, c)
      gone == [d EXCEPT !.conn[c].pcb = "none"]
  IN  IF s.conn[c].state \notin {"NONE", "LISTEN", "CONNECT"} THEN Ack(s, c, t, "err")
      ELSE IF s.conn[c].type = "tcp" /\ s.conn[c].pcb # "none"
      THEN do_close_internal([d EXCEPT !.conn[c].state = "CLOSE", !.conn[c].msg = t], c, ok)
      ELSE Ack(event_callback(event_callback(gone, c, "RCVPLUS"), c, "SENDPLUS"), c, t, "ok")

do_newconn(s, c, t, r) ==
  Ack(IF r = "ok" THEN [s EXCEPT !.conn[c].pcb = IF s.conn[c].type = "tcp" THEN "new" ELSE "udp"]
      ELSE s, c, t, r)

(* A UDP pcb with a port; udp_connect and udp_sendto bind one without.     *)
Bound(s, c) == [s EXCEPT !.conn[c].pcb = IF @ = "udp" THEN "bound" ELSE @]

do_bind(s, c, t, r) ==
  IF s.conn[c].fatal THEN Ack(s, c, t, "fatal")
  ELSE IF s.conn[c].pcb = "none" \/ r # "ok" THEN Ack(s, c, t, "err")
  ELSE Ack(Bound(s, c), c, t, "ok")

(* A datagram goes out at once or not at all.                              *)
do_send(s, c, t, r) == Ack(IF r = "ok" THEN Bound(s, c) ELSE s, c, t, r)

(* tcp_connect starts (r is "ok") or fails; it takes only a new pcb.       *)
do_connect(s, c, t, r) ==
  IF s.conn[c].pcb = "none" THEN Ack(s, c, t, "fatal")
  ELSE IF s.conn[c].type = "udp" THEN do_send(s, c, t, r)
  ELSE IF s.conn[c].state # "NONE" \/ s.conn[c].pcb # "new" \/ r # "ok" THEN Ack(s, c, t, "err")
  ELSE [s EXCEPT !.conn[c].state = "CONNECT", !.conn[c].msg = t, !.conn[c].pcb = "syn"]

(* tcp_listen succeeds ("ok") or not, or the mailbox cannot be had.        *)
do_listen(s, c, t, r) ==
  IF s.conn[c].fatal \/ s.conn[c].pcb = "none" \/ s.conn[c].type = "udp"
     \/ s.conn[c].state # "NONE" THEN Ack(s, c, t, "fatal")
  ELSE IF r = "err" \/ s.conn[c].pcb # "new" THEN Ack(s, c, t, "err")
  ELSE LET l == [s EXCEPT !.conn[c].recvOk = FALSE, !.conn[c].recvmbox = <<>>]
       IN  IF r = "ok"
           THEN Ack([l EXCEPT !.conn[c].acceptOk = TRUE, !.conn[c].state = "LISTEN",
                              !.conn[c].pcb = "listen"], c, t, "ok")
           ELSE Ack([l EXCEPT !.conn[c].pcb = "none"], c, t, "err")

do_write(s, c, t, n, r) ==
  IF s.conn[c].fatal \/ (s.conn[c].state = "NONE" /\ s.conn[c].pcb = "none")
  THEN Ack(s, c, t, "fatal")
  ELSE IF s.conn[c].state # "NONE" THEN Ack(s, c, t, "err")
  ELSE do_writemore([s EXCEPT !.conn[c].state = "WRITE", !.conn[c].msg = t,
                              !.conn[c].left = n], c, r)

do_getaddr(s, c, t) == Ack(s, c, t, IF s.conn[c].pcb = "none" THEN "fatal" ELSE "ok")
do_recv(s, c, t) == Ack(s, c, t, "ok")
-----------------------------------------------------------------------------
(* Segments, timers and resets, handled by the thread of the stack.        *)

Callback(c) == net.conn[c].used /\ user' = user

do_connected(c) ==
  /\ Callback(c) /\ net.conn[c].pcb = "syn" /\ net.conn[c].state = "CONNECT"
  /\ net' = Completed(event_callback([net EXCEPT !.conn[c].pcb = "est", !.conn[c].snd = SndBuf],
                                     c, "SENDPLUS"), c, "ok")

(* A full mailbox refuses data, which the pcb keeps and offers again; the  *)
(* peer's close is told only once, and lost then (tcp_in.c, 374).          *)
recv_tcp(c) ==
  /\ Callback(c) /\ net.conn[c].pcb = "est" /\ net.conn[c].recvOk
  /\ \E p \in {"data", "null"} :
       LET s == IF p = "null" THEN [net EXCEPT !.conn[c].pcb = "wait"] ELSE net
       IN  IF Len(net.conn[c].recvmbox) < RecvMbox
           THEN net' = event_callback([s EXCEPT !.conn[c].recvmbox = Append(@, p)], c, "RCVPLUS")
           ELSE net' = s

recv_udp(c) ==
  /\ Callback(c) /\ net.conn[c].pcb = "bound" /\ net.conn[c].recvOk
  /\ Len(net.conn[c].recvmbox) < RecvMbox
  /\ net' = event_callback([net EXCEPT !.conn[c].recvmbox = Append(@, "data")], c, "RCVPLUS")

(* The peer has acknowledged some of what was sent.                        *)
sent_tcp(c) ==
  /\ Callback(c) /\ net.conn[c].pcb \in Live
  /\ \E n \in 1 .. SndBuf - net.conn[c].snd :
     \E s \in Continued([net EXCEPT !.conn[c].snd = @ + n], c) :
       net' = IF s.conn[c].pcb # "none" /\ s.conn[c].snd > SndLowat
              THEN event_callback(s, c, "SENDPLUS") ELSE s

poll_tcp(c) ==
  /\ Callback(c) /\ net.conn[c].state \in {"WRITE", "CLOSE"}
  /\ net' \in Continued(net, c)

(* Variant: the task in the call is not told.                              *)
ErrTcpSilent(c) ==
  /\ Callback(c) /\ net.conn[c].pcb \in {"syn"} \cup Live
  /\ net' = event_callback(event_callback(
       [net EXCEPT !.conn[c].pcb = "none", !.conn[c].fatal = TRUE], c, "RCVPLUS"), c, "SENDPLUS")

err_tcp(c) ==
  /\ Callback(c) /\ net.conn[c].pcb \in {"syn"} \cup Live
  /\ LET s == [net EXCEPT !.conn[c].pcb = "none", !.conn[c].fatal = TRUE]
         e == event_callback(event_callback(s, c, "RCVPLUS"), c, "SENDPLUS")
         m == IF e.conn[c].recvOk /\ Len(e.conn[c].recvmbox) < RecvMbox
              THEN [e EXCEPT !.conn[c].recvmbox = Append(@, "null")] ELSE e
     IN  net' = IF net.conn[c].state \in {"WRITE", "CLOSE", "CONNECT"}
                THEN Completed(m, c, "fatal") ELSE m

(* With no netconn left or the mailbox full the new pcb is aborted.        *)
accept_function(c) ==
  /\ Callback(c) /\ net.conn[c].acceptOk
  /\ Len(net.conn[c].acceptmbox) < AcceptMbox
  /\ \E d \in Conn :
       /\ ~net.conn[d].used
       /\ \A e \in Conn : e < d => net.conn[e].used
       /\ net' = event_callback(
            [net EXCEPT !.conn[d] = [netconn_alloc("tcp") EXCEPT !.pcb = "est", !.snd = SndBuf],
                        !.conn[c].acceptmbox = Append(@, d)], c, "RCVPLUS")
-----------------------------------------------------------------------------
(* The tasks.                                                              *)

Set(t, u) == user' = [user EXCEPT ![t] = u]
Return(t, s) == net' = [s EXCEPT !.ans[t] = "ok"] /\ Set(t, IdleUser)

(* tcpip_apimsg: the message is posted, the thread of the stack leaves s,  *)
(* and the task waits for op_completed of netconn c.                       *)
tcpip_apimsg(t, u, c, fn, s) == net' = s /\ Set(t, [u EXCEPT !.pc = "await", !.fn = fn, !.conn = c])

Unanswered(t) == [net EXCEPT !.ans[t] = "unset"]

(* A descriptor is used by one task at a time, select() apart, and closed  *)
(* when no task selects on it; if Shared, one may receive and one send.    *)
MayCall(t, fd, op) ==
  /\ user[t].pc = "idle" /\ op \in program[t]
  /\ net.sock[fd].conn # NoFd /\ net.conn[net.sock[fd].conn].socket = fd
  /\ \A v \in User \ {t} :
       /\ user[v].fd = fd => Shared /\ {user[v].op, op} = {"recv", "send"}
       /\ op = "close" => fd \notin net.want[v][1] \cup net.want[v][2]

Call(fd, op) == [IdleUser EXCEPT !.op = op, !.fd = fd]
ConnOf(fd) == net.sock[fd].conn

(* lwip_socket *)
lwip_socket(t) ==
  /\ user[t].pc = "idle"
  /\ \E type \in {"tcp", "udp"} \cap program[t], c \in Conn, r \in {"ok", "err"} :
       /\ ~net.conn[c].used /\ \A d \in Conn : d < c => net.conn[d].used
       /\ tcpip_apimsg(t, Call(NoFd, "socket"), c, "new",
                       do_newconn([Unanswered(t) EXCEPT !.conn[c] = netconn_alloc(type)], c, t, r))

lwip_bind(t) ==
  \E fd \in Fd, r \in {"ok", "err"} :
    /\ MayCall(t, fd, "bind")
    /\ tcpip_apimsg(t, Call(fd, "bind"), ConnOf(fd), "bind",
                    do_bind(Unanswered(t), ConnOf(fd), t, r))

lwip_connect(t) ==
  \E fd \in Fd, r \in {"ok", "err"} :
    /\ MayCall(t, fd, "connect")
    /\ tcpip_apimsg(t, Call(fd, "connect"), ConnOf(fd), "connect",
                    do_connect(Unanswered(t), ConnOf(fd), t, r))

lwip_listen(t) ==
  \E fd \in Fd, r \in {"ok", "err", "nombox"} :
    /\ MayCall(t, fd, "listen")
    /\ tcpip_apimsg(t, Call(fd, "listen"), ConnOf(fd), "listen",
                    do_listen(Unanswered(t), ConnOf(fd), t, r))

(* netconn_write_partly, or lwip_sendto.                                   *)
lwip_send(t) ==
  \E fd \in Fd :
    /\ MayCall(t, fd, "send")
    /\ LET c == ConnOf(fd)
       IN  \/ /\ net.conn[c].type = "tcp"
              /\ \E n \in WriteSizes, r \in tcp_write(net, c) :
                   tcpip_apimsg(t, Call(fd, "send"), c, "write",
                                do_write(Unanswered(t), c, t, n, r))
           \/ /\ net.conn[c].type = "udp"
              /\ \E r \in {"ok", "err"} :
                   tcpip_apimsg(t, Call(fd, "send"), c, "send", do_send(Unanswered(t), c, t, r))

lwip_close(t) ==
  \E fd \in Fd, ok \in BOOLEAN :
    /\ MayCall(t, fd, "close")
    /\ tcpip_apimsg(t, Call(fd, "close"), ConnOf(fd), "delconn",
                    do_delconn(Unanswered(t), ConnOf(fd), t, ok))

lwip_accept(t) ==
  \E fd \in Fd :
    /\ MayCall(t, fd, "accept")
    /\ net.conn[ConnOf(fd)].acceptOk /\ ~net.conn[ConnOf(fd)].fatal
    /\ net' = net /\ Set(t, [Call(fd, "accept") EXCEPT !.pc = "fetch"])

(* netconn_recved, when some data was read, and the end of recv().         *)
ReadEnds(t, s, u, some) ==
  IF some /\ s.conn[ConnOf(u.fd)].type = "tcp"
  THEN tcpip_apimsg(t, u, ConnOf(u.fd), "recved",
                    do_recv([s EXCEPT !.ans[t] = "unset"], ConnOf(u.fd), t))
  ELSE Return(t, s)

(* netconn_recv_data up to the wait for the mailbox.                       *)
ReadMore(t, s, u) ==
  LET c == s.conn[ConnOf(u.fd)]
  IN  IF ~c.recvOk \/ c.fatal THEN ReadEnds(t, s, u, u.off)
      ELSE net' = s /\ Set(t, [u EXCEPT !.pc = "fetch"])

lwip_recvfrom(t) ==
  \E fd \in Fd :
    /\ MayCall(t, fd, "recv")
    /\ IF net.sock[fd].last THEN net' = net /\ Set(t, [Call(fd, "recv") EXCEPT !.pc = "copy"])
       ELSE ReadMore(t, net, Call(fd, "recv"))

(* sys_arch_mbox_fetch returns.                                            *)
FetchNewconn(t) ==
  LET u == user[t]  c == ConnOf(u.fd)
  IN  /\ u.pc = "fetch" /\ u.op = "accept" /\ net.conn[c].acceptmbox # <<>>
      /\ net' = [net EXCEPT !.conn[c].acceptmbox = Tail(@)]
      /\ Set(t, [u EXCEPT !.pc = "event", !.conn = Head(net.conn[c].acceptmbox)])

FetchData(t) ==
  LET u == user[t]  c == ConnOf(u.fd)
      m == Head(net.conn[c].recvmbox)
      s == [net EXCEPT !.conn[c].recvmbox = Tail(@)]
  IN  /\ u.pc = "fetch" /\ u.op = "recv" /\ net.conn[c].recvmbox # <<>>
      /\ IF m = "null" THEN tcpip_apimsg(t, [u EXCEPT !.got = m], c, "recv",
                                         do_recv([s EXCEPT !.ans[t] = "unset"], c, t))
         ELSE net' = s /\ Set(t, [u EXCEPT !.pc = "event", !.got = m])

(* After RCVMINUS: netconn_accept asks for the peer's address,             *)
(* netconn_recv_data hands on the data or tells that the peer has closed.  *)
Resume(t, s) ==
  LET u == [user[t] EXCEPT !.scb = NoUser, !.got = "none"]  c == ConnOf(u.fd)
  IN  IF u.op = "accept"
      THEN tcpip_apimsg(t, u, u.conn, "peer", do_getaddr([s EXCEPT !.ans[t] = "unset"], u.conn, t))
      ELSE IF user[t].got = "null" THEN ReadEnds(t, [s EXCEPT !.conn[c].fatal = TRUE], u, u.off)
      ELSE net' = [s EXCEPT !.sock[u.fd].last = TRUE] /\ Set(t, [u EXCEPT !.pc = "copy"])

(* event_callback in a task: each entry of select_cb_list is looked at in  *)
(* a protected section of its own.                                         *)
Look(t, s, i) ==
  IF i > Len(s.list) THEN Resume(t, s)
  ELSE /\ net' = [Signalled(s, {s.list[i]}, user[t].fd) EXCEPT !.moved = @ \ {t}]
       /\ Set(t, [user[t] EXCEPT !.pc = "look", !.scb = s.list[i]])

RcvMinus(t) ==
  LET fd == user[t].fd  s == Counted(net, fd, "RCVMINUS")
  IN  /\ user[t].pc = "event"
      /\ IF s.sock[fd].waiting = 0 THEN Resume(t, s) ELSE Look(t, s, 1)

LookOn(t) ==
  /\ user[t].pc = "look"
  /\ IF t \in net.moved THEN Look(t, [net EXCEPT !.moved = @ \ {t}], 1)
     ELSE \E i \in 1 .. Len(net.list) :
            net.list[i] = user[t].scb /\ Look(t, net, i + 1)

(* lwip_recvfrom copies: a part of the data, all of it, or all and then    *)
(* asks for more, which it does only while rcvevent tells of more.         *)
Copy(t) ==
  LET u == user[t]  tcp == net.conn[ConnOf(u.fd)].type = "tcp"
      taken == [net EXCEPT !.sock[u.fd].last = FALSE]
  IN  /\ u.pc = "copy"
      /\ \/ tcp /\ ReadEnds(t, net, u, TRUE)
         \/ ReadEnds(t, taken, u, TRUE)
         \/ tcp /\ net.sock[u.fd].rcvevent > 0 /\ ReadMore(t, taken, [u EXCEPT !.off = TRUE])

-----------------------------------------------------------------------------
(* The wait for op_completed ends; NETCONN_SET_SAFE_ERR.                   *)
SemTaken(t) ==
  LET u == user[t]
  IN  /\ u.pc = "await" /\ net.conn[u.conn].done > 0
      /\ net' = [net EXCEPT !.conn[u.conn].done = @ - 1,
                            !.conn[u.conn].fatal = @ \/ net.ans[t] = "fatal"]
      /\ Set(t, [u EXCEPT !.pc = "back"])

Back(t, fns) == user[t].pc = "back" /\ user[t].fn \in fns

(* netconn_delete of a netconn that got no descriptor.                     *)
Dropped(t, u) ==
  \E ok \in BOOLEAN : tcpip_apimsg(t, u, u.conn, "delconn",
                                   do_delconn(Unanswered(t), u.conn, t, ok))

(* alloc_socket: the lowest free entry of sockets[].                       *)
alloc_socket(fd) ==
  /\ net.sock[fd].conn = NoFd /\ \A f \in Fd : f < fd => net.sock[f].conn # NoFd

NewSock(c, accepted) ==
  [FreeSock EXCEPT !.conn = c, !.sendevent = IF net.conn[c].type = "udp" \/ accepted THEN 1 ELSE 0]

SocketMade(t) ==
  LET u == user[t]
  IN  /\ Back(t, {"new"})
      /\ IF net.ans[t] # "ok"
         THEN Return(t, netconn_free([net EXCEPT !.conn[u.conn].recvOk = FALSE], u.conn))
         ELSE \/ \E fd \in Fd :
                   /\ alloc_socket(fd)
                   /\ Return(t, [net EXCEPT !.sock[fd] = NewSock(u.conn, FALSE),
                                            !.conn[u.conn].socket = fd])
              \/ (\A fd \in Fd : ~alloc_socket(fd)) /\ Dropped(t, u)

Accepted(t) ==
  LET u == user[t]
  IN  /\ Back(t, {"peer"})
      /\ \/ net.ans[t] # "ok" /\ Dropped(t, u)
         \/ net.ans[t] = "ok" /\ (\A fd \in Fd : ~alloc_socket(fd)) /\ Dropped(t, u)
         \/ \E fd \in Fd :
              /\ net.ans[t] = "ok" /\ alloc_socket(fd)
              /\ net' = [net EXCEPT !.sock[fd] = NewSock(u.conn, TRUE)]
              /\ Set(t, [u EXCEPT !.pc = "settle", !.new = fd])

(* What came in before the descriptor was known is added to rcvevent.      *)
Settle(t) ==
  LET u == user[t]
  IN  /\ u.pc = "settle"
      /\ Return(t, [net EXCEPT !.sock[u.new].rcvevent = @ + (-1 - net.conn[u.conn].socket),
                               !.conn[u.conn].socket = u.new])

CallReturns(t) ==
  /\ Back(t, {"bind", "connect", "listen", "write", "send", "recved"}) /\ Return(t, net)

NullRead(t) == Back(t, {"recv"}) /\ net' = net /\ Set(t, [user[t] EXCEPT !.pc = "event"])

ConnDeleted(t) ==
  /\ Back(t, {"delconn"})
  /\ IF user[t].op = "close"
     THEN net' = netconn_free(net, user[t].conn) /\ Set(t, [user[t] EXCEPT !.pc = "free"])
     ELSE Return(t, netconn_free(net, user[t].conn))

free_socket(t) ==
  user[t].pc = "free" /\ Return(t, [net EXCEPT !.sock[user[t].fd] = FreeSock])
-----------------------------------------------------------------------------
(* lwip_select *)

Interest(t) == net.want[t][1] \cup net.want[t][2]
Ready(fd, sets) ==
  \/ fd \in sets[1] /\ (net.sock[fd].last \/ net.sock[fd].rcvevent > 0)
  \/ fd \in sets[2] /\ net.sock[fd].sendevent # 0

(* Nothing is ready at the first look; else it returns at once.            *)
lwip_select(t) ==
  \E sets \in FdSets :
    /\ user[t].pc = "idle" /\ "select" \in program[t]
    /\ \A fd \in sets[1] \cup sets[2] :
         /\ ConnOf(fd) # NoFd /\ net.conn[ConnOf(fd)].socket = fd /\ ~Ready(fd, sets)
         /\ \A v \in User : ~(user[v].op = "close" /\ user[v].fd = fd)
    /\ net' = [net EXCEPT !.want[t] = sets]
    /\ Set(t, [IdleUser EXCEPT !.pc = "add", !.op = "select"])

ListMoved(s) == [s EXCEPT !.moved = {v \in User : user[v].pc = "look"}]

SelectAdd(t) ==
  /\ user[t].pc = "add"
  /\ net' = ListMoved([net EXCEPT !.list = <<t>> \o @])
  /\ Set(t, [user[t] EXCEPT !.pc = "count", !.todo = Interest(t)])

(* One descriptor, from the lowest on; at the end go to pc, with todo.     *)
NextFd(t, pc, todo, keep) ==
  LET fd == Min(user[t].todo)  rest == user[t].todo \ {fd}
  IN  Set(t, IF rest # {} THEN [user[t] EXCEPT !.todo = rest, !.ready = keep]
             ELSE [user[t] EXCEPT !.pc = pc, !.todo = todo, !.ready = keep])

(* Variant: no second look after the counters were raised.                 *)
SelectCountLast(t) ==
  /\ user[t].pc = "count"
  /\ net' = [net EXCEPT !.sock[Min(user[t].todo)].waiting = @ + 1]
  /\ NextFd(t, "wait", {}, FALSE)

SelectCount(t) ==
  /\ user[t].pc = "count"
  /\ net' = [net EXCEPT !.sock[Min(user[t].todo)].waiting = @ + 1]
  /\ NextFd(t, "scan", Interest(t), FALSE)

SelectScan(t) ==
  LET found == user[t].ready \/ Ready(Min(user[t].todo), net.want[t])
  IN  /\ user[t].pc = "scan" /\ net' = net
      /\ NextFd(t, IF found THEN "uncount" ELSE "wait", IF found THEN Interest(t) ELSE {}, found)

(* Woken, or the time is over.                                             *)
SelectWaked(t) ==
  /\ user[t].pc = "wait" /\ t \in net.sig /\ net' = net
  /\ Set(t, [user[t] EXCEPT !.pc = "uncount", !.todo = Interest(t)])

SelectTimeout(t) ==
  /\ user[t].pc = "wait" /\ t \notin net.sig /\ net' = net
  /\ Set(t, [user[t] EXCEPT !.pc = "uncount", !.todo = Interest(t)])

SelectUncount(t) ==
  /\ user[t].pc = "uncount"
  /\ net' = [net EXCEPT !.sock[Min(user[t].todo)].waiting = @ - 1]
  /\ NextFd(t, "remove", {}, FALSE)

(* The task's entry is taken out of the list.                              *)
Unlinked(l, i) == SubSeq(l, 1, i - 1) \o SubSeq(l, i + 1, Len(l))

SelectRemove(t) ==
  /\ user[t].pc = "remove"
  /\ \E i \in 1 .. Len(net.list) :
       /\ net.list[i] = t
       /\ Return(t, ListMoved([net EXCEPT !.list = Unlinked(@, i),
                                          !.sig = @ \ {t}, !.want[t] = <<{}, {}>>]))
-----------------------------------------------------------------------------
StackSide(c) ==
  \/ do_connected(c) \/ recv_tcp(c) \/ recv_udp(c) \/ sent_tcp(c)
  \/ poll_tcp(c) \/ err_tcp(c) \/ accept_function(c)

CallSide(t) ==
  \/ lwip_socket(t) \/ lwip_bind(t) \/ lwip_connect(t) \/ lwip_listen(t) \/ lwip_send(t) \/ lwip_close(t)
  \/ lwip_accept(t) \/ lwip_recvfrom(t) \/ FetchNewconn(t) \/ FetchData(t) \/ RcvMinus(t)
  \/ LookOn(t) \/ Copy(t) \/ SemTaken(t) \/ SocketMade(t) \/ Accepted(t) \/ Settle(t)
  \/ CallReturns(t) \/ NullRead(t) \/ ConnDeleted(t) \/ free_socket(t)

SelectSide(t) ==
  \/ lwip_select(t) \/ SelectAdd(t) \/ SelectCount(t) \/ SelectScan(t) \/ SelectWaked(t)
  \/ SelectTimeout(t) \/ SelectUncount(t) \/ SelectRemove(t)

SocketNext ==
  /\ program' = program
  /\ \/ \E c \in Conn : StackSide(c)
     \/ \E t \in User : CallSide(t) \/ SelectSide(t)

SocketSpec == SocketInit /\ [][SocketNext]_socketVars
-----------------------------------------------------------------------------
SocketTypeOK ==
  /\ \A c \in Conn :
       LET n == net.conn[c]
       IN  /\ n.pcb \in {"none", "new", "syn", "est", "wait", "listen", "udp", "bound"}
           /\ n.state \in {"NONE", "WRITE", "LISTEN", "CONNECT", "CLOSE"}
           /\ n.type \in {"tcp", "udp"} /\ {n.used, n.recvOk, n.acceptOk, n.fatal} \subseteq BOOLEAN
           /\ n.recvmbox \in Seq({"data", "null"}) /\ Len(n.recvmbox) <= RecvMbox
           /\ n.acceptmbox \in Seq(Conn) /\ Len(n.acceptmbox) <= AcceptMbox
           /\ n.socket \in Int /\ n.socket < NumConn
           /\ n.snd \in 0 .. SndBuf /\ n.left \in Nat /\ n.done \in Nat
           /\ n.msg \in User \cup {NoUser}
  /\ \A f \in Fd :
       LET k0 == net.sock[f]
       IN  k0.conn \in Conn \cup {NoFd} /\ k0.rcvevent \in Int /\ k0.waiting \in Int
           /\ k0.sendevent \in {0, 1} /\ k0.last \in BOOLEAN
  /\ net.list \in Seq(User) /\ net.moved \subseteq User /\ net.sig \subseteq User
  /\ \A t \in User : net.ans[t] \in {"unset", "ok", "err", "fatal"} /\ net.want[t] \in {<<{}, {}>>} \cup FdSets

(* A call goes on with the answer to its own message: sys_arch_sem_wait on *)
(* op_completed never returns before the stack has set msg.err.            *)
OwnAnswer == \A t \in User : user[t].pc = "back" => net.ans[t] # "unset"

(* A task that waits for the stack will hear of it: its answer is there,   *)
(* or the netconn holds its message and a pcb whose next segment, timer or *)
(* reset ends the call.                                                    *)
AnswerComes ==
  \A t \in User : user[t].pc = "await" =>
    LET c == net.conn[user[t].conn]
    IN  \/ c.done > 0 /\ net.ans[t] # "unset"
        \/ c.msg = t /\ c.state \in {"WRITE", "CLOSE", "CONNECT"} /\ c.pcb \in {"syn"} \cup Live

(* A task that waits for a mailbox is not left behind: after a fatal error *)
(* there is something to fetch, and recv() that already has data never     *)
(* waits, so it returns what it has.                                       *)
FetchReturns ==
  \A t \in User : user[t].pc = "fetch" /\ user[t].op = "recv"
    /\ (user[t].off \/ net.conn[ConnOf(user[t].fd)].fatal)
    => net.conn[ConnOf(user[t].fd)].recvmbox # <<>>

(* No call waits for what cannot come, and none takes another's answer     *)
(* (tcpip_apimsg, err_tcp, lwip_recvfrom).                                 *)
CallsAnswered == OwnAnswer /\ AnswerComes /\ FetchReturns

(* A select() that sleeps has nothing ready that was not signalled to it:  *)
(* no event falls between its scans, its place in the list and the         *)
(* counters.                                                               *)
NoMissedWake ==
  \A t \in User : user[t].pc = "wait" /\ t \notin net.sig =>
    \A fd \in Interest(t) : ~Asks(net, t, fd)

(* The counters are those of the select() calls under way, and a task that *)
(* goes through the list stands on an entry of it or knows that the list   *)
(* has changed: it never follows the next pointer of a stack frame that is *)
(* gone.                                                                   *)
ListWalked ==
  /\ \A fd \in Fd : net.sock[fd].waiting =
       Cardinality({t \in User : fd \in Interest(t) /\
         \/ user[t].pc = "count" /\ fd \notin user[t].todo
         \/ user[t].pc \in {"scan", "wait"}
         \/ user[t].pc = "uncount" /\ fd \in user[t].todo})
  /\ \A t \in User : user[t].pc = "look" => t \in net.moved \/ user[t].scb \in Listed(net)

SelectSound == NoMissedWake /\ ListWalked

Uncounted(fd) ==
  Cardinality({t \in User : user[t].fd = fd /\ user[t].op \in {"recv", "accept"} /\
    (user[t].pc = "event" \/ (user[t].fn = "recv" /\ user[t].pc \in {"await", "back"}))})

(* rcvevent, or the negative number that stands for it before accept() has *)
(* a descriptor, is what the mailbox holds and what a task has fetched and *)
(* not yet counted; and a connection with room to send is shown writable.  *)
(* Without this select() sleeps on data or recv() sleeps without.          *)
EventsMatch ==
  \A c \in Conn :
    LET n == net.conn[c]  fd == n.socket
    IN  n.used /\ ~n.fatal /\ n.pcb \in {"est", "wait", "listen", "bound"} /\ n.state # "CLOSE" =>
          /\ (IF fd < 0 THEN -1 - fd ELSE net.sock[fd].rcvevent - Uncounted(fd))
               = Len(n.recvmbox) + Len(n.acceptmbox)
          /\ fd >= 0 /\ n.pcb \in Live /\ n.snd > SndLowat => net.sock[fd].sendevent = 1

Owners(c) ==
  {<<"sock", f>> : f \in {f \in Fd : net.sock[f].conn = c /\ net.conn[c].socket = f}}
  \cup {<<"mbox", d>> : d \in {d \in Conn : \E i \in 1 .. Len(net.conn[d].acceptmbox) :
                                              net.conn[d].acceptmbox[i] = c}}
  \cup {<<"task", t>> : t \in {t \in User : user[t].op \in {"socket", "accept"} /\ user[t].conn = c
                                            /\ ~(user[t].pc = "idle")}}

(* Every netconn has one owner, a descriptor, the queue of a listener or a *)
(* call under way, and a free one has none, no pcb that would call back    *)
(* and no mailbox; every descriptor in use has its netconn or a call that  *)
(* is about to give it one or to free it.  Nothing leaks and nothing is    *)
(* freed twice when accept(), a reset and close() meet.                    *)
ConnsOwned ==
  /\ \A c \in Conn :
       IF net.conn[c].used THEN Cardinality(Owners(c)) = 1
       ELSE Owners(c) = {} /\ net.conn[c].pcb = "none" /\ ~net.conn[c].recvOk /\ ~net.conn[c].acceptOk
  /\ \A fd \in Fd : net.sock[fd].conn # NoFd =>
       \/ net.conn[net.sock[fd].conn].used /\ net.conn[net.sock[fd].conn].socket = fd
       \/ \E t \in User : user[t].new = fd \/ (user[t].pc = "free" /\ user[t].fd = fd)
=============================================================================
