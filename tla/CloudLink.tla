----------------------------- MODULE CloudLink -----------------------------
(***************************************************************************)
(* The device's link to the OneNet cloud: the TCP client of                *)
(* System/network_adapter.c, the login and receive loop of User/cloud.c    *)
(* and the three tasks that share the one socket:                          *)
(*                                                                         *)
(*   Cloud   TcpCloudThread: resolve, connect, log in, receive, reconnect  *)
(*   Sensor  SenserTaskThread: uploads sensor data                         *)
(*   Heart   HeartBeatThread: pings the cloud every 20 s                   *)
(*                                                                         *)
(* They share TCPClientFd, TCPClient_reset_flag, SensorTaskFlag,           *)
(* cloud_conn_status and the mutex cloud_send_mutex_lock; only             *)
(* Socket_TCPClientSendData takes the mutex.                               *)
(*                                                                         *)
(* Scheduling.  uC/OS-II runs the highest-priority ready task and Cloud    *)
(* has a higher priority than Sensor and Heart, so the code of Cloud       *)
(* between two blocking calls is one step, while Sensor and Heart may be   *)
(* preempted between any two reads of TCPClientFd.                         *)
(*                                                                         *)
(* The lwIP socket layer is abstracted to one state per descriptor:        *)
(*   free     no netconn                    other    used by another task  *)
(*   new      created, connecting           up       connected             *)
(*   fin      the peer closed, not yet read clsd     recv has returned 0   *)
(*   dead     reset or aborted              closing  inside lwip_close     *)
(***************************************************************************)
EXTENDS Integers, Sequences, FiniteSets

CONSTANTS
  NumSockets,   \* size of lwIP's socket table (NUM_SOCKETS)
  MaxInbox,     \* bound: frames of the cloud received but not yet processed
  MaxSelErr     \* bound: number of select() calls that fail to get a semaphore

ASSUME CloudLinkAssumption ==
  /\ NumSockets \in Nat \ {0}
  /\ MaxInbox \in Nat \ {0}
  /\ MaxSelErr \in Nat

Cloud  == "Cloud"
Sensor == "Sensor"
Heart  == "Heart"
Threads == {Cloud, Sensor, Heart}
NoThread == "none"

Fds  == 0 .. NumSockets - 1
NoFd == -1
Reset == 165                       \* 0xa5, the value that asks for a reconnect

SockStates == {"free", "other", "new", "up", "fin", "clsd", "dead", "closing"}
Frames     == {"CONNRESP_OK", "CONNRESP_ERR", "CMDREQ", "OTHER"}
ConnStatus == {"ZERO", "SOCK_DONE", "CLOUD_CONN_ERROR", "CLOUD_CONN_DONE"}

(* Control points inside Socket_TCPClientSendData, in program order.       *)
CritPcs == {"fdset", "select", "selwait", "isset", "send"}
SendPcs == CritPcs \cup {"lock", "posterr"}
CloudPcs == {"wifi", "dns", "connect", "retry", "recv", "frames", "check",
             "close", "closing"}

VARIABLES
  wifi,                   \* sys_status.status = SYS_STATUS_WIFI_STA_CONNECTED
  TCPClientFd,            \* the shared descriptor, -1 when there is none
  sockets,                \* state of every descriptor of the socket table
  TCPClient_reset_flag,
  cloud_send_mutex_lock,  \* owner of the mutex
  conn_status,            \* cloud_conn_status.conn_status
  SensorTaskFlag,
  failedcnt,              \* failed CONNREQ sends of this Agent_cloud_process
  pc,                     \* control point of every task
  cmsg,                   \* what Cloud is sending: "CONNREQ" or "CMDRESP"
  selfd,                  \* descriptor each sender put in its fd_set
  ready,                  \* select() left that descriptor in the fd_set
  alive,                  \* the socket existed when select() began to wait
  inbox,                  \* frames received from the cloud on this connection
  batch,                  \* how many of them the current recv() returned
  server,                 \* the cloud's side of the login: none, asked, accepted, refused
  selErrs                 \* history: number of failed select() calls

sockVars  == <<TCPClientFd, sockets>>
loginVars == <<conn_status, SensorTaskFlag, failedcnt, cmsg, inbox, batch, server>>
selVars   == <<selfd, ready, alive>>
vars == <<wifi, sockVars, TCPClient_reset_flag, cloud_send_mutex_lock, loginVars,
          pc, selVars, selErrs>>

Goto(t, l) == pc' = [pc EXCEPT ![t] = l]

TypeOK ==
  /\ wifi \in BOOLEAN
  /\ TCPClientFd \in Fds \cup {NoFd}
  /\ sockets \in [Fds -> SockStates]
  /\ TCPClient_reset_flag \in {0, 1, Reset}
  /\ cloud_send_mutex_lock \in Threads \cup {NoThread}
  /\ conn_status \in ConnStatus
  /\ SensorTaskFlag \in {0, 1}
  /\ failedcnt \in 0 .. 4
  /\ pc \in [Threads -> SendPcs \cup CloudPcs \cup {"gate", "delay"}]
  /\ cmsg \in {"CONNREQ", "CMDRESP"}
  /\ selfd \in [Threads -> Fds \cup {NoFd}]
  /\ ready \in [Threads -> BOOLEAN]
  /\ alive \in [Threads -> BOOLEAN]
  /\ inbox \in Seq(Frames)
  /\ server \in {"none", "asked", "accepted", "refused"}
  /\ batch \in Nat
  /\ selErrs \in Nat

(* State when the tasks have been created, after Agent_Init.               *)
Init ==
  /\ wifi = FALSE
  /\ TCPClientFd = NoFd
  /\ sockets = [f \in Fds |-> "free"]
  /\ TCPClient_reset_flag = 0
  /\ cloud_send_mutex_lock = NoThread
  /\ conn_status = "ZERO"   \* static storage; the enumeration begins at 1
  /\ SensorTaskFlag = 0
  /\ failedcnt = 0
  /\ pc = [t \in Threads |-> CASE t = Cloud -> "wifi"
                               [] t = Sensor -> "gate"
                               [] t = Heart -> "delay"]
  /\ cmsg = "CONNREQ"
  /\ selfd = [t \in Threads |-> NoFd]
  /\ ready = [t \in Threads |-> FALSE]
  /\ alive = [t \in Threads |-> FALSE]
  /\ inbox = <<>>
  /\ server = "none"
  /\ batch = 0
  /\ selErrs = 0
-----------------------------------------------------------------------------
(* The lwIP socket layer as this code uses it.                             *)

(* alloc_socket: the lowest free descriptor.                               *)
FreeFds == {f \in Fds : sockets[f] = "free"}
LowestFree == CHOOSE f \in FreeFds : \A g \in FreeFds : f <= g

(* sendevent: a connecting socket is not writable; errors and closing make *)
(* a socket writable so that the sender finds out.                         *)
Writable(f) == sockets[f] \notin {"free", "new"}

(* netconn_write fails unless the connection is established and no fatal   *)
(* error is recorded; reading the peer's FIN records one (ERR_CLSD).       *)
Sendable(f) == f # NoFd /\ sockets[f] \in {"up", "fin"}

-----------------------------------------------------------------------------
(* Socket_TCPClientSendData, run by every task.                            *)

(* Variant: the CONNREQ retries are not limited.                           *)
AfterSendUnlimited(t, ok) ==
  IF t # Cloud
  THEN Goto(t, "delay") /\ UNCHANGED <<conn_status, failedcnt>>
  ELSE IF cmsg = "CMDRESP"
  THEN Goto(t, "frames") /\ UNCHANGED <<conn_status, failedcnt>>
  ELSE IF ok
  THEN Goto(t, "recv") /\ UNCHANGED <<conn_status, failedcnt>>
  ELSE /\ conn_status' = "CLOUD_CONN_ERROR"
       /\ failedcnt' = failedcnt + 1
       /\ Goto(t, "retry")

(* What each caller does with the result.  Sensor and Heart only log it.   *)
(* Cloud goes on to receive after a sent CONNREQ, retries a failed one     *)
(* after a delay, gives the connection up after the fourth failure, and    *)
(* ignores the result for a command response.                              *)
AfterSend(t, ok) ==
  IF t # Cloud
  THEN Goto(t, "delay") /\ UNCHANGED <<conn_status, failedcnt>>
  ELSE IF cmsg = "CMDRESP"
  THEN Goto(t, "frames") /\ UNCHANGED <<conn_status, failedcnt>>
  ELSE IF ok
  THEN Goto(t, "recv") /\ UNCHANGED <<conn_status, failedcnt>>
  ELSE /\ conn_status' = "CLOUD_CONN_ERROR"
       /\ failedcnt' = failedcnt + 1
       /\ Goto(t, IF failedcnt + 1 > 3 THEN "close" ELSE "retry")

(* OSMutexPend(cloud_send_mutex_lock, 0, &err): wait without limit.  The   *)
(* mutex is not recursive: its owner would wait for itself.                *)
Lock(t) ==
  /\ pc[t] = "lock"
  /\ cloud_send_mutex_lock = NoThread
  /\ cloud_send_mutex_lock' = t
  /\ Goto(t, "fdset")
  /\ UNCHANGED <<wifi, sockVars, TCPClient_reset_flag, loginVars, selVars, selErrs>>

(* FD_ZERO, FD_SET(TCPClientFd, &writeset).                                *)
FdSet(t) ==
  /\ pc[t] = "fdset"
  /\ selfd' = [selfd EXCEPT ![t] = TCPClientFd]
  /\ Goto(t, "select")
  /\ UNCHANGED <<wifi, sockVars, TCPClient_reset_flag, cloud_send_mutex_lock,
                 loginVars, ready, alive, selErrs>>

(* select(TCPClientFd+1, NULL, &writeset, NULL, NULL) scans the            *)
(* descriptors below TCPClientFd+1: -1 scans none.                         *)
Scanned(t) == selfd[t] # NoFd /\ selfd[t] <= TCPClientFd

SelectNow(t) ==
  /\ pc[t] = "select"
  /\ Scanned(t) /\ Writable(selfd[t])
  /\ ready' = [ready EXCEPT ![t] = TRUE]
  /\ Goto(t, "isset")
  /\ UNCHANGED <<wifi, sockVars, TCPClient_reset_flag, cloud_send_mutex_lock,
                 loginVars, selfd, alive, selErrs>>

(* Nothing is ready and there is no timeout: wait for an event on a        *)
(* scanned socket.  With no such socket nobody will ever signal.           *)
SelectWait(t) ==
  /\ pc[t] = "select"
  /\ ~(Scanned(t) /\ Writable(selfd[t]))
  /\ alive' = [alive EXCEPT ![t] = Scanned(t) /\ sockets[selfd[t]] # "free"]
  /\ Goto(t, "selwait")
  /\ UNCHANGED <<wifi, sockVars, TCPClient_reset_flag, cloud_send_mutex_lock,
                 loginVars, selfd, ready, selErrs>>

(* sys_sem_new failed inside select(): the function returns -1 and does    *)
(* not post the mutex.                                                     *)
SelectError(t) ==
  /\ pc[t] = "select"
  /\ ~(Scanned(t) /\ Writable(selfd[t]))
  /\ selErrs < MaxSelErr
  /\ selErrs' = selErrs + 1
  /\ AfterSend(t, FALSE)
  /\ UNCHANGED <<wifi, sockVars, TCPClient_reset_flag, cloud_send_mutex_lock,
                 SensorTaskFlag, cmsg, inbox, batch, server, selVars>>

(* The connect attempt ended or the socket was closed: select() rescans.   *)
SelectWake(t) ==
  /\ pc[t] = "selwait"
  /\ alive[t] /\ sockets[selfd[t]] # "new"
  /\ ready' = [ready EXCEPT ![t] = Writable(selfd[t])]
  /\ Goto(t, "isset")
  /\ UNCHANGED <<wifi, sockVars, TCPClient_reset_flag, cloud_send_mutex_lock,
                 loginVars, selfd, alive, selErrs>>

(* FD_ISSET(TCPClientFd, &writeset), or once more round the loop.          *)
IsSet(t) ==
  /\ pc[t] = "isset"
  /\ Goto(t, IF ready[t] /\ TCPClientFd = selfd[t] THEN "send" ELSE "fdset")
  /\ UNCHANGED <<wifi, sockVars, TCPClient_reset_flag, cloud_send_mutex_lock,
                 loginVars, selVars, selErrs>>

(* Variant: the post at the end of the function is forgotten.              *)
SendOkKeepsMutex(t) ==
  /\ pc[t] = "send"
  /\ Sendable(TCPClientFd)
  /\ AfterSend(t, TRUE)
  /\ UNCHANGED <<wifi, sockVars, TCPClient_reset_flag, cloud_send_mutex_lock,
                 SensorTaskFlag, cmsg, inbox, batch, server, selVars, selErrs>>

(* send() takes the whole frame (the socket is blocking): total = len, the *)
(* mutex is posted and the length returned.                                *)
SendOk(t) ==
  /\ pc[t] = "send"
  /\ Sendable(TCPClientFd)
  /\ cloud_send_mutex_lock' = NoThread
  /\ server' = IF t = Cloud /\ cmsg = "CONNREQ" /\ server = "none"
                  /\ sockets[TCPClientFd] = "up"
               THEN "asked" ELSE server
  /\ AfterSend(t, TRUE)
  /\ UNCHANGED <<wifi, sockVars, TCPClient_reset_flag, SensorTaskFlag, cmsg, inbox,
                 batch, selVars, selErrs>>

(* Variant: the error path returns without posting the mutex.              *)
SendFailKeepsMutex(t) ==
  /\ pc[t] = "send"
  /\ ~Sendable(TCPClientFd)
  /\ Goto(t, "posterr")
  /\ UNCHANGED <<wifi, sockVars, TCPClient_reset_flag, cloud_send_mutex_lock,
                 loginVars, selVars, selErrs>>

(* send() < 0: the mutex is posted first ...                               *)
SendFail(t) ==
  /\ pc[t] = "send"
  /\ ~Sendable(TCPClientFd)
  /\ cloud_send_mutex_lock' = NoThread
  /\ Goto(t, "posterr")
  /\ UNCHANGED <<wifi, sockVars, TCPClient_reset_flag, loginVars, selVars, selErrs>>

(* Variant: a failed send only returns -1.                                 *)
RaiseNothing(t) ==
  /\ pc[t] = "posterr"
  /\ AfterSend(t, FALSE)
  /\ UNCHANGED <<wifi, sockVars, TCPClient_reset_flag, cloud_send_mutex_lock,
                 SensorTaskFlag, cmsg, inbox, batch, server, selVars, selErrs>>

(* ... and then the reset flag is raised.                                  *)
RaiseReset(t) ==
  /\ pc[t] = "posterr"
  /\ TCPClient_reset_flag' = Reset
  /\ AfterSend(t, FALSE)
  /\ UNCHANGED <<wifi, sockVars, cloud_send_mutex_lock, SensorTaskFlag, cmsg, inbox,
                 batch, server, selVars, selErrs>>

SendStep(t) ==
  \/ FdSet(t) \/ SelectNow(t) \/ SelectWait(t) \/ SelectError(t) \/ SelectWake(t)
  \/ IsSet(t) \/ SendOk(t) \/ SendFail(t) \/ RaiseReset(t)
-----------------------------------------------------------------------------
(* TcpCloudThread: Socket_CreateTCPClient and Agent_cloud_process.         *)

(* The station is connected: leave the polling loop.                       *)
CloudStart ==
  /\ pc[Cloud] = "wifi"
  /\ wifi
  /\ Goto(Cloud, "dns")
  /\ UNCHANGED <<wifi, sockVars, TCPClient_reset_flag, cloud_send_mutex_lock,
                 loginVars, selVars, selErrs>>

(* The name is resolved (failures only repeat the attempt) and socket()    *)
(* gives a descriptor, or -1 when the table is full; then retry later.     *)
CreateSocket ==
  /\ pc[Cloud] = "dns"
  /\ IF FreeFds = {}
     THEN TCPClientFd' = NoFd /\ UNCHANGED <<sockets, pc>>
     ELSE /\ TCPClientFd' = LowestFree
          /\ sockets' = [sockets EXCEPT ![LowestFree] = "new"]
          /\ Goto(Cloud, "connect")
  /\ UNCHANGED <<wifi, TCPClient_reset_flag, cloud_send_mutex_lock, loginVars,
                 selVars, selErrs>>

(* Variant: the login state of the previous connection is kept.            *)
ConnectOkKeepsStatus ==
  /\ pc[Cloud] = "connect"
  /\ sockets' = [sockets EXCEPT ![TCPClientFd] = "up"]
  /\ TCPClient_reset_flag' = 1
  /\ failedcnt' = 0
  /\ cmsg' = "CONNREQ"
  /\ inbox' = <<>>
  /\ server' = "none"
  /\ batch' = 0
  /\ Goto(Cloud, "lock")
  /\ UNCHANGED <<wifi, TCPClientFd, cloud_send_mutex_lock, conn_status,
                 SensorTaskFlag, selVars, selErrs>>

(* connect() succeeded.  Up to the next blocking call: the reset flag is   *)
(* re-armed and Agent_cloud_process starts a fresh login.                  *)
ConnectOk ==
  /\ pc[Cloud] = "connect"
  /\ sockets' = [sockets EXCEPT ![TCPClientFd] = "up"]
  /\ TCPClient_reset_flag' = 1
  /\ conn_status' = "SOCK_DONE"
  /\ failedcnt' = 0
  /\ cmsg' = "CONNREQ"
  /\ inbox' = <<>>
  /\ server' = "none"
  /\ batch' = 0
  /\ Goto(Cloud, "lock")
  /\ UNCHANGED <<wifi, TCPClientFd, cloud_send_mutex_lock, SensorTaskFlag, selVars,
                 selErrs>>

(* Variant: the failed socket is not closed.                               *)
ConnectFailNoClose ==
  /\ pc[Cloud] = "connect"
  /\ sockets' = [sockets EXCEPT ![TCPClientFd] = "dead"]
  /\ Goto(Cloud, "wifi")
  /\ UNCHANGED <<wifi, TCPClientFd, TCPClient_reset_flag, cloud_send_mutex_lock,
                 loginVars, selVars, selErrs>>

(* connect() failed: Socket_CreateTCPClient closes the socket, returns -1. *)
ConnectFail ==
  /\ pc[Cloud] = "connect"
  /\ sockets' = [sockets EXCEPT ![TCPClientFd] = "dead"]
  /\ Goto(Cloud, "close")
  /\ UNCHANGED <<wifi, TCPClientFd, TCPClient_reset_flag, cloud_send_mutex_lock,
                 loginVars, selVars, selErrs>>

(* OSTimeDly(50), then the CONNREQ is sent again on the same socket.       *)
RetryConnReq ==
  /\ pc[Cloud] = "retry"
  /\ Goto(Cloud, "lock")
  /\ UNCHANGED <<wifi, sockVars, TCPClient_reset_flag, cloud_send_mutex_lock,
                 loginVars, selVars, selErrs>>

(* Variant: the request is acknowledged and the receive loop goes on.      *)
RecvResetIgnored ==
  /\ pc[Cloud] = "recv"
  /\ TCPClient_reset_flag = Reset
  /\ TCPClient_reset_flag' = 1
  /\ Goto(Cloud, "check")
  /\ UNCHANGED <<wifi, sockVars, cloud_send_mutex_lock, loginVars, selVars, selErrs>>

(* Socket_TCPClientRecvData: after its select(), the reset flag wins.      *)
RecvReset ==
  /\ pc[Cloud] = "recv"
  /\ TCPClient_reset_flag = Reset
  /\ Goto(Cloud, "close")
  /\ UNCHANGED <<wifi, sockVars, TCPClient_reset_flag, cloud_send_mutex_lock,
                 loginVars, selVars, selErrs>>

(* Nothing to read and its select() cannot get a semaphore: -1 as well.    *)
RecvSelectError ==
  /\ pc[Cloud] = "recv"
  /\ sockets[TCPClientFd] \in {"up", "clsd"} /\ inbox = <<>>
  /\ Goto(Cloud, "close")
  /\ UNCHANGED <<wifi, sockVars, TCPClient_reset_flag, cloud_send_mutex_lock,
                 loginVars, selVars, selErrs>>

(* recv() < 0: the socket is closed and -2 returned; Agent_cloud_process   *)
(* calls the close a second time, on descriptor -1, which does nothing.    *)
RecvError ==
  /\ pc[Cloud] = "recv"
  /\ TCPClient_reset_flag # Reset
  /\ sockets[TCPClientFd] = "dead"
  /\ Goto(Cloud, "close")
  /\ UNCHANGED <<wifi, sockVars, TCPClient_reset_flag, cloud_send_mutex_lock,
                 loginVars, selVars, selErrs>>

(* recv() = 0: the peer closed.  The result is handled like a timeout.     *)
RecvFin ==
  /\ pc[Cloud] = "recv"
  /\ TCPClient_reset_flag # Reset
  /\ sockets[TCPClientFd] = "fin" /\ inbox = <<>>
  /\ sockets' = [sockets EXCEPT ![TCPClientFd] = "clsd"]
  /\ Goto(Cloud, "check")
  /\ UNCHANGED <<wifi, TCPClientFd, TCPClient_reset_flag, cloud_send_mutex_lock,
                 loginVars, selVars, selErrs>>

(* recv() > 0: recv_data_process goes through the packets received.        *)
RecvFrames ==
  /\ pc[Cloud] = "recv"
  /\ TCPClient_reset_flag # Reset
  /\ sockets[TCPClientFd] \in {"up", "fin"}
  /\ \E n \in 1 .. Len(inbox) : batch' = n
  /\ Goto(Cloud, "frames")
  /\ UNCHANGED <<wifi, sockVars, TCPClient_reset_flag, cloud_send_mutex_lock,
                 conn_status, SensorTaskFlag, failedcnt, cmsg, inbox, server, selVars,
                 selErrs>>

(* One packet of recv_data_process.  A CONNRESP starts the sensor task and *)
(* marks the login done whatever its return code; a CMDREQ is answered.    *)
ProcessFrame ==
  /\ pc[Cloud] = "frames"
  /\ batch > 0
  /\ batch' = batch - 1
  /\ inbox' = Tail(inbox)
  /\ IF Head(inbox) \in {"CONNRESP_OK", "CONNRESP_ERR"}
     THEN /\ SensorTaskFlag' = 1
          /\ conn_status' = "CLOUD_CONN_DONE"
     ELSE UNCHANGED <<SensorTaskFlag, conn_status>>
  /\ IF Head(inbox) = "CMDREQ"
     THEN cmsg' = "CMDRESP" /\ Goto(Cloud, "lock")
     ELSE UNCHANGED <<cmsg, pc>>
  /\ UNCHANGED <<wifi, sockVars, TCPClient_reset_flag, cloud_send_mutex_lock,
                 failedcnt, server, selVars, selErrs>>

(* The packets of this recv() are processed.                               *)
FramesDone ==
  /\ pc[Cloud] = "frames"
  /\ batch = 0
  /\ Goto(Cloud, "check")
  /\ UNCHANGED <<wifi, sockVars, TCPClient_reset_flag, cloud_send_mutex_lock,
                 loginVars, selVars, selErrs>>

(* Bottom of the receive loop: the reset flag is looked at once more.      *)
RecvCheck ==
  /\ pc[Cloud] = "check"
  /\ Goto(Cloud, IF TCPClient_reset_flag = Reset THEN "close" ELSE "recv")
  /\ UNCHANGED <<wifi, sockVars, TCPClient_reset_flag, cloud_send_mutex_lock,
                 loginVars, selVars, selErrs>>

(* Socket_TCPClientClose: close() blocks until the stack has closed ...    *)
CloseBegin ==
  /\ pc[Cloud] = "close"
  /\ sockets' = [sockets EXCEPT ![TCPClientFd] = "closing"]
  /\ Goto(Cloud, "closing")
  /\ UNCHANGED <<wifi, TCPClientFd, TCPClient_reset_flag, cloud_send_mutex_lock,
                 loginVars, selVars, selErrs>>

(* ... then the descriptor is freed and forgotten, and TcpCloudThread      *)
(* starts over.                                                            *)
CloseEnd ==
  /\ pc[Cloud] = "closing"
  /\ sockets' = [sockets EXCEPT ![TCPClientFd] = "free"]
  /\ TCPClientFd' = NoFd
  /\ inbox' = <<>>
  /\ Goto(Cloud, "wifi")
  /\ UNCHANGED <<wifi, TCPClient_reset_flag, cloud_send_mutex_lock, conn_status,
                 SensorTaskFlag, failedcnt, cmsg, batch, server, selVars, selErrs>>

CloudStep ==
  \/ CloudStart \/ CreateSocket \/ ConnectOk \/ ConnectFail \/ RetryConnReq
  \/ RecvReset \/ RecvError \/ RecvFin \/ RecvFrames \/ ProcessFrame \/ FramesDone
  \/ RecvCheck \/ CloseBegin \/ CloseEnd

-----------------------------------------------------------------------------
(* SenserTaskThread and HeartBeatThread.                                   *)

(* The sensor task waits once for SensorTaskFlag.                          *)
SensorGate ==
  /\ pc[Sensor] = "gate"
  /\ SensorTaskFlag = 1
  /\ Goto(Sensor, "delay")
  /\ UNCHANGED <<wifi, sockVars, TCPClient_reset_flag, cloud_send_mutex_lock,
                 loginVars, selVars, selErrs>>

(* After its OSTimeDly it uploads the next value, without further check.   *)
SensorData_Upload ==
  /\ pc[Sensor] = "delay"
  /\ Goto(Sensor, "lock")
  /\ UNCHANGED <<wifi, sockVars, TCPClient_reset_flag, cloud_send_mutex_lock,
                 loginVars, selVars, selErrs>>

(* A ping is sent when the last known login state is CLOUD_CONN_DONE.      *)
cloud_heartbeat_timer_handle ==
  /\ pc[Heart] = "delay"
  /\ conn_status = "CLOUD_CONN_DONE"
  /\ Goto(Heart, "lock")
  /\ UNCHANGED <<wifi, sockVars, TCPClient_reset_flag, cloud_send_mutex_lock,
                 loginVars, selVars, selErrs>>

-----------------------------------------------------------------------------
(* The environment: the Wi-Fi driver, the cloud, the other socket users.   *)

WifiUp ==
  /\ ~wifi
  /\ wifi' = TRUE
  /\ UNCHANGED <<sockVars, TCPClient_reset_flag, cloud_send_mutex_lock, loginVars,
                 pc, selVars, selErrs>>

Deliver(f) ==
  /\ TCPClientFd # NoFd /\ sockets[TCPClientFd] = "up"
  /\ Len(inbox) < MaxInbox
  /\ inbox' = Append(inbox, f)
  /\ UNCHANGED <<wifi, sockVars, TCPClient_reset_flag, cloud_send_mutex_lock,
                 conn_status, SensorTaskFlag, failedcnt, cmsg, batch, pc, selVars,
                 selErrs>>

(* The cloud answers the login request, with either result.                *)
ServerAnswer ==
  /\ server = "asked"
  /\ \/ server' = "accepted" /\ Deliver("CONNRESP_OK")
     \/ server' = "refused" /\ Deliver("CONNRESP_ERR")

(* A logged-in device gets commands, pushed data, ping answers, ...        *)
ServerFrame ==
  /\ server = "accepted"
  /\ server' = server
  /\ \E f \in {"CMDREQ", "OTHER"} : Deliver(f)

(* The peer closes in order, or the connection is reset or times out.      *)
PeerLeaves(from, to) ==
  /\ TCPClientFd # NoFd /\ sockets[TCPClientFd] \in from
  /\ sockets' = [sockets EXCEPT ![TCPClientFd] = to]
  /\ UNCHANGED <<wifi, TCPClientFd, TCPClient_reset_flag, cloud_send_mutex_lock,
                 loginVars, pc, selVars, selErrs>>

PeerFin   == PeerLeaves({"up"}, "fin")
PeerReset == PeerLeaves({"up", "fin", "clsd"}, "dead")

(* The NTP client and the LAN servers open and close sockets of their own. *)
OtherOpen ==
  /\ FreeFds # {}
  /\ sockets' = [sockets EXCEPT ![LowestFree] = "other"]
  /\ UNCHANGED <<wifi, TCPClientFd, TCPClient_reset_flag, cloud_send_mutex_lock,
                 loginVars, pc, selVars, selErrs>>

OtherClose ==
  \E f \in Fds :
    /\ sockets[f] = "other"
    /\ sockets' = [sockets EXCEPT ![f] = "free"]
    /\ UNCHANGED <<wifi, TCPClientFd, TCPClient_reset_flag, cloud_send_mutex_lock,
                   loginVars, pc, selVars, selErrs>>

Environment ==
  \/ WifiUp \/ ServerAnswer \/ ServerFrame \/ PeerFin \/ PeerReset
  \/ OtherOpen \/ OtherClose

Next ==
  \/ \E t \in Threads : Lock(t) \/ SendStep(t)
  \/ CloudStep \/ RecvSelectError
  \/ SensorGate \/ SensorData_Upload \/ cloud_heartbeat_timer_handle
  \/ Environment

Spec == Init /\ [][Next]_vars

(* Fairness.  uC/OS-II always runs a ready task and every task of higher   *)
(* priority blocks again and again, so each task's enabled step is         *)
(* eventually taken.  A mutex that is free again and again is eventually   *)
(* obtained: the other senders sleep in OSTimeDly between two sends.       *)
(* lwIP ends every send, close and connect attempt (it aborts a connection *)
(* that gets no answer); connecting succeeds if tried for ever.  Nothing   *)
(* is assumed of the cloud, of the peer or of the other socket users, and  *)
(* no failure of a select() is ever owed.                                  *)
FairSpec ==
  /\ Spec
  /\ \A t \in Threads : SF_vars(Lock(t)) /\ WF_vars(SendStep(t))
  /\ WF_vars(CloudStep) /\ SF_vars(ConnectOk)
  /\ WF_vars(SensorGate) /\ WF_vars(SensorData_Upload)
  /\ WF_vars(cloud_heartbeat_timer_handle)

-----------------------------------------------------------------------------
(* Properties.                                                             *)

(* Socket_TCPClientSendData holds the mutex exactly from its OSMutexPend   *)
(* to its OSMutexPost, so two tasks never write to the cloud socket at the *)
(* same time -- unless a select() has failed, whose early return keeps it. *)
MutexDiscipline ==
  selErrs = 0 =>
    \A t \in Threads : cloud_send_mutex_lock = t <=> pc[t] \in CritPcs

(* The descriptors Socket_CreateTCPClient has allocated are exactly the    *)
(* one in TCPClientFd: every error path closes it once, none leaks one     *)
(* from the small socket table, and TCPClientFd never names a socket of    *)
(* another task.                                                           *)
CloudFds == {f \in Fds : sockets[f] \notin {"free", "other"}}
NoFdLeak == CloudFds = {TCPClientFd} \ {NoFd}

(* While a session is open, CLOUD_CONN_DONE means that the cloud has       *)
(* answered the login on this very connection: the status of an earlier    *)
(* connection does not survive a reconnect.                                *)
InSession == pc[Cloud] \in {"retry", "recv", "frames", "check"} \cup SendPcs
DoneIsFresh ==
  InSession /\ conn_status = "CLOUD_CONN_DONE" => server \in {"accepted", "refused"}

(* A task that waits in select() where no event can ever wake it, because  *)
(* it looked at TCPClientFd while there was no socket, or a mutex that was *)
(* kept by the early return of a failed select().                          *)
Stuck == selErrs > 0 \/ \E t \in Threads : pc[t] = "selwait" /\ ~alive[t]

(* Every call of Socket_TCPClientSendData returns, unless some task is     *)
(* stuck: the send path has no other way to block for ever.                *)
SendReturns ==
  \A t \in Threads : pc[t] \in SendPcs ~> (pc[t] \notin SendPcs \/ Stuck)

(* A raised reset flag makes Agent_cloud_process close the connection.     *)
ResetTearsDown ==
  (InSession /\ TCPClient_reset_flag = Reset) ~> (TCPClientFd = NoFd \/ Stuck)

(* recv() = 0 is treated like a timeout, yet once the sensor task runs the *)
(* peer's close is noticed: the next upload fails and the link is closed.  *)
PeerCloseNoticed ==
  (TCPClientFd # NoFd /\ sockets[TCPClientFd] = "clsd" /\ SensorTaskFlag = 1)
    ~> (TCPClientFd = NoFd \/ Stuck)

(* sensors.c: "tcp sends heartbeats to ONENET to keep the link": the       *)
(* heartbeat task comes back to its loop for ever.                         *)
HeartbeatKeepsGoing == []<>(pc[Heart] = "delay")
=============================================================================
