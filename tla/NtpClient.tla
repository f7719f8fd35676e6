----------------------------- MODULE NtpClient -----------------------------
(***************************************************************************)
(* The time client: OtherTaskThread of System/agent_core.c and             *)
(* Lib/ntp_client.c, beside another task that opens and closes sockets.    *)
(* The device's clock is the tick counter of uC/OS-II, counted from Epoch. *)
(***************************************************************************)
EXTENDS Integers, FiniteSets

CONSTANTS
  Fd,            \* socket descriptors
  NoSocket,      \* -1
  MaxTries,      \* 50
  TicksPerSec,   \* OS_TICKS_PER_SEC
  TickMod,       \* 2^32: the tick counter is an INT32U
  Epoch,         \* 1417305600
  Zone,          \* 28800
  ServerTime     \* times the server may give

ASSUME NtpAssumption ==
  /\ NoSocket \notin Fd
  /\ {MaxTries, TicksPerSec, TickMod, Epoch, Zone} \subseteq Nat \ {0}
  /\ ServerTime \subseteq {t \in Nat : t >= Epoch}

VARIABLES
  fdOwner,      \* who holds a descriptor: "free", "ntp" or "other"
  ntp,          \* where the NTP task is
  sockfd,       \* its local variable
  ntp_count, ntp_ret,
  OSTime,
  synced,       \* history: the time last set, and the seconds since then
  recvFailed,   \* history: recvfrom() has failed
  foreign       \* history: a descriptor of the other task was closed

ntpVars == <<fdOwner, ntp, sockfd, ntp_count, ntp_ret, OSTime, synced, recvFailed, foreign>>

NotSynced == [time |-> 0, since |-> 0]

NtpTypeOK ==
  /\ fdOwner \in [Fd -> {"free", "ntp", "other"}]
  /\ ntp \in {"loop", "create", "select", "recv", "close", "failed"}
  /\ sockfd \in Fd \cup {NoSocket}
  /\ ntp_count \in 0 .. MaxTries + 1 /\ ntp_ret \in {0, 1}
  /\ OSTime \in 0 .. TickMod - 1
  /\ recvFailed \in BOOLEAN /\ foreign \in BOOLEAN

NtpInit ==
  /\ fdOwner = [f \in Fd |-> "free"]
  /\ ntp = "loop" /\ sockfd = NoSocket
  /\ ntp_count = 0 /\ ntp_ret = 1
  /\ OSTime = 0 /\ synced = NotSynced
  /\ recvFailed = FALSE /\ foreign = FALSE

clockVars == <<OSTime, synced>>

-----------------------------------------------------------------------------
(* The loop of OtherTaskThread, once the station is connected.             *)
NtpTry ==
  /\ ntp = "loop"
  /\ ntp_count <= MaxTries /\ ntp_ret # 0
  /\ ntp' = "create"
  /\ UNCHANGED <<fdOwner, sockfd, ntp_count, ntp_ret, clockVars, recvFailed, foreign>>

NtpReturned(ret) == ntp' = "loop" /\ ntp_ret' = ret /\ ntp_count' = ntp_count + 1

(* CreateNtpClientSockfd and the first SendQueryTimePacked.                *)
CreateNtpClientSockfd ==
  /\ ntp = "create"
  /\ \/ /\ \A f \in Fd : fdOwner[f] # "free"
        /\ NtpReturned(1) /\ UNCHANGED <<fdOwner, sockfd>>
     \/ \E f \in Fd :
          /\ fdOwner[f] = "free"
          /\ fdOwner' = [fdOwner EXCEPT ![f] = "ntp"]
          /\ sockfd' = f /\ ntp' = "select"
          /\ UNCHANGED <<ntp_count, ntp_ret>>
  /\ UNCHANGED <<clockVars, recvFailed, foreign>>

(* close() of a descriptor that is not open does nothing.                  *)
SocketClosed(f) ==
  /\ fdOwner' = [fdOwner EXCEPT ![f] = "free"]
  /\ foreign' = (foreign \/ fdOwner[f] = "other")

(* Variant: the next try is left to close the socket.                      *)
SelectTimeoutOpen ==
  /\ ntp = "select"
  /\ NtpReturned(1)
  /\ UNCHANGED <<fdOwner, sockfd, clockVars, recvFailed, foreign>>

(* 60 s without an answer: another query is sent and the socket closed.    *)
SelectTimeout ==
  /\ ntp = "select"
  /\ SocketClosed(sockfd)
  /\ NtpReturned(1)
  /\ UNCHANGED <<sockfd, clockVars, recvFailed>>

SelectReady ==
  /\ ntp = "select"
  /\ ntp' = "recv"
  /\ UNCHANGED <<fdOwner, sockfd, ntp_count, ntp_ret, clockVars, recvFailed, foreign>>

ModifyLocalTime(t) == ((t - Epoch) * TicksPerSec) % TickMod

RecvNtpPacked ==
  /\ ntp = "recv"
  /\ \E t \in ServerTime :
       /\ OSTime' = ModifyLocalTime(t)
       /\ synced' = [time |-> t, since |-> 0]
  /\ ntp' = "close"
  /\ UNCHANGED <<fdOwner, sockfd, ntp_count, ntp_ret, recvFailed, foreign>>

(* RecvNtpPacked closes the socket itself when recvfrom() fails ...        *)
RecvFailed ==
  /\ ntp = "recv"
  /\ SocketClosed(sockfd)
  /\ recvFailed' = TRUE
  /\ ntp' = "failed"
  /\ UNCHANGED <<sockfd, ntp_count, ntp_ret, clockVars>>

(* ... and start_ntp closes it in either case.                             *)
CloseSockfd ==
  /\ ntp \in {"close", "failed"}
  /\ SocketClosed(sockfd)
  /\ NtpReturned(IF ntp = "close" THEN 0 ELSE 1)
  /\ UNCHANGED <<sockfd, clockVars, recvFailed>>

NtpTask == NtpTry \/ CreateNtpClientSockfd \/ SelectTimeout \/ SelectReady
           \/ RecvNtpPacked \/ RecvFailed \/ CloseSockfd

(* Another task opens and closes its own sockets.                          *)
OtherOpens ==
  /\ \E f \in Fd : fdOwner[f] = "free" /\ fdOwner' = [fdOwner EXCEPT ![f] = "other"]
  /\ UNCHANGED <<ntp, sockfd, ntp_count, ntp_ret, clockVars, recvFailed, foreign>>

OtherCloses ==
  /\ \E f \in Fd : fdOwner[f] = "other" /\ fdOwner' = [fdOwner EXCEPT ![f] = "free"]
  /\ UNCHANGED <<ntp, sockfd, ntp_count, ntp_ret, clockVars, recvFailed, foreign>>

(* One second passes.                                                      *)
ClockSecond ==
  /\ OSTime' = (OSTime + TicksPerSec) % TickMod
  /\ synced' = IF synced = NotSynced \/ synced.since * TicksPerSec >= TickMod THEN synced
               ELSE [synced EXCEPT !.since = @ + 1]
  /\ UNCHANGED <<fdOwner, ntp, sockfd, ntp_count, ntp_ret, recvFailed, foreign>>

NtpNext == NtpTask \/ OtherOpens \/ OtherCloses \/ ClockSecond

NtpSpec == NtpInit /\ [][NtpNext]_ntpVars

-----------------------------------------------------------------------------
(* Properties.                                                             *)

GetLocalTime == OSTime \div TicksPerSec + Epoch + Zone

(* The clock shows the server's time, and keeps showing it, in the zone of *)
(* the device until the tick counter overflows.  After that, which is 497  *)
(* days after the epoch, it shows an earlier time.                         *)
ClockKept ==
  LET now == synced.time + synced.since
  IN  synced # NotSynced /\ (now - Epoch) * TicksPerSec < TickMod
        => GetLocalTime = now + Zone

(* Between two tries the NTP task holds no socket, and it closes one of    *)
(* another task only where recvfrom() failed and the socket is closed      *)
(* twice.                                                                  *)
SocketsReturned ==
  /\ ntp \in {"loop", "create"} => \A f \in Fd : fdOwner[f] # "ntp"
  /\ foreign => recvFailed

(* The NTP client is sound: ModifyLocalTime keeps the clock, start_ntp     *)
(* returns its sockets.                                                    *)
NtpSound == ClockKept /\ SocketsReturned
=============================================================================
