-------------------------- MODULE CloudLinkProofs --------------------------
(***************************************************************************)
(* Proofs about CloudLink for every size of the socket table and every     *)
(* value of the bounds: the type invariant, the mutex discipline of        *)
(* Socket_TCPClientSendData and the absence of descriptor leaks.           *)
(***************************************************************************)
EXTENDS CloudLink, Extrema, TLAPS

-----------------------------------------------------------------------------
(* alloc_socket takes a descriptor that is free.                           *)
LEMMA LowestFreeIsFree ==
  ASSUME FreeFds # {}
  PROVE  LowestFree \in FreeFds
<1>1. FreeFds \subseteq Nat
  BY CloudLinkAssumption DEF FreeFds, Fds
<1>2. \E f \in FreeFds : \A g \in FreeFds : f <= g
  BY <1>1, LeastElement
<1> QED
  BY <1>2 DEF LowestFree

-----------------------------------------------------------------------------
(* Strengthenings.                                                         *)

(* Each task only reaches control points of its own functions.             *)
PcInv ==
  /\ pc[Cloud] \in CloudPcs \cup SendPcs
  /\ pc[Sensor] \in SendPcs \cup {"gate", "delay"}
  /\ pc[Heart] \in SendPcs \cup {"delay"}

(* A CONNREQ is on its way only while at most three have failed.           *)
RetryInv ==
  pc[Cloud] \in SendPcs \cup {"retry"} /\ cmsg = "CONNREQ" => failedcnt <= 3

(* recv_data_process has no more packets to go through than were received, *)
(* and none is left when it is not running.                                *)
BatchInv ==
  /\ batch <= Len(inbox)
  /\ \/ pc[Cloud] = "frames"
     \/ pc[Cloud] \in SendPcs /\ cmsg = "CMDRESP"
     \/ batch = 0

(* Cloud has a descriptor exactly when it is past socket().                *)
FdInv == TCPClientFd = NoFd <=> pc[Cloud] \in {"wifi", "dns"}

(* The cloud sends nothing before it has answered the login.               *)
SilentInv == server \in {"none", "asked"} => inbox = <<>>

TypeInv == TypeOK /\ PcInv /\ RetryInv /\ BatchInv /\ FdInv

-----------------------------------------------------------------------------
(* Type correctness.                                                       *)

LEMMA TypeInit == Init => TypeInv
<1> SUFFICES ASSUME Init PROVE TypeInv
  OBVIOUS
<1>1. TypeOK
  <2>1. pc \in [Threads -> SendPcs \cup CloudPcs \cup {"gate", "delay"}]
    BY DEF Init, Threads, Cloud, Sensor, Heart, SendPcs, CritPcs, CloudPcs
  <2>2. sockets \in [Fds -> SockStates]
    BY DEF Init, SockStates
  <2>3. inbox \in Seq(Frames)
    BY DEF Init
  <2>4. /\ selfd \in [Threads -> Fds \cup {NoFd}]
        /\ ready \in [Threads -> BOOLEAN]
        /\ alive \in [Threads -> BOOLEAN]
    BY DEF Init
  <2>5. wifi \in BOOLEAN
    BY DEF Init
  <2>6. /\ TCPClientFd \in Fds \cup {NoFd}
        /\ TCPClient_reset_flag \in {0, 1, Reset}
        /\ cloud_send_mutex_lock \in Threads \cup {NoThread}
        /\ conn_status \in ConnStatus
        /\ SensorTaskFlag \in {0, 1}
        /\ failedcnt \in 0 .. 4
        /\ cmsg \in {"CONNREQ", "CMDRESP"}
        /\ server \in {"none", "asked", "accepted", "refused"}
        /\ batch \in Nat
        /\ selErrs \in Nat
    BY DEF Init, ConnStatus
  <2> QED
    BY <2>1, <2>2, <2>3, <2>4, <2>5, <2>6 DEF TypeOK
<1>2. pc[Cloud] = "wifi" /\ pc[Sensor] = "gate" /\ pc[Heart] = "delay"
  BY DEF Init, Threads, Cloud, Sensor, Heart
<1>3. PcInv
  BY <1>2 DEF PcInv, CloudPcs
<1>4. RetryInv /\ BatchInv
  BY DEF Init, RetryInv, BatchInv
<1>5. FdInv
  BY <1>2 DEF Init, FdInv
<1> QED
  BY <1>1, <1>3, <1>4, <1>5 DEF TypeInv

LEMMA TypeNext == TypeInv /\ [Next]_vars => TypeInv'
<1> SUFFICES ASSUME TypeInv, [Next]_vars PROVE TypeInv'
  OBVIOUS
<1> USE CloudLinkAssumption
    DEF TypeInv, TypeOK, PcInv, RetryInv, BatchInv, FdInv, Fds, NoFd, SockStates,
        Threads, NoThread, Cloud, Sensor, Heart, CloudPcs, SendPcs, CritPcs, ConnStatus,
        Frames, Reset, Goto, sockVars, loginVars, selVars
<1>1. ASSUME NEW t \in Threads, Lock(t) PROVE TypeInv'
  BY <1>1 DEF Lock
<1>2. ASSUME NEW t \in Threads, FdSet(t) PROVE TypeInv'
  BY <1>2 DEF FdSet
<1>3. ASSUME NEW t \in Threads, SelectNow(t) PROVE TypeInv'
  BY <1>3 DEF SelectNow, Scanned
<1>4. ASSUME NEW t \in Threads, SelectWait(t) PROVE TypeInv'
  BY <1>4 DEF SelectWait, Scanned
<1>5. ASSUME NEW t \in Threads, SelectError(t) PROVE TypeInv'
  BY <1>5 DEF SelectError, AfterSend, Scanned
<1>6. ASSUME NEW t \in Threads, SelectWake(t) PROVE TypeInv'
  <2>1. ready' \in [Threads -> BOOLEAN]
    BY <1>6 DEF SelectWake, Writable
  <2>2. pc' = [pc EXCEPT ![t] = "isset"] /\ t \in Threads
    BY <1>6 DEF SelectWake
  <2>3. UNCHANGED <<wifi, sockVars, TCPClient_reset_flag, cloud_send_mutex_lock,
                    loginVars, selfd, alive, selErrs>>
    BY <1>6 DEF SelectWake
  <2>4. pc[t] = "selwait"
    BY <1>6 DEF SelectWake
  <2> QED
    BY <2>1, <2>2, <2>3, <2>4
<1>7. ASSUME NEW t \in Threads, IsSet(t) PROVE TypeInv'
  BY <1>7 DEF IsSet
<1>8. ASSUME NEW t \in Threads, SendOk(t) PROVE TypeInv'
  BY <1>8 DEF SendOk, AfterSend
<1>9. ASSUME NEW t \in Threads, SendFail(t) PROVE TypeInv'
  BY <1>9 DEF SendFail
<1>10. ASSUME NEW t \in Threads, RaiseReset(t) PROVE TypeInv'
  BY <1>10 DEF RaiseReset, AfterSend
<1>11. CASE CloudStart
  BY <1>11 DEF CloudStart
<1>12. CASE CreateSocket
  BY LowestFreeIsFree, <1>12 DEF CreateSocket, FreeFds
<1>13. CASE ConnectOk
  BY <1>13 DEF ConnectOk
<1>14. CASE ConnectFail
  BY <1>14 DEF ConnectFail
<1>15. CASE RetryConnReq
  BY <1>15 DEF RetryConnReq
<1>16. CASE RecvReset
  BY <1>16 DEF RecvReset
<1>17. CASE RecvError
  BY <1>17 DEF RecvError
<1>18. CASE RecvFin
  BY <1>18 DEF RecvFin
<1>19. CASE RecvFrames
  BY <1>19 DEF RecvFrames
<1>20. CASE ProcessFrame
  BY <1>20 DEF ProcessFrame
<1>21. CASE FramesDone
  BY <1>21 DEF FramesDone
<1>22. CASE RecvCheck
  BY <1>22 DEF RecvCheck
<1>23. CASE CloseBegin
  BY <1>23 DEF CloseBegin
<1>24. CASE CloseEnd
  BY <1>24 DEF CloseEnd
<1>25. CASE SensorGate
  BY <1>25 DEF SensorGate
<1>26. CASE SensorData_Upload
  BY <1>26 DEF SensorData_Upload
<1>27. CASE cloud_heartbeat_timer_handle
  BY <1>27 DEF cloud_heartbeat_timer_handle
<1>28. CASE WifiUp
  BY <1>28 DEF WifiUp
<1>29. CASE ServerAnswer
  <2>1. PICK f \in Frames : Deliver(f)
    BY <1>29 DEF ServerAnswer
  <2>2. inbox' \in Seq(Frames) /\ Len(inbox') = Len(inbox) + 1
    BY <2>1 DEF Deliver
  <2> QED
    BY <1>29, <2>1, <2>2 DEF ServerAnswer, Deliver
<1>30. CASE ServerFrame
  BY <1>30 DEF ServerFrame, Deliver
<1>31. CASE PeerFin
  BY <1>31 DEF PeerFin, PeerLeaves
<1>32. CASE PeerReset
  BY <1>32 DEF PeerReset, PeerLeaves
<1>33. CASE OtherOpen
  BY LowestFreeIsFree, <1>33 DEF OtherOpen, FreeFds
<1>34. CASE OtherClose
  BY <1>34 DEF OtherClose
<1>35. CASE RecvSelectError
  BY <1>35 DEF RecvSelectError
<1>36. CASE UNCHANGED vars
  BY <1>36 DEF vars
<1> QED
  BY <1>1, <1>2, <1>3, <1>4, <1>5, <1>6, <1>7, <1>8, <1>9, <1>10, <1>11, <1>12,
     <1>13, <1>14, <1>15, <1>16, <1>17, <1>18, <1>19, <1>20, <1>21, <1>22,
     <1>23, <1>24, <1>25, <1>26, <1>27, <1>28, <1>29, <1>30, <1>31, <1>32,
     <1>33, <1>34, <1>35, <1>36
  DEF Next, SendStep, CloudStep, Environment

(* Every reachable state of the link is well typed: in particular the      *)
(* fourth failed CONNREQ always ends the retries of Agent_cloud_process.   *)
THEOREM TypeCorrect == Spec => []TypeOK
<1>1. TypeInv => TypeOK
  BY DEF TypeInv
<1> QED
  BY TypeInit, TypeNext, <1>1, PTL DEF Spec

THEOREM TypeInvariant == Spec => []TypeInv
  BY TypeInit, TypeNext, PTL DEF Spec

-----------------------------------------------------------------------------
(* The mutex.                                                              *)

LEMMA MutexInit == Init => MutexDiscipline
  BY DEF Init, MutexDiscipline, Threads, NoThread, Cloud, Sensor, Heart, CritPcs

LEMMA MutexNext ==
  TypeInv /\ MutexDiscipline /\ [Next]_vars => MutexDiscipline'
<1> SUFFICES ASSUME TypeInv, MutexDiscipline, [Next]_vars PROVE MutexDiscipline'
  OBVIOUS
<1> USE DEF TypeInv, TypeOK, PcInv, MutexDiscipline, Threads, NoThread, Cloud, Sensor,
        Heart, CloudPcs, SendPcs, CritPcs, Goto, sockVars, loginVars, selVars
<1>1. ASSUME NEW t \in Threads, Lock(t) PROVE MutexDiscipline'
  BY <1>1 DEF Lock
<1>2. ASSUME NEW t \in Threads, FdSet(t) PROVE MutexDiscipline'
  BY <1>2 DEF FdSet
<1>3. ASSUME NEW t \in Threads, SelectNow(t) PROVE MutexDiscipline'
  BY <1>3 DEF SelectNow
<1>4. ASSUME NEW t \in Threads, SelectWait(t) PROVE MutexDiscipline'
  BY <1>4 DEF SelectWait
<1>5. ASSUME NEW t \in Threads, SelectError(t) PROVE MutexDiscipline'
  BY <1>5 DEF SelectError, AfterSend
<1>6. ASSUME NEW t \in Threads, SelectWake(t) PROVE MutexDiscipline'
  BY <1>6 DEF SelectWake
<1>7. ASSUME NEW t \in Threads, IsSet(t) PROVE MutexDiscipline'
  BY <1>7 DEF IsSet
<1>8. ASSUME NEW t \in Threads, SendOk(t) PROVE MutexDiscipline'
  BY <1>8 DEF SendOk, AfterSend
<1>9. ASSUME NEW t \in Threads, SendFail(t) PROVE MutexDiscipline'
  BY <1>9 DEF SendFail
<1>10. ASSUME NEW t \in Threads, RaiseReset(t) PROVE MutexDiscipline'
  BY <1>10 DEF RaiseReset, AfterSend
<1>11. CASE CloudStart
  BY <1>11 DEF CloudStart
<1>12. CASE CreateSocket
  BY <1>12 DEF CreateSocket
<1>13. CASE ConnectOk
  BY <1>13 DEF ConnectOk
<1>14. CASE ConnectFail
  BY <1>14 DEF ConnectFail
<1>15. CASE RetryConnReq
  BY <1>15 DEF RetryConnReq
<1>16. CASE RecvReset
  BY <1>16 DEF RecvReset
<1>17. CASE RecvError
  BY <1>17 DEF RecvError
<1>18. CASE RecvFin
  BY <1>18 DEF RecvFin
<1>19. CASE RecvFrames
  BY <1>19 DEF RecvFrames
<1>20. CASE ProcessFrame
  BY <1>20 DEF ProcessFrame
<1>21. CASE FramesDone
  BY <1>21 DEF FramesDone
<1>22. CASE RecvCheck
  BY <1>22 DEF RecvCheck
<1>23. CASE CloseBegin
  BY <1>23 DEF CloseBegin
<1>24. CASE CloseEnd
  BY <1>24 DEF CloseEnd
<1>25. CASE SensorGate
  BY <1>25 DEF SensorGate
<1>26. CASE SensorData_Upload
  BY <1>26 DEF SensorData_Upload
<1>27. CASE cloud_heartbeat_timer_handle
  BY <1>27 DEF cloud_heartbeat_timer_handle
<1>28. CASE WifiUp
  BY <1>28 DEF WifiUp
<1>29. CASE ServerAnswer
  BY <1>29 DEF ServerAnswer, Deliver
<1>30. CASE ServerFrame
  BY <1>30 DEF ServerFrame, Deliver
<1>31. CASE PeerFin
  BY <1>31 DEF PeerFin, PeerLeaves
<1>32. CASE PeerReset
  BY <1>32 DEF PeerReset, PeerLeaves
<1>33. CASE OtherOpen
  BY <1>33 DEF OtherOpen
<1>34. CASE OtherClose
  BY <1>34 DEF OtherClose
<1>35. CASE RecvSelectError
  BY <1>35 DEF RecvSelectError
<1>36. CASE UNCHANGED vars
  BY <1>36 DEF vars
<1> QED
  BY <1>1, <1>2, <1>3, <1>4, <1>5, <1>6, <1>7, <1>8, <1>9, <1>10, <1>11, <1>12,
     <1>13, <1>14, <1>15, <1>16, <1>17, <1>18, <1>19, <1>20, <1>21, <1>22,
     <1>23, <1>24, <1>25, <1>26, <1>27, <1>28, <1>29, <1>30, <1>31, <1>32,
     <1>33, <1>34, <1>35, <1>36
  DEF Next, SendStep, CloudStep, Environment

(* At any time at most one task is between OSMutexPend and OSMutexPost of  *)
(* Socket_TCPClientSendData, and it owns the mutex, as long as select()    *)
(* has never failed: frames of two tasks are not mixed on the wire.        *)
THEOREM MutexCorrect == Spec => []MutexDiscipline
  BY MutexInit, MutexNext, TypeInvariant, PTL DEF Spec

-----------------------------------------------------------------------------
(* Descriptors.                                                            *)

LEMMA NoFdLeakInit == Init => NoFdLeak
  BY DEF Init, NoFdLeak, CloudFds, Fds, NoFd

LEMMA NoFdLeakNext == TypeInv /\ NoFdLeak /\ [Next]_vars => NoFdLeak'
<1> SUFFICES ASSUME TypeInv, NoFdLeak, [Next]_vars PROVE NoFdLeak'
  OBVIOUS
<1> USE CloudLinkAssumption
    DEF TypeInv, TypeOK, PcInv, FdInv, NoFdLeak, CloudFds, Fds, NoFd, SockStates, Cloud,
        Sensor, Heart, Threads, CloudPcs, SendPcs, CritPcs, sockVars
<1>1. ASSUME NEW t \in Threads, Lock(t) PROVE NoFdLeak'
  BY <1>1 DEF Lock
<1>2. ASSUME NEW t \in Threads, FdSet(t) PROVE NoFdLeak'
  BY <1>2 DEF FdSet
<1>3. ASSUME NEW t \in Threads, SelectNow(t) PROVE NoFdLeak'
  BY <1>3 DEF SelectNow
<1>4. ASSUME NEW t \in Threads, SelectWait(t) PROVE NoFdLeak'
  BY <1>4 DEF SelectWait
<1>5. ASSUME NEW t \in Threads, SelectError(t) PROVE NoFdLeak'
  BY <1>5 DEF SelectError, AfterSend
<1>6. ASSUME NEW t \in Threads, SelectWake(t) PROVE NoFdLeak'
  BY <1>6 DEF SelectWake
<1>7. ASSUME NEW t \in Threads, IsSet(t) PROVE NoFdLeak'
  BY <1>7 DEF IsSet
<1>8. ASSUME NEW t \in Threads, SendOk(t) PROVE NoFdLeak'
  BY <1>8 DEF SendOk, AfterSend
<1>9. ASSUME NEW t \in Threads, SendFail(t) PROVE NoFdLeak'
  BY <1>9 DEF SendFail
<1>10. ASSUME NEW t \in Threads, RaiseReset(t) PROVE NoFdLeak'
  BY <1>10 DEF RaiseReset, AfterSend
<1>11. CASE CloudStart
  BY <1>11 DEF CloudStart
<1>12. CASE CreateSocket
  BY LowestFreeIsFree, <1>12 DEF CreateSocket, FreeFds
<1>13. CASE ConnectOk
  BY <1>13 DEF ConnectOk
<1>14. CASE ConnectFail
  BY <1>14 DEF ConnectFail
<1>15. CASE RetryConnReq
  BY <1>15 DEF RetryConnReq
<1>16. CASE RecvReset
  BY <1>16 DEF RecvReset
<1>17. CASE RecvError
  BY <1>17 DEF RecvError
<1>18. CASE RecvFin
  BY <1>18 DEF RecvFin
<1>19. CASE RecvFrames
  BY <1>19 DEF RecvFrames
<1>20. CASE ProcessFrame
  BY <1>20 DEF ProcessFrame
<1>21. CASE FramesDone
  BY <1>21 DEF FramesDone
<1>22. CASE RecvCheck
  BY <1>22 DEF RecvCheck
<1>23. CASE CloseBegin
  BY <1>23 DEF CloseBegin
<1>24. CASE CloseEnd
  BY <1>24 DEF CloseEnd
<1>25. CASE SensorGate
  BY <1>25 DEF SensorGate
<1>26. CASE SensorData_Upload
  BY <1>26 DEF SensorData_Upload
<1>27. CASE cloud_heartbeat_timer_handle
  BY <1>27 DEF cloud_heartbeat_timer_handle
<1>28. CASE WifiUp
  BY <1>28 DEF WifiUp
<1>29. CASE ServerAnswer
  BY <1>29 DEF ServerAnswer, Deliver
<1>30. CASE ServerFrame
  BY <1>30 DEF ServerFrame, Deliver
<1>31. CASE PeerFin
  BY <1>31 DEF PeerFin, PeerLeaves
<1>32. CASE PeerReset
  BY <1>32 DEF PeerReset, PeerLeaves
<1>33. CASE OtherOpen
  BY LowestFreeIsFree, <1>33 DEF OtherOpen, FreeFds
<1>34. CASE OtherClose
  BY <1>34 DEF OtherClose
<1>35. CASE RecvSelectError
  BY <1>35 DEF RecvSelectError
<1>36. CASE UNCHANGED vars
  BY <1>36 DEF vars
<1> QED
  BY <1>1, <1>2, <1>3, <1>4, <1>5, <1>6, <1>7, <1>8, <1>9, <1>10, <1>11, <1>12,
     <1>13, <1>14, <1>15, <1>16, <1>17, <1>18, <1>19, <1>20, <1>21, <1>22,
     <1>23, <1>24, <1>25, <1>26, <1>27, <1>28, <1>29, <1>30, <1>31, <1>32,
     <1>33, <1>34, <1>35, <1>36
  DEF Next, SendStep, CloudStep, Environment

(* Socket_CreateTCPClient and Socket_TCPClientClose never lose a           *)
(* descriptor, whatever the size of the socket table: over any number of   *)
(* reconnects the client holds the socket TCPClientFd names and no other.  *)
THEOREM NoFdLeakCorrect == Spec => []NoFdLeak
  BY NoFdLeakInit, NoFdLeakNext, TypeInvariant, PTL DEF Spec

-----------------------------------------------------------------------------
(* The login state.                                                        *)

LEMMA FreshInit == Init => SilentInv /\ DoneIsFresh
  BY DEF Init, SilentInv, DoneIsFresh

LEMMA FreshNext ==
  TypeInv /\ SilentInv /\ DoneIsFresh /\ [Next]_vars => (SilentInv /\ DoneIsFresh)'
<1> SUFFICES ASSUME TypeInv, SilentInv, DoneIsFresh, [Next]_vars
             PROVE  (SilentInv /\ DoneIsFresh)'
  OBVIOUS
<1> USE DEF TypeInv, TypeOK, PcInv, BatchInv, SilentInv, DoneIsFresh, InSession,
        ConnStatus, Cloud, Sensor, Heart, Threads, CloudPcs, SendPcs, CritPcs,
        Frames, Goto, sockVars,
        loginVars, selVars
<1>1. ASSUME NEW t \in Threads, Lock(t) PROVE (SilentInv /\ DoneIsFresh)'
  BY <1>1 DEF Lock
<1>2. ASSUME NEW t \in Threads, FdSet(t) PROVE (SilentInv /\ DoneIsFresh)'
  BY <1>2 DEF FdSet
<1>3. ASSUME NEW t \in Threads, SelectNow(t) PROVE (SilentInv /\ DoneIsFresh)'
  BY <1>3 DEF SelectNow
<1>4. ASSUME NEW t \in Threads, SelectWait(t) PROVE (SilentInv /\ DoneIsFresh)'
  BY <1>4 DEF SelectWait
<1>5. ASSUME NEW t \in Threads, SelectError(t) PROVE (SilentInv /\ DoneIsFresh)'
  BY <1>5 DEF SelectError, AfterSend
<1>6. ASSUME NEW t \in Threads, SelectWake(t) PROVE (SilentInv /\ DoneIsFresh)'
  BY <1>6 DEF SelectWake
<1>7. ASSUME NEW t \in Threads, IsSet(t) PROVE (SilentInv /\ DoneIsFresh)'
  BY <1>7 DEF IsSet
<1>8. ASSUME NEW t \in Threads, SendOk(t) PROVE (SilentInv /\ DoneIsFresh)'
  BY <1>8 DEF SendOk, AfterSend
<1>9. ASSUME NEW t \in Threads, SendFail(t) PROVE (SilentInv /\ DoneIsFresh)'
  BY <1>9 DEF SendFail
<1>10. ASSUME NEW t \in Threads, RaiseReset(t) PROVE (SilentInv /\ DoneIsFresh)'
  BY <1>10 DEF RaiseReset, AfterSend
<1>11. CASE CloudStart
  BY <1>11 DEF CloudStart
<1>12. CASE CreateSocket
  BY <1>12 DEF CreateSocket
<1>13. CASE ConnectOk
  BY <1>13 DEF ConnectOk
<1>14. CASE ConnectFail
  BY <1>14 DEF ConnectFail
<1>15. CASE RetryConnReq
  BY <1>15 DEF RetryConnReq
<1>16. CASE RecvReset
  BY <1>16 DEF RecvReset
<1>17. CASE RecvError
  BY <1>17 DEF RecvError
<1>18. CASE RecvFin
  BY <1>18 DEF RecvFin
<1>19. CASE RecvFrames
  BY <1>19 DEF RecvFrames
<1>20. CASE ProcessFrame
  BY <1>20 DEF ProcessFrame
<1>21. CASE FramesDone
  BY <1>21 DEF FramesDone
<1>22. CASE RecvCheck
  BY <1>22 DEF RecvCheck
<1>23. CASE CloseBegin
  BY <1>23 DEF CloseBegin
<1>24. CASE CloseEnd
  BY <1>24 DEF CloseEnd
<1>25. CASE SensorGate
  BY <1>25 DEF SensorGate
<1>26. CASE SensorData_Upload
  BY <1>26 DEF SensorData_Upload
<1>27. CASE cloud_heartbeat_timer_handle
  BY <1>27 DEF cloud_heartbeat_timer_handle
<1>28. CASE WifiUp
  BY <1>28 DEF WifiUp
<1>29. CASE ServerAnswer
  BY <1>29 DEF ServerAnswer, Deliver
<1>30. CASE ServerFrame
  BY <1>30 DEF ServerFrame, Deliver
<1>31. CASE PeerFin
  BY <1>31 DEF PeerFin, PeerLeaves
<1>32. CASE PeerReset
  BY <1>32 DEF PeerReset, PeerLeaves
<1>33. CASE OtherOpen
  BY <1>33 DEF OtherOpen
<1>34. CASE OtherClose
  BY <1>34 DEF OtherClose
<1>35. CASE RecvSelectError
  BY <1>35 DEF RecvSelectError
<1>36. CASE UNCHANGED vars
  BY <1>36 DEF vars
<1> QED
  BY <1>1, <1>2, <1>3, <1>4, <1>5, <1>6, <1>7, <1>8, <1>9, <1>10, <1>11, <1>12,
     <1>13, <1>14, <1>15, <1>16, <1>17, <1>18, <1>19, <1>20, <1>21, <1>22,
     <1>23, <1>24, <1>25, <1>26, <1>27, <1>28, <1>29, <1>30, <1>31, <1>32,
     <1>33, <1>34, <1>35, <1>36
  DEF Next, SendStep, CloudStep, Environment

(* CLOUD_CONN_DONE on an open session always stems from an answer of the   *)
(* cloud on this connection, however often the link was torn down before.  *)
THEOREM FreshCorrect == Spec => []DoneIsFresh
  BY FreshInit, FreshNext, TypeInvariant, PTL DEF Spec
=============================================================================
